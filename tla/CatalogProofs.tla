--------------------------- MODULE CatalogProofs ---------------------------
(***************************************************************************)
(* The search indices and snapshots of Catalog, for all products, orders   *)
(* and bounds: what a document and a snapshot may become, what search      *)
(* finds, and what never reaches an index.                                 *)
(***************************************************************************)
EXTENDS Catalog, SequenceTheorems, SumLemmas

-----------------------------------------------------------------------------
(* The inductive invariant.                                                *)

(* What the requests hold, and what product.created and order.checkout     *)
(* carry.                                                                  *)
Saving == [id : Products, product : {Stored(doc) : doc \in Documents}]
TopicOf(i) == IF i = "products" THEN "product.created" ELSE "order.checkout"
EventsFor(i) == topics[TopicOf(i)]
CheckoutOf(id, cart) ==
  [id |-> id, userId |-> 1, status |-> "PENDING",
   items |-> [i \in DOMAIN cart |-> [productSku |-> cart[i].sku, quantity |-> cart[i].quantity]]]
Carried(i) == IF i = "products" THEN {Payload(held.id, held.product) : held \in Saving}
              ELSE {CheckoutOf(id, cart) : id \in OrderIds, cart \in Carts}

(* The shape of the variables, as far as it matters.                       *)
ProductShape ==
  /\ DOMAIN products = Products
  /\ \A p \in Products : Exists(p) => "variants" \in DOMAIN products[p]
OrderShape == DOMAIN orders = OrderIds /\ \A id \in OrderIds : DOMAIN orders[id] = {"status", "cart"}
OffsetShape == offset \in [Subscriptions -> Nat] /\ committed \in [Subscriptions -> Nat]
IndexShape ==
  DOMAIN index = Indices /\ \A i \in Indices : DOMAIN index[i] = {"mapping", "documents"}

(* A request holds products that exist, each once and no other request's.  *)
HeldOnce ==
  /\ DOMAIN calls = Requests
  /\ \A r \in Requests :
       /\ DOMAIN calls[r] = {"pc", "todo"}
       /\ calls[r].todo \in Seq(Saving)
       /\ calls[r].pc = "announce" => calls[r].todo # <<>>
       /\ \A k \in DOMAIN calls[r].todo : Exists(calls[r].todo[k].id)
  /\ \A r, q \in Requests : \A j \in DOMAIN calls[r].todo, k \in DOMAIN calls[q].todo :
       calls[r].todo[j].id = calls[q].todo[k].id => r = q /\ j = k

(* Nothing is announced twice, and what a request holds not yet.           *)
EventsOnce ==
  /\ DOMAIN topics = Topics
  /\ \A i \in Indices :
       /\ EventsFor(i) \in Seq(Carried(i))
       /\ \A j, k \in DOMAIN EventsFor(i) : EventsFor(i)[j].id = EventsFor(i)[k].id => j = k
  /\ \A k \in DOMAIN EventsFor("products") : Exists(EventsFor("products")[k].id)
  /\ \A k \in DOMAIN EventsFor("orders") : orders[EventsFor("orders")[k].id].status # "none"
  /\ \A r \in Requests : \A j \in DOMAIN calls[r].todo, k \in DOMAIN EventsFor("products") :
       calls[r].todo[j].id # EventsFor("products")[k].id

(* A document is an event that was published.                              *)
IndexFromEvents ==
  \A i \in Indices : \A id \in Indexed(i) : \E k \in DOMAIN EventsFor(i) :
    EventsFor(i)[k].id = id /\ index[i].documents[id] = EventsFor(i)[k]

IInv ==
  /\ ProductShape /\ OrderShape /\ OffsetShape /\ IndexShape
  /\ HeldOnce /\ EventsOnce /\ IndexFromEvents

-----------------------------------------------------------------------------
(* What is stored of a document is a product.                              *)
LEMMA StoredExists == \A doc : Stored(doc) # NoProduct /\ "variants" \in DOMAIN Stored(doc)
<1> TAKE doc
<1>1. "variants" \in DOMAIN Stored(doc)
  BY DEF Stored
<1>2. DOMAIN NoProduct = {}
  BY DEF NoProduct
<1> QED BY <1>1, <1>2

(* A product that is saved stays.                                          *)
LEMMA ProductsStay ==
  ASSUME ProductShape, [Next]_vars
  PROVE  ProductShape' /\ \A p \in Products : Exists(p) => Exists(p)'
<1> DEFINE Stay == ProductShape' /\ \A p \in Products : Exists(p) => Exists(p)'
<1>0. DOMAIN NoProduct = {}
  BY DEF NoProduct
<1>1. CASE UNCHANGED products
  BY <1>1 DEF ProductShape, Exists
<1>2. ASSUME NEW ids, NEW docs, products' = Saved(ids, docs) PROVE Stay
  BY <1>2, StoredExists DEF ProductShape, Exists, Saved
<1>3. ASSUME NEW items, NEW sign, Counted(items, sign) PROVE Stay
  <2>1. DOMAIN products' = Products
    BY <1>3 DEF Counted
  <2>2. ASSUME NEW p \in Products PROVE /\ Exists(p) => Exists(p)' /\ "variants" \in DOMAIN products'[p]
                                        /\ ~ Exists(p) => ~ Exists(p)'
    <3>1. CASE Exists(p)
      <4>1. DOMAIN products'[p] = DOMAIN products[p]
        BY <1>3, <3>1 DEF Counted
      <4> QED BY <1>0, <3>1, <4>1 DEF ProductShape, Exists
    <3>2. CASE ~ Exists(p)
      BY <1>3, <3>2 DEF Counted, Exists
    <3> QED BY <3>1, <3>2
  <2> QED BY <2>1, <2>2 DEF ProductShape
<1>4. ASSUME NEW p \in Products, NEW variants, NEW isActive, Update(p, variants, isActive) PROVE Stay
  <2>1. /\ DOMAIN products' = Products
        /\ \A q \in Products \ {p} : products'[q] = products[q]
        /\ DOMAIN products'[p] = DOMAIN products[p]
    BY <1>4 DEF Update, Updated, ProductShape
  <2>2. "variants" \in DOMAIN products[p]
    BY <1>4 DEF Update, ProductShape
  <2> QED BY <1>0, <2>1, <2>2 DEF ProductShape, Exists
<1>5. ASSUME NEW sku, NEW price, UpdatePrice(sku, price) PROVE Stay
  <2>1. PICK p \in Products : /\ sku \in DOMAIN Variants(p)
                              /\ products' = [products EXCEPT ![p].variants[sku].price = price]
    BY <1>5 DEF UpdatePrice
  <2>2. Exists(p)
    BY <2>1 DEF Variants
  <2>3. /\ DOMAIN products' = Products
        /\ \A q \in Products \ {p} : products'[q] = products[q]
        /\ DOMAIN products'[p] = DOMAIN products[p]
    BY <2>1 DEF ProductShape
  <2> QED BY <1>0, <2>2, <2>3 DEF ProductShape, Exists
<1>6. CASE UpdateStep
  BY <1>4, <1>5, <1>6 DEF UpdateStep
<1>7. ASSUME NEW r \in Requests, CreateStep(r) PROVE Stay
  BY <1>1, <1>2, <1>7 DEF CreateStep, InsertMany, InsertManyFails, EmitCreated, EmitLost, NamesFail
<1>8. CASE ConsumerStep
  BY <1>1, <1>3, <1>8
  DEF ConsumerStep, CountOrder, CountOrderThrows, CountRestock, IndexProduct, IndexOrder, CommitOffset
<1>9. CASE OrderStep \/ SearchStep \/ CrashProduct \/ CrashSearch \/ UNCHANGED vars
  BY <1>1, <1>9
  DEF OrderStep, PlaceOrder, CancelOrder, PublishRestock, SearchStep, CheckIndex, CreateIndex,
      CreateIndexFails, CrashProduct, CrashSearch, vars
<1> QED BY <1>6, <1>7, <1>8, <1>9 DEF Next, Step

(* An insertion adds products that were not there, and the request holds   *)
(* each of those it has saved.                                             *)
LEMMA Inserted ==
  ASSUME NEW n \in Nat, NEW ids \in [1 .. n -> Products], NEW docs \in [1 .. n -> Documents],
         NEW m \in 0 .. n, Fresh(ids), products' = Saved(SubSeq(ids, 1, m), docs)
  PROVE  LET held == Saves(ids, docs, m)
         IN  /\ held \in Seq(Saving)
             /\ \A k \in DOMAIN held : ~ Exists(held[k].id) /\ Exists(held[k].id)'
             /\ \A j, k \in DOMAIN held : held[j].id = held[k].id => j = k
<1> DEFINE held == Saves(ids, docs, m)
<1>1. DOMAIN held = 1 .. m /\ Len(held) = m
  BY DEF Saves
<1>2. \A k \in 1 .. m : held[k] = [id |-> ids[k], product |-> Stored(docs[k])]
  BY DEF Saves
<1>3. \A k \in 1 .. m : held[k] \in Saving
  <2> TAKE k \in 1 .. m
  <2>1. k \in 1 .. n
    OBVIOUS
  <2>2. ids[k] \in Products /\ docs[k] \in Documents
    BY <2>1
  <2>3. Stored(docs[k]) \in {Stored(doc) : doc \in Documents}
    BY <2>2
  <2>4. held[k] = [id |-> ids[k], product |-> Stored(docs[k])]
    BY <1>2
  <2> HIDE DEF held
  <2> QED BY <2>2, <2>3, <2>4 DEF Saving
<1>4. held \in Seq(Saving)
  <2>1. held \in [1 .. m -> Saving]
    <3>1. held = [k \in 1 .. m |-> held[k]]
      BY DEF Saves
    <3> HIDE DEF held
    <3> QED BY <1>3, <3>1
  <2>2. m \in Nat
    OBVIOUS
  <2> QED BY <2>1, <2>2, SeqDef
<1>5. ASSUME NEW k \in 1 .. m PROVE ~ Exists(ids[k]) /\ Exists(ids[k])'
  <2>1. SubSeq(ids, 1, m)[k] = ids[k] /\ k \in DOMAIN SubSeq(ids, 1, m)
    OBVIOUS
  <2>2. ids[k] \in Range(SubSeq(ids, 1, m))
    BY <2>1 DEF Range
  <2> QED BY <2>2, StoredExists DEF Saved, Exists, Fresh
<1>6. \A j, k \in 1 .. m : ids[j] = ids[k] => j = k
  BY DEF Fresh, IsInjective
<1> QED BY <1>1, <1>2, <1>4, <1>5, <1>6

(* What a step does to what the requests hold: an insertion, an event that *)
(* is sent or lost, or a request that ends.                                *)
InsertsThese(r, ids, docs, m) ==
  /\ calls[r].pc = "new"
  /\ Fresh(ids)
  /\ products' = Saved(SubSeq(ids, 1, m), docs)
  /\ \E pc \in {"announce", "failed"} :
       /\ pc = "announce" => m # 0
       /\ calls' = [calls EXCEPT ![r] = [pc |-> pc, todo |-> Saves(ids, docs, m)]]
Inserts(r) ==
  \E n \in Nat : \E ids \in [1 .. n -> Products], docs \in [1 .. n -> Documents], m \in 0 .. n :
    InsertsThese(r, ids, docs, m)
Ends ==
  /\ DOMAIN calls' = Requests
  /\ \A r \in Requests : /\ DOMAIN calls'[r] = {"pc", "todo"}
                         /\ calls'[r].todo = calls[r].todo
                         /\ calls'[r].pc \in {calls[r].pc, "failed"}
Sends(r) == (EmitCreated(r) \/ EmitLost(r)) /\ calls[r].pc = "announce" /\ Announced(r)

(* insertMany, whether it saves all documents or those before the first    *)
(* it cannot.                                                              *)
LEMMA InsertionsHold ==
  ASSUME NEW r \in Requests, NEW n \in {1, 2}, NEW ids \in [1 .. n -> Products],
         NEW docs \in [1 .. n -> Documents], InsertMany(r, ids, docs) \/ InsertManyFails(r, ids, docs)
  PROVE  Inserts(r)
<1>1. CASE InsertMany(r, ids, docs)
  <2>1. Len(ids) = n /\ SubSeq(ids, 1, n) = ids
    OBVIOUS
  <2>2. n \in Nat /\ n \in 0 .. n /\ n # 0
    OBVIOUS
  <2> QED BY <1>1, <2>1, <2>2 DEF InsertMany, Inserts, InsertsThese
<1>2. CASE InsertManyFails(r, ids, docs)
  <2>1. PICK k \in DOMAIN docs :
          /\ products' = Saved(SubSeq(ids, 1, k - 1), docs)
          /\ calls' = [calls EXCEPT ![r] = [pc |-> "failed", todo |-> Saves(ids, docs, k - 1)]]
    BY <1>2 DEF InsertManyFails
  <2>2. n \in Nat /\ k - 1 \in 0 .. n
    OBVIOUS
  <2> QED BY <1>2, <2>1, <2>2 DEF InsertManyFails, Inserts, InsertsThese
<1> QED BY <1>1, <1>2

(* create and createMany: a request saves what it then holds, announces or *)
(* loses what it holds first, or ends; no other operation touches it.      *)
LEMMA CallsChange ==
  ASSUME HeldOnce, [Next]_vars
  PROVE  \/ Ends
         \/ \E r \in Requests : Inserts(r)
         \/ \E r \in Requests : Sends(r)
<1>1. CASE UNCHANGED calls
  BY <1>1 DEF Ends, HeldOnce
<1>4. ASSUME NEW r \in Requests, EmitCreated(r) \/ EmitLost(r) PROVE Sends(r)
  BY <1>4 DEF Sends, EmitCreated, EmitLost
<1>5. ASSUME NEW r \in Requests, NamesFail(r) PROVE Ends
  BY <1>5 DEF NamesFail, Ends, HeldOnce
<1>6. CASE CrashProduct
  BY <1>6 DEF CrashProduct, Ends, HeldOnce
<1>7. ASSUME NEW r \in Requests, CreateStep(r)
      PROVE  Ends \/ Inserts(r) \/ Sends(r)
  BY <1>4, <1>5, <1>7, InsertionsHold DEF CreateStep
<1>8. CASE UpdateStep
  BY <1>1, <1>8 DEF UpdateStep, Update, UpdatePrice
<1>9. CASE OrderStep \/ SearchStep \/ CrashSearch \/ UNCHANGED vars
  BY <1>1, <1>9
  DEF OrderStep, PlaceOrder, CancelOrder, PublishRestock, SearchStep, CheckIndex, CreateIndex,
      CreateIndexFails, CrashSearch, vars
<1>10. CASE ConsumerStep
  BY <1>1, <1>10
  DEF ConsumerStep, CountOrder, CountOrderThrows, CountRestock, IndexProduct, IndexOrder, CommitOffset
<1> QED BY <1>6, <1>7, <1>8, <1>9, <1>10 DEF Next, Step

(* A request that sends, or loses, an event holds the rest.                *)
LEMMA SendLeaves ==
  ASSUME HeldOnce, NEW r \in Requests, calls[r].pc = "announce", Announced(r)
  PROVE  /\ DOMAIN calls' = Requests
         /\ \A q \in Requests \ {r} : calls'[q] = calls[q]
         /\ DOMAIN calls'[r] = {"pc", "todo"}
         /\ calls'[r].todo \in Seq(Saving)
         /\ Len(calls'[r].todo) = Len(calls[r].todo) - 1
         /\ \A k \in DOMAIN calls'[r].todo :
              k + 1 \in DOMAIN calls[r].todo /\ calls'[r].todo[k] = calls[r].todo[k + 1]
         /\ calls'[r].pc = "announce" => calls'[r].todo # <<>>
<1>1. calls[r].todo \in Seq(Saving) /\ calls[r].todo # <<>>
  BY DEF HeldOnce
<1>2. /\ DOMAIN calls' = Requests
      /\ \A q \in Requests \ {r} : calls'[q] = calls[q]
      /\ DOMAIN calls'[r] = {"pc", "todo"}
      /\ calls'[r].todo = Tail(calls[r].todo)
      /\ calls'[r].pc = "announce" => Len(calls[r].todo) # 1
  BY DEF HeldOnce, Announced
<1>3. /\ Tail(calls[r].todo) \in Seq(Saving)
      /\ Len(Tail(calls[r].todo)) = Len(calls[r].todo) - 1
      /\ \A k \in 1 .. Len(Tail(calls[r].todo)) : Tail(calls[r].todo)[k] = calls[r].todo[k + 1]
  BY <1>1, HeadTailProperties
<1>4. DOMAIN calls'[r].todo = 1 .. Len(calls'[r].todo) /\ DOMAIN calls[r].todo = 1 .. Len(calls[r].todo)
  BY <1>1, <1>2, <1>3
<1>5. calls'[r].pc = "announce" => calls'[r].todo # <<>>
  <2>1. Len(<<>>) = 0 /\ \A seq \in Seq(Saving) : seq # <<>> => Len(seq) \in Nat \ {0}
    BY EmptySeq
  <2>2. Len(calls[r].todo) \in Nat \ {0}
    BY <1>1, <2>1
  <2>3. Len(Tail(calls[r].todo)) = 0 => Len(calls[r].todo) = 1
    BY <1>3, <2>2
  <2>4. calls'[r].todo = <<>> => Len(Tail(calls[r].todo)) = 0
    BY <1>2, <2>1
  <2> QED BY <1>2, <2>3, <2>4
<1> QED BY <1>1, <1>2, <1>3, <1>4, <1>5

(* insertMany saves under new ids, so no product is held twice.            *)
LEMMA HeldOnceKept ==
  ASSUME ProductShape, HeldOnce, [Next]_vars
  PROVE  HeldOnce'
<1>0. \A p \in Products : Exists(p) => Exists(p)'
  BY ProductsStay
<1>1. ASSUME NEW r \in Requests, NEW k \in DOMAIN calls[r].todo PROVE calls[r].todo[k].id \in Products
  <2>1. calls[r].todo[k] \in Saving
    BY ElementOfSeq DEF HeldOnce
  <2> QED BY <2>1 DEF Saving
<1>2. CASE Ends
  BY <1>0, <1>1, <1>2 DEF Ends, HeldOnce
<1>3. ASSUME NEW r \in Requests, calls[r].pc = "announce", Announced(r) PROVE HeldOnce'
  <2> DEFINE At(q, k) == IF q = r THEN k + 1 ELSE k
  <2>1. /\ DOMAIN calls' = Requests
        /\ \A q \in Requests \ {r} : calls'[q] = calls[q]
        /\ DOMAIN calls'[r] = {"pc", "todo"}
        /\ calls'[r].todo \in Seq(Saving)
        /\ calls'[r].pc = "announce" => calls'[r].todo # <<>>
    BY <1>3, SendLeaves
  <2>2. ASSUME NEW q \in Requests, NEW k \in DOMAIN calls'[q].todo
        PROVE  At(q, k) \in DOMAIN calls[q].todo /\ calls'[q].todo[k] = calls[q].todo[At(q, k)]
    BY <1>3, SendLeaves
  <2>3. ASSUME NEW q \in Requests, NEW k \in DOMAIN calls'[q].todo PROVE Exists(calls[q].todo[k].id)'
    <3>1. Exists(calls[q].todo[At(q, k)].id) /\ calls[q].todo[At(q, k)].id \in Products
      BY <1>1, <2>2 DEF HeldOnce
    <3> QED BY <1>0, <2>2, <3>1 DEF Exists
  <2>4. ASSUME NEW q \in Requests, NEW k \in DOMAIN calls'[q].todo PROVE k \in Nat
    <3>1. calls'[q].todo \in Seq(Saving)
      BY <2>1 DEF HeldOnce
    <3> QED BY <3>1
  <2>5. ASSUME NEW q \in Requests, NEW s \in Requests,
               NEW j \in DOMAIN calls'[q].todo, NEW k \in DOMAIN calls'[s].todo,
               calls'[q].todo[j].id = calls'[s].todo[k].id
        PROVE  q = s /\ j = k
    <3>1. q = s /\ At(q, j) = At(s, k)
      BY <2>2, <2>5 DEF HeldOnce
    <3> QED BY <2>4, <3>1
  <2> HIDE DEF At
  <2>6. \A q \in Requests : /\ DOMAIN calls'[q] = {"pc", "todo"}
                            /\ calls'[q].todo \in Seq(Saving)
                            /\ calls'[q].pc = "announce" => calls'[q].todo # <<>>
    BY <2>1 DEF HeldOnce
  <2> QED BY <2>1, <2>3, <2>5, <2>6 DEF HeldOnce
<1>4. ASSUME NEW r \in Requests, Inserts(r) PROVE HeldOnce'
  <2>9. PICK n \in Nat :
          \E ids \in [1 .. n -> Products], docs \in [1 .. n -> Documents], m \in 0 .. n :
            InsertsThese(r, ids, docs, m)
    BY <1>4 DEF Inserts
  <2>10. PICK ids \in [1 .. n -> Products], docs \in [1 .. n -> Documents], m \in 0 .. n :
          InsertsThese(r, ids, docs, m)
    BY <2>9
  <2>1. PICK pc \in {"announce", "failed"} :
          /\ Fresh(ids)
          /\ products' = Saved(SubSeq(ids, 1, m), docs)
          /\ pc = "announce" => m # 0
          /\ calls' = [calls EXCEPT ![r] = [pc |-> pc, todo |-> Saves(ids, docs, m)]]
    BY <2>10 DEF InsertsThese
  <2> DEFINE held == Saves(ids, docs, m)
  <2>2. /\ held \in Seq(Saving)
        /\ \A k \in DOMAIN held : ~ Exists(held[k].id) /\ Exists(held[k].id)'
        /\ \A j, k \in DOMAIN held : held[j].id = held[k].id => j = k
    BY <2>1, Inserted
  <2>3. Len(held) = m
    BY DEF Saves
  <2>4. pc = "announce" => held # <<>>
    BY <2>1, <2>3
  <2>5. /\ DOMAIN calls' = Requests
        /\ \A q \in Requests \ {r} : calls'[q] = calls[q]
        /\ calls'[r] = [pc |-> pc, todo |-> held]
    BY <2>1 DEF HeldOnce
  <2> HIDE DEF held
  <2>6. \A q \in Requests : /\ DOMAIN calls'[q] = {"pc", "todo"}
                            /\ calls'[q].todo \in Seq(Saving)
                            /\ calls'[q].pc = "announce" => calls'[q].todo # <<>>
    BY <2>2, <2>4, <2>5 DEF HeldOnce
  <2>7. ASSUME NEW q \in Requests, NEW k \in DOMAIN calls'[q].todo PROVE Exists(calls[q].todo[k].id)'
    <3>1. CASE q = r
      BY <2>2, <2>5, <3>1 DEF Exists
    <3>2. CASE q # r
      <4>1. calls'[q] = calls[q] /\ Exists(calls[q].todo[k].id) /\ calls[q].todo[k].id \in Products
        BY <1>1, <2>5, <3>2 DEF HeldOnce
      <4> QED BY <1>0, <4>1 DEF Exists
    <3> QED BY <3>1, <3>2
  <2>8. ASSUME NEW q \in Requests, NEW s \in Requests,
               NEW j \in DOMAIN calls'[q].todo, NEW k \in DOMAIN calls'[s].todo,
               calls'[q].todo[j].id = calls'[s].todo[k].id
        PROVE  q = s /\ j = k
    <3>1. CASE q = r /\ s = r
      BY <2>2, <2>5, <2>8, <3>1
    <3>2. CASE q # r /\ s # r
      BY <2>5, <2>8, <3>2 DEF HeldOnce
    <3>3. CASE q = r /\ s # r
      BY <2>2, <2>5, <2>8, <3>3 DEF HeldOnce
    <3>4. CASE q # r /\ s = r
      BY <2>2, <2>5, <2>8, <3>4 DEF HeldOnce
    <3> QED BY <3>1, <3>2, <3>3, <3>4
  <2> QED BY <2>5, <2>6, <2>7, <2>8 DEF HeldOnce
<1> QED BY <1>2, <1>3, <1>4, CallsChange DEF Sends

-----------------------------------------------------------------------------
(* The shapes of orders and offsets.                                       *)
LEMMA OrdersKept ==
  ASSUME OrderShape, [Next]_vars
  PROVE  OrderShape' /\ \A id \in OrderIds : orders[id].status # "none" => orders'[id].status # "none"
<1> DEFINE Kept ==
      OrderShape' /\ \A id \in OrderIds : orders[id].status # "none" => orders'[id].status # "none"
<1>1. CASE UNCHANGED orders
  BY <1>1 DEF OrderShape
<1>2. ASSUME NEW id \in OrderIds, NEW cart \in Carts, PlaceOrder(id, cart) PROVE Kept
  BY <1>2 DEF PlaceOrder, OrderShape
<1>3. ASSUME NEW id \in OrderIds, CancelOrder(id) PROVE Kept
  BY <1>3 DEF CancelOrder, OrderShape
<1>4. CASE OrderStep
  BY <1>1, <1>2, <1>3, <1>4 DEF OrderStep, PublishRestock
<1>5. ASSUME NEW r \in Requests, CreateStep(r) PROVE UNCHANGED orders
  BY <1>5 DEF CreateStep, InsertMany, InsertManyFails, EmitCreated, EmitLost, NamesFail
<1>6. CASE UpdateStep \/ ConsumerStep
  BY <1>1, <1>6
  DEF UpdateStep, Update, UpdatePrice, ConsumerStep, CountOrder, CountOrderThrows, CountRestock,
      IndexProduct, IndexOrder, CommitOffset
<1>7. CASE SearchStep \/ CrashProduct \/ CrashSearch \/ UNCHANGED vars
  BY <1>1, <1>7
  DEF SearchStep, CheckIndex, CreateIndex, CreateIndexFails, CrashProduct, CrashSearch, vars
<1> QED BY <1>1, <1>4, <1>5, <1>6, <1>7 DEF Next, Step

(* Offsets stay numbers: a crash sets them back to committed ones.         *)
LEMMA OffsetsKept ==
  ASSUME OffsetShape, [Next]_vars
  PROVE  OffsetShape'
<1>1. CASE UNCHANGED kafkaVars
  BY <1>1 DEF OffsetShape, kafkaVars
<1>2. ASSUME NEW s \in Subscriptions, Acknowledge(s), UNCHANGED committed PROVE OffsetShape'
  BY <1>2 DEF OffsetShape, Acknowledge
<1>3. ASSUME NEW s \in Subscriptions, CommitOffset(s) PROVE OffsetShape'
  BY <1>3 DEF OffsetShape, CommitOffset
<1>4. CASE Died /\ UNCHANGED committed
  BY <1>4 DEF OffsetShape, Died
<1>5. CASE CrashProduct
  BY <1>5 DEF OffsetShape, CrashProduct
<1>6. /\ \A t \in {"order.checkout", "order.canceled", "product.restock"} :
           Subscription("product", t) \in Subscriptions
      /\ \A t \in {"product.created", "order.checkout"} : Subscription("search", t) \in Subscriptions
  BY DEF Subscriptions
<1>7. CASE ConsumerStep
  BY <1>1, <1>2, <1>3, <1>6, <1>7
  DEF ConsumerStep, CountOrder, CountOrderThrows, CountRestock, IndexProduct, IndexOrder, kafkaVars
<1>8. ASSUME NEW r \in Requests, CreateStep(r) PROVE UNCHANGED kafkaVars
  BY <1>8 DEF CreateStep, InsertMany, InsertManyFails, EmitCreated, EmitLost, NamesFail
<1>9. CASE UpdateStep \/ OrderStep \/ UNCHANGED vars
  BY <1>1, <1>9
  DEF UpdateStep, Update, UpdatePrice, OrderStep, PlaceOrder, CancelOrder, PublishRestock, vars
<1>10. CASE SearchStep \/ CrashSearch
  BY <1>1, <1>4, <1>10 DEF SearchStep, CheckIndex, CreateIndex, CreateIndexFails, CrashSearch, kafkaVars
<1> QED BY <1>1, <1>5, <1>7, <1>8, <1>9, <1>10 DEF Next, Step

(* Only a request that announces, or a placed order, publishes to a topic  *)
(* that is indexed.                                                        *)
LEMMA TopicsChange ==
  ASSUME EventsOnce, [Next]_vars
  PROVE  /\ DOMAIN topics' = Topics
         /\ \/ \A i \in Indices : EventsFor(i)' = EventsFor(i)
            \/ \E r \in Requests : EmitCreated(r)
            \/ \E id \in OrderIds, cart \in Carts : PlaceOrder(id, cart)
<1> DEFINE Same == DOMAIN topics' = Topics /\ \A i \in Indices : EventsFor(i)' = EventsFor(i)
<1>1. CASE UNCHANGED topics
  BY <1>1 DEF EventsFor, EventsOnce
<1>2. ASSUME NEW t \in {"order.canceled", "product.restock"}, NEW message, Publish(t, message)
      PROVE  Same
  BY <1>2 DEF Publish, EventsFor, TopicOf, EventsOnce
<1>3. ASSUME NEW r \in Requests, EmitCreated(r) PROVE DOMAIN topics' = Topics
  BY <1>3 DEF EmitCreated, EmitNext, Publish, EventsOnce
<1>4. ASSUME NEW id \in OrderIds, NEW cart \in Carts, PlaceOrder(id, cart)
      PROVE  DOMAIN topics' = Topics
  BY <1>4 DEF PlaceOrder, Publish, EventsOnce
<1>5. ASSUME NEW r \in Requests, CreateStep(r) PROVE UNCHANGED topics \/ EmitCreated(r)
  BY <1>5 DEF CreateStep, InsertMany, InsertManyFails, EmitLost, NamesFail
<1>6. ASSUME OrderStep
      PROVE  Same \/ \E id \in OrderIds, cart \in Carts : PlaceOrder(id, cart)
  BY <1>2, <1>6 DEF OrderStep, CancelOrder, PublishRestock
<1>7. CASE UpdateStep \/ ConsumerStep
  BY <1>1, <1>7
  DEF UpdateStep, Update, UpdatePrice, ConsumerStep, CountOrder, CountOrderThrows, CountRestock,
      IndexProduct, IndexOrder, CommitOffset
<1>8. CASE SearchStep \/ CrashProduct \/ CrashSearch \/ UNCHANGED vars
  BY <1>1, <1>8
  DEF SearchStep, CheckIndex, CreateIndex, CreateIndexFails, CrashProduct, CrashSearch, vars
<1> QED BY <1>1, <1>3, <1>4, <1>5, <1>6, <1>7, <1>8 DEF Next, Step

(* An index gets an event of its topic.                                    *)
IndexesEvent(i) ==
  \E k \in DOMAIN EventsFor(i) : Put(i, EventsFor(i)[k].id, EventsFor(i)[k]) /\ UNCHANGED topics

(* An index changes when the search service creates it, or indexes an      *)
(* event.                                                                  *)
LEMMA IndexChange ==
  ASSUME OffsetShape, EventsOnce, [Next]_vars
  PROVE  \/ UNCHANGED index
         \/ \E i \in Indices : CreateIndex(i) \/ IndexesEvent(i)
<1>1. ASSUME NEW i \in Indices, NEW s \in Subscriptions, s.topic = TopicOf(i), HasMessage(s),
             Put(i, HeadOf(s).id, HeadOf(s)), UNCHANGED topics
      PROVE  IndexesEvent(i)
  <2>1. EventsFor(i) \in Seq(Carried(i)) /\ offset[s] \in Nat
    BY DEF EventsOnce, OffsetShape
  <2>2. offset[s] + 1 \in DOMAIN EventsFor(i)
    BY <1>1, <2>1 DEF HasMessage, EventsFor
  <2>3. HeadOf(s) = EventsFor(i)[offset[s] + 1]
    BY <1>1 DEF HeadOf, EventsFor
  <2> QED BY <1>1, <2>2, <2>3 DEF IndexesEvent
<1>2. CASE IndexProduct
  <2>1. Subscription("search", "product.created") \in Subscriptions /\ "products" \in Indices
    BY DEF Subscriptions, Indices
  <2>2. Subscription("search", "product.created").topic = TopicOf("products")
    BY DEF Subscription, TopicOf
  <2> QED BY <1>1, <1>2, <2>1, <2>2 DEF IndexProduct
<1>3. CASE IndexOrder
  <2>1. Subscription("search", "order.checkout") \in Subscriptions /\ "orders" \in Indices
    BY DEF Subscriptions, Indices
  <2>2. Subscription("search", "order.checkout").topic = TopicOf("orders")
    BY DEF Subscription, TopicOf
  <2> QED BY <1>1, <1>3, <2>1, <2>2 DEF IndexOrder
<1>4. ASSUME NEW r \in Requests, CreateStep(r) PROVE UNCHANGED index
  BY <1>4 DEF CreateStep, InsertMany, InsertManyFails, EmitCreated, EmitLost, NamesFail, searchVars
<1>5. CASE UpdateStep \/ OrderStep \/ UNCHANGED vars
  BY <1>5 DEF UpdateStep, Update, UpdatePrice, OrderStep, PlaceOrder, CancelOrder, PublishRestock,
              searchVars, vars
<1>6. ASSUME ConsumerStep PROVE UNCHANGED index \/ IndexProduct \/ IndexOrder
  BY <1>6 DEF ConsumerStep, CountOrder, CountOrderThrows, CountRestock, CommitOffset, searchVars
<1>7. ASSUME SearchStep PROVE UNCHANGED index \/ \E i \in Indices : CreateIndex(i)
  BY <1>7 DEF SearchStep, CheckIndex, CreateIndexFails
<1>8. CASE CrashProduct \/ CrashSearch
  BY <1>8 DEF CrashProduct, CrashSearch, searchVars
<1> QED BY <1>2, <1>3, <1>4, <1>5, <1>6, <1>7, <1>8 DEF Next, Step

-----------------------------------------------------------------------------
(* Events stay apart.                                                      *)
Once(events) == \A j, k \in DOMAIN events : events[j].id = events[k].id => j = k

(* An event with an id of its own leaves every id once.                    *)
LEMMA AppendOnce ==
  ASSUME NEW S, NEW events \in Seq(S), NEW event \in S, Once(events),
         \A k \in DOMAIN events : events[k].id # event.id
  PROVE  LET more == Append(events, event)
         IN  /\ more \in Seq(S) /\ Once(more)
             /\ \A k \in DOMAIN more : more[k] = event \/ \E j \in DOMAIN events : more[k] = events[j]
             /\ \A k \in DOMAIN events : k \in DOMAIN more /\ more[k] = events[k]
<1> DEFINE more == Append(events, event)
<1>1. /\ more \in Seq(S)
      /\ Len(more) = Len(events) + 1
      /\ \A k \in 1 .. Len(events) : more[k] = events[k]
      /\ more[Len(events) + 1] = event
  BY AppendProperties
<1> HIDE DEF more
<1>2. DOMAIN events = 1 .. Len(events) /\ DOMAIN more = 1 .. Len(events) + 1 /\ Len(events) \in Nat
  BY <1>1, LenProperties
<1>3. \A k \in DOMAIN more : k = Len(events) + 1 \/ k \in DOMAIN events
  BY <1>2
<1>4. Once(more)
  <2>1. SUFFICES ASSUME NEW j \in DOMAIN more, NEW k \in DOMAIN more, more[j].id = more[k].id
                 PROVE  j = k
    BY DEF Once
  <2>2. CASE j \in DOMAIN events /\ k \in DOMAIN events
    BY <1>1, <1>2, <2>1, <2>2 DEF Once
  <2>3. CASE j = Len(events) + 1 /\ k \in DOMAIN events
    BY <1>1, <1>2, <2>1, <2>3
  <2>4. CASE j \in DOMAIN events /\ k = Len(events) + 1
    BY <1>1, <1>2, <2>1, <2>4
  <2> QED BY <1>3, <2>2, <2>3, <2>4
<1>5. \A k \in DOMAIN more : more[k] = event \/ \E j \in DOMAIN events : more[k] = events[j]
  BY <1>1, <1>2, <1>3
<1>6. \A k \in DOMAIN events : k \in DOMAIN more /\ more[k] = events[k]
  BY <1>1, <1>2
<1> QED BY <1>1, <1>4, <1>5, <1>6 DEF more

(* What a request holds at place j after a step it held before, and it     *)
(* does not start to announce it.                                          *)
HeldAlready(r, j) ==
  /\ \E k \in DOMAIN calls[r].todo : calls'[r].todo[j] = calls[r].todo[k]
  /\ calls'[r].pc = "announce" => calls[r].pc = "announce"

(* What a request holds that it did not hold is a new product.             *)
LEMMA HeldBefore ==
  ASSUME HeldOnce, [Next]_vars, NEW r \in Requests, NEW j \in DOMAIN calls'[r].todo
  PROVE  HeldAlready(r, j) \/ ~ Exists(calls'[r].todo[j].id)
<1>1. CASE Ends
  BY <1>1 DEF Ends, HeldAlready
<1>2. ASSUME NEW q \in Requests, calls[q].pc = "announce", Announced(q)
      PROVE  HeldAlready(r, j)
  BY <1>2, SendLeaves DEF HeldAlready
<1>3. ASSUME NEW q \in Requests, Inserts(q)
      PROVE  HeldAlready(r, j) \/ ~ Exists(calls'[r].todo[j].id)
  <2>1. PICK n \in Nat :
          \E ids \in [1 .. n -> Products], docs \in [1 .. n -> Documents], m \in 0 .. n :
            InsertsThese(q, ids, docs, m)
    BY <1>3 DEF Inserts
  <2>2. PICK ids \in [1 .. n -> Products], docs \in [1 .. n -> Documents], m \in 0 .. n :
          InsertsThese(q, ids, docs, m)
    BY <2>1
  <2>3. /\ \A k \in DOMAIN Saves(ids, docs, m) : ~ Exists(Saves(ids, docs, m)[k].id)
        /\ \E pc : calls' = [calls EXCEPT ![q] = [pc |-> pc, todo |-> Saves(ids, docs, m)]]
    BY <2>2, Inserted DEF InsertsThese
  <2>4. CASE q = r
    BY <2>3, <2>4 DEF HeldOnce
  <2>5. CASE q # r
    BY <2>3, <2>5 DEF HeldOnce, HeldAlready
  <2> QED BY <2>4, <2>5
<1> QED BY <1>1, <1>2, <1>3, CallsChange DEF Sends

(* What is carried has the id of a product or of an order.                 *)
LEMMA CarriedIds ==
  ASSUME EventsOnce
  PROVE  /\ \A k \in DOMAIN EventsFor("products") : EventsFor("products")[k].id \in Products
         /\ \A k \in DOMAIN EventsFor("orders") : EventsFor("orders")[k].id \in OrderIds
<1>1. /\ EventsFor("products") \in Seq(Carried("products"))
      /\ EventsFor("orders") \in Seq(Carried("orders"))
  BY DEF EventsOnce, Indices
<1>2. \A event \in Carried("products") : event.id \in Products
  BY DEF Carried, Payload, Saving
<1>3. \A event \in Carried("orders") : event.id \in OrderIds
  BY DEF Carried, CheckoutOf
<1> QED BY <1>1, <1>2, <1>3, ElementOfSeq

(* product.created gets what the request holds first.                      *)
LEMMA EmitAppends ==
  ASSUME HeldOnce, EventsOnce, NEW r \in Requests, EmitCreated(r)
  PROVE  /\ 1 \in DOMAIN calls[r].todo
         /\ EventsFor("orders")' = EventsFor("orders")
         /\ \E event \in Carried("products") :
              /\ event.id = calls[r].todo[1].id
              /\ EventsFor("products")' = Append(EventsFor("products"), event)
<1>1. calls[r].todo \in Seq(Saving) /\ calls[r].todo # <<>>
  BY DEF HeldOnce, EmitCreated
<1>2. 1 \in DOMAIN calls[r].todo /\ Head(calls[r].todo) = calls[r].todo[1]
  BY <1>1
<1>3. calls[r].todo[1] \in Saving
  BY <1>1, <1>2, ElementOfSeq
<1> DEFINE event == Payload(calls[r].todo[1].id, calls[r].todo[1].product)
<1>4. event \in Carried("products") /\ event.id = calls[r].todo[1].id
  <2>1. event \in {Payload(held.id, held.product) : held \in Saving}
    BY <1>3
  <2>2. event.id = calls[r].todo[1].id
    BY DEF Payload
  <2> QED BY <2>1, <2>2 DEF Carried
<1>5. topics' = [topics EXCEPT !["product.created"] = Append(@, event)]
  BY <1>2 DEF EmitCreated, EmitNext, Publish
<1> HIDE DEF event
<1>6. /\ EventsFor("products")' = Append(EventsFor("products"), event)
      /\ EventsFor("orders")' = EventsFor("orders")
  BY <1>5 DEF EventsFor, TopicOf, EventsOnce, Topics
<1> QED BY <1>2, <1>4, <1>6

(* order.checkout gets an order that was not placed before.                *)
LEMMA PlaceAppends ==
  ASSUME OrderShape, EventsOnce, NEW id \in OrderIds, NEW cart \in Carts, PlaceOrder(id, cart)
  PROVE  /\ EventsFor("products")' = EventsFor("products")
         /\ EventsFor("orders")' = Append(EventsFor("orders"), CheckoutOf(id, cart))
         /\ CheckoutOf(id, cart) \in Carried("orders") /\ CheckoutOf(id, cart).id = id
         /\ orders[id].status = "none" /\ orders'[id].status # "none"
         /\ UNCHANGED <<products, calls>>
<1>1. topics' = [topics EXCEPT !["order.checkout"] = Append(@, CheckoutOf(id, cart))]
  BY DEF PlaceOrder, Publish, CheckoutOf
<1>2. CheckoutOf(id, cart) \in Carried("orders") /\ CheckoutOf(id, cart).id = id
  <2>1. CheckoutOf(id, cart) \in {CheckoutOf(x, y) : x \in OrderIds, y \in Carts}
    OBVIOUS
  <2>2. CheckoutOf(id, cart).id = id
    BY DEF CheckoutOf
  <2> QED BY <2>1, <2>2 DEF Carried
<1>3. /\ EventsFor("products")' = EventsFor("products")
      /\ EventsFor("orders")' = Append(EventsFor("orders"), CheckoutOf(id, cart))
  BY <1>1 DEF EventsFor, TopicOf, EventsOnce, Topics
<1> QED BY <1>2, <1>3 DEF PlaceOrder, OrderShape

(* Nothing is announced twice: the event a request sends is of a product   *)
(* it alone holds, an order is placed once, and what is inserted later has *)
(* a new id.                                                               *)
LEMMA EventsOnceKept ==
  ASSUME ProductShape, OrderShape, HeldOnce, EventsOnce, [Next]_vars
  PROVE  EventsOnce'
<1> DEFINE made == EventsFor("products")
           placed == EventsFor("orders")
<1>1. /\ \A p \in Products : Exists(p) => Exists(p)'
      /\ \A id \in OrderIds : orders[id].status # "none" => orders'[id].status # "none"
      /\ DOMAIN topics' = Topics
  BY ProductsStay, OrdersKept, TopicsChange
<1>2. /\ made \in Seq(Carried("products")) /\ Once(made)
      /\ placed \in Seq(Carried("orders")) /\ Once(placed)
  BY DEF EventsOnce, Indices, Once
<1>3. /\ \A k \in DOMAIN made : made[k].id \in Products /\ Exists(made[k].id)
      /\ \A k \in DOMAIN placed : placed[k].id \in OrderIds /\ orders[placed[k].id].status # "none"
  BY CarriedIds DEF EventsOnce
<1>4. SUFFICES
        /\ made' \in Seq(Carried("products")) /\ Once(made')
        /\ placed' \in Seq(Carried("orders")) /\ Once(placed')
        /\ \A k \in DOMAIN made' : (Exists(made[k].id))'
        /\ \A k \in DOMAIN placed' : orders'[placed'[k].id].status # "none"
        /\ \A r \in Requests : \A j \in DOMAIN calls'[r].todo, k \in DOMAIN made' :
             calls'[r].todo[j].id # made'[k].id
  BY <1>1 DEF EventsOnce, Indices, Once, Carried, Saving, Payload, CheckoutOf, Stored, PriceRange
<1>5. ASSUME NEW r \in Requests, NEW j \in DOMAIN calls'[r].todo, NEW k \in DOMAIN made
      PROVE  calls'[r].todo[j].id # made[k].id
  BY <1>3, <1>5, HeldBefore DEF EventsOnce, HeldAlready
<1>6. CASE \A i \in Indices : EventsFor(i)' = EventsFor(i)
  <2>1. made' = made /\ placed' = placed
    BY <1>6 DEF Indices
  <2> HIDE DEF made, placed
  <2>2. \A k \in DOMAIN made' : (Exists(made[k].id))'
    BY <1>1, <1>3, <2>1 DEF Exists
  <2> QED BY <1>1, <1>2, <1>3, <1>5, <2>1, <2>2
<1>7. ASSUME NEW r \in Requests, EmitCreated(r)
      PROVE  /\ made' \in Seq(Carried("products")) /\ Once(made') /\ placed' = placed
             /\ \A k \in DOMAIN made' : (Exists(made[k].id))'
             /\ \A q \in Requests : \A j \in DOMAIN calls'[q].todo, k \in DOMAIN made' :
                  calls'[q].todo[j].id # made'[k].id
  <2>1. 1 \in DOMAIN calls[r].todo
    BY <1>7, EmitAppends
  <2>2. PICK event \in Carried("products") :
          /\ event.id = calls[r].todo[1].id
          /\ made' = Append(made, event)
    BY <1>7, EmitAppends
  <2>3. placed' = placed
    BY <1>7, EmitAppends
  <2>4. \A k \in DOMAIN made : made[k].id # event.id
    BY <2>1, <2>2 DEF EventsOnce
  <2>5. event.id \in Products /\ Exists(event.id)
    <3>1. calls[r].todo[1] \in Saving
      BY <2>1, ElementOfSeq DEF HeldOnce
    <3> QED BY <2>1, <2>2, <3>1 DEF HeldOnce, Saving
  <2> HIDE DEF made, placed
  <2>6. /\ made' \in Seq(Carried("products")) /\ Once(made')
        /\ \A k \in DOMAIN made' : made'[k] = event \/ \E j \in DOMAIN made : made'[k] = made[j]
    BY <1>2, <2>2, <2>4, AppendOnce
  <2>7. \A k \in DOMAIN made' : (Exists(made[k].id))'
    BY <1>1, <1>3, <2>5, <2>6 DEF Exists
  <2>8. ASSUME NEW q \in Requests, NEW j \in DOMAIN calls'[q].todo, calls'[q].todo[j].id = event.id
        PROVE  FALSE
    <3>1. calls[r].pc = "announce" /\ Announced(r)
      BY <1>7 DEF EmitCreated
    <3>2. CASE q = r
      <4>1. /\ j \in Nat \ {0}
            /\ j + 1 \in DOMAIN calls[r].todo /\ calls'[r].todo[j] = calls[r].todo[j + 1]
        <5>1. calls'[r].todo \in Seq(Saving)
          BY <3>1, SendLeaves
        <5>2. j \in 1 .. Len(calls'[r].todo) /\ Len(calls'[r].todo) \in Nat
          BY <3>2, <5>1, LenProperties
        <5> QED BY <2>8, <3>1, <3>2, <5>2, SendLeaves
      <4>2. j + 1 = 1
        BY <2>1, <2>2, <2>8, <3>2, <4>1 DEF HeldOnce
      <4> QED BY <4>1, <4>2
    <3>3. CASE q # r
      <4>1. calls'[q] = calls[q]
        BY <3>1, <3>3, SendLeaves
      <4> QED BY <2>1, <2>2, <2>8, <3>3, <4>1 DEF HeldOnce
    <3> QED BY <3>2, <3>3
  <2>9. \A q \in Requests : \A j \in DOMAIN calls'[q].todo, k \in DOMAIN made' :
          calls'[q].todo[j].id # made'[k].id
    BY <1>5, <2>6, <2>8
  <2> QED BY <2>3, <2>6, <2>7, <2>9
<1>8. ASSUME NEW id \in OrderIds, NEW cart \in Carts, PlaceOrder(id, cart)
      PROVE  /\ placed' \in Seq(Carried("orders")) /\ Once(placed') /\ made' = made
             /\ \A k \in DOMAIN placed' : orders'[placed'[k].id].status # "none"
  <2>1. /\ made' = made
        /\ placed' = Append(placed, CheckoutOf(id, cart))
        /\ CheckoutOf(id, cart) \in Carried("orders") /\ CheckoutOf(id, cart).id = id
        /\ orders[id].status = "none" /\ orders'[id].status # "none"
    BY <1>8, PlaceAppends
  <2>2. \A k \in DOMAIN placed : placed[k].id # CheckoutOf(id, cart).id
    BY <1>3, <2>1
  <2> HIDE DEF made, placed
  <2>3. /\ placed' \in Seq(Carried("orders")) /\ Once(placed')
        /\ \A k \in DOMAIN placed' :
             placed'[k] = CheckoutOf(id, cart) \/ \E j \in DOMAIN placed : placed'[k] = placed[j]
    BY <1>2, <2>1, <2>2, AppendOnce
  <2> QED BY <1>1, <1>3, <2>1, <2>3
<1> QED BY <1>1, <1>2, <1>3, <1>5, <1>6, <1>7, <1>8, TopicsChange DEF Exists

-----------------------------------------------------------------------------
(* The indices after a step.                                               *)

(* Put gives one document a new value.                                     *)
LEMMA PutChanges ==
  ASSUME IndexShape, NEW i \in Indices, NEW id, NEW document, Put(i, id, document)
  PROVE  /\ IndexShape'
         /\ \A n \in Indices \ {i} : index'[n] = index[n]
         /\ Indexed(i)' = Indexed(i) \cup {id}
         /\ index'[i].documents[id] = document
         /\ \A x \in Indexed(i) \ {id} : index'[i].documents[x] = index[i].documents[x]
<1> DEFINE put == [mapping |-> IF index[i].mapping = "none" THEN "dynamic" ELSE index[i].mapping,
                   documents |-> [x \in DOMAIN index[i].documents \cup {id} |->
                                   IF x = id THEN document ELSE index[i].documents[x]]]
<1>1. index' = [index EXCEPT ![i] = put]
  BY DEF Put
<1>2. index'[i] = put /\ DOMAIN index' = Indices /\ \A n \in Indices \ {i} : index'[n] = index[n]
  BY <1>1 DEF IndexShape
<1> QED BY <1>2 DEF IndexShape, Indexed

(* No step takes an event away: it stays where it was published.           *)
LEMMA EventsStay ==
  ASSUME OrderShape, HeldOnce, EventsOnce, [Next]_vars, NEW i \in Indices
  PROVE  \A k \in DOMAIN EventsFor(i) : k \in DOMAIN EventsFor(i)' /\ EventsFor(i)'[k] = EventsFor(i)[k]
<1> DEFINE Stay(n) == \A k \in DOMAIN EventsFor(n) :
                        k \in DOMAIN EventsFor(n)' /\ EventsFor(n)'[k] = EventsFor(n)[k]
<1>1. ASSUME NEW n \in Indices, NEW event, EventsFor(n)' = Append(EventsFor(n), event) PROVE Stay(n)
  <2>1. EventsFor(n) \in Seq(Carried(n))
    BY DEF EventsOnce
  <2> QED BY <1>1, <2>1
<1>2. ASSUME NEW n \in Indices, EventsFor(n)' = EventsFor(n) PROVE Stay(n)
  BY <1>2
<1>3. ASSUME NEW r \in Requests, EmitCreated(r) PROVE Stay("products") /\ Stay("orders")
  <2>1. "products" \in Indices /\ "orders" \in Indices
    BY DEF Indices
  <2> HIDE DEF Stay
  <2> QED BY <1>1, <1>2, <1>3, <2>1, EmitAppends
<1>4. ASSUME NEW id \in OrderIds, NEW cart \in Carts, PlaceOrder(id, cart)
      PROVE  Stay("products") /\ Stay("orders")
  <2>1. "products" \in Indices /\ "orders" \in Indices
    BY DEF Indices
  <2> HIDE DEF Stay
  <2> QED BY <1>1, <1>2, <1>4, <2>1, PlaceAppends
<1> HIDE DEF Stay
<1>5. Stay(i)
  BY <1>2, <1>3, <1>4, TopicsChange DEF Indices
<1> QED BY <1>5 DEF Stay

(* A document written is an event that was published.                      *)
LEMMA IndexKept ==
  ASSUME OrderShape, OffsetShape, IndexShape, HeldOnce, EventsOnce, IndexFromEvents, [Next]_vars
  PROVE  IndexShape' /\ IndexFromEvents'
<1> DEFINE Known(i, id, document) ==
             \E k \in DOMAIN EventsFor(i) : EventsFor(i)[k].id = id /\ document = EventsFor(i)[k]
<1>1. ASSUME NEW i \in Indices, NEW id, NEW document, Known(i, id, document)
      PROVE  \E k \in DOMAIN EventsFor(i)' : EventsFor(i)'[k].id = id /\ document = EventsFor(i)'[k]
  BY <1>1, EventsStay
<1>2. \A i \in Indices : \A id \in Indexed(i) : Known(i, id, index[i].documents[id])
  BY DEF IndexFromEvents
<1> HIDE DEF Known
<1>3. ASSUME IndexShape',
             \A i \in Indices : \A id \in Indexed(i)' : Known(i, id, index'[i].documents[id])
      PROVE  IndexShape' /\ IndexFromEvents'
  BY <1>1, <1>3 DEF IndexFromEvents
<1>4. CASE UNCHANGED index
  BY <1>2, <1>3, <1>4 DEF IndexShape, Indexed
<1>5. ASSUME NEW i \in Indices, CreateIndex(i) PROVE IndexShape' /\ IndexFromEvents'
  <2>1. /\ IndexShape'
        /\ \A n \in Indices : index'[n].documents = index[n].documents
    BY <1>5 DEF CreateIndex, IndexShape
  <2> QED BY <1>2, <1>3, <2>1 DEF Indexed
<1>6. ASSUME NEW i \in Indices, IndexesEvent(i) PROVE IndexShape' /\ IndexFromEvents'
  <2>1. PICK k \in DOMAIN EventsFor(i) : Put(i, EventsFor(i)[k].id, EventsFor(i)[k])
    BY <1>6 DEF IndexesEvent
  <2> DEFINE new == EventsFor(i)[k]
  <2>2. Known(i, new.id, new)
    BY DEF Known
  <2>3. /\ IndexShape'
        /\ \A n \in Indices \ {i} : index'[n] = index[n]
        /\ Indexed(i)' = Indexed(i) \cup {new.id}
        /\ index'[i].documents[new.id] = new
        /\ \A x \in Indexed(i) \ {new.id} : index'[i].documents[x] = index[i].documents[x]
    BY <2>1, PutChanges
  <2> HIDE DEF new
  <2>4. ASSUME NEW id \in Indexed(i)' PROVE Known(i, id, index'[i].documents[id])
    BY <1>2, <2>2, <2>3, <2>4
  <2>5. ASSUME NEW n \in Indices \ {i}, NEW id \in Indexed(n)'
        PROVE  Known(n, id, index'[n].documents[id])
    <3>1. id \in Indexed(n) /\ index'[n].documents[id] = index[n].documents[id]
      BY <2>3, <2>5 DEF Indexed
    <3> QED BY <1>2, <3>1
  <2> QED BY <1>3, <2>3, <2>4, <2>5
<1> QED BY <1>4, <1>5, <1>6, IndexChange

-----------------------------------------------------------------------------
(* The invariant.                                                          *)

(* It holds when the services start for the first time.                    *)
LEMMA IInvInit == Init => IInv
<1> SUFFICES ASSUME Init PROVE IInv
  OBVIOUS
<1>1. ProductShape /\ OrderShape /\ OffsetShape /\ IndexShape
  BY DEF Init, ProductShape, OrderShape, OffsetShape, IndexShape, Exists
<1>2. DOMAIN <<>> = {} /\ \A S : <<>> \in Seq(S)
  OBVIOUS
<1>3. HeldOnce
  <2>1. /\ DOMAIN calls = Requests
        /\ \A r \in Requests :
             DOMAIN calls[r] = {"pc", "todo"} /\ calls[r].pc = "new" /\ calls[r].todo = <<>>
    BY DEF Init
  <2>2. \A r \in Requests : DOMAIN calls[r].todo = {} /\ calls[r].todo \in Seq(Saving)
    BY <1>2, <2>1
  <2>3. \A r \in Requests : calls[r].pc # "announce"
    BY <2>1
  <2> QED BY <2>1, <2>2, <2>3 DEF HeldOnce
<1>4. \A i \in Indices : EventsFor(i) = <<>>
  BY DEF Init, EventsFor, TopicOf, Topics, Indices
<1>5. EventsOnce
  <2>1. "products" \in Indices /\ "orders" \in Indices /\ DOMAIN topics = Topics
    BY DEF Init, Indices
  <2> QED BY <1>2, <1>4, <2>1 DEF EventsOnce
<1>6. IndexFromEvents
  BY DEF Init, IndexFromEvents, Indexed
<1> QED BY <1>1, <1>3, <1>5, <1>6 DEF IInv

(* Every step keeps it.                                                    *)
LEMMA IInvNext == IInv /\ [Next]_vars => IInv'
<1> SUFFICES ASSUME IInv, [Next]_vars PROVE IInv'
  OBVIOUS
<1>1. ProductShape' /\ OrderShape' /\ OffsetShape'
  BY ProductsStay, OrdersKept, OffsetsKept DEF IInv
<1>2. HeldOnce' /\ EventsOnce'
  BY HeldOnceKept, EventsOnceKept DEF IInv
<1>3. IndexShape' /\ IndexFromEvents'
  BY IndexKept DEF IInv
<1> QED BY <1>1, <1>2, <1>3 DEF IInv

(* What the services hold, have published and have indexed fits together   *)
(* at all times: every document is an event, and every event has its own   *)
(* product or order.                                                       *)
THEOREM Invariant == Spec => []IInv
<1> QED BY IInvInit, IInvNext, PTL DEF Spec

-----------------------------------------------------------------------------
(* Theorems.                                                               *)

(* index of the search service overwrites the document of an id, but each  *)
(* product is announced and each order is placed once: replayed from the   *)
(* topic, what overwrites a document is the event it was made of.          *)
THEOREM IndexFrozen == Spec => IndexIsFrozen
<1> DEFINE Frozen == \A i \in Indices : \A id \in Indexed(i) :
                       index'[i].documents[id] = index[i].documents[id]
<1>1. ASSUME IInv, [Next]_vars PROVE Frozen
  <2>1. CASE UNCHANGED index
    BY <2>1
  <2>2. ASSUME NEW i \in Indices, CreateIndex(i) PROVE Frozen
    BY <1>1, <2>2 DEF CreateIndex, IInv, IndexShape
  <2>3. ASSUME NEW i \in Indices, IndexesEvent(i) PROVE Frozen
    <3>1. PICK k \in DOMAIN EventsFor(i) : Put(i, EventsFor(i)[k].id, EventsFor(i)[k])
      BY <2>3 DEF IndexesEvent
    <3> DEFINE event == EventsFor(i)[k]
    <3>2. /\ \A n \in Indices \ {i} : index'[n] = index[n]
          /\ index'[i].documents[event.id] = event
          /\ \A x \in Indexed(i) \ {event.id} : index'[i].documents[x] = index[i].documents[x]
      BY <1>1, <3>1, PutChanges DEF IInv
    <3>3. event.id \in Indexed(i) => index[i].documents[event.id] = event
      BY <1>1 DEF IInv, EventsOnce, IndexFromEvents
    <3> HIDE DEF event
    <3> QED BY <3>2, <3>3
  <2> QED BY <1>1, <2>1, <2>2, <2>3, IndexChange DEF IInv
<1>2. [][Frozen]_vars => IndexIsFrozen
  BY PTL DEF IndexIsFrozen
<1> QED BY <1>1, <1>2, Invariant, PTL DEF Spec

(* create and createMany save first and announce afterwards, from memory:  *)
(* what a request that has ended did not announce, or the broker did not   *)
(* take, no other operation of the product service makes up for.           *)
THEOREM OrphansStay == Spec => OrphanIsForever
<1> DEFINE Stay == \A p \in Products : Orphan(p) => Orphan(p)'
           made == EventsFor("products")
<1>1. ASSUME IInv, [Next]_vars, NEW p \in Products, Orphan(p) PROVE Orphan(p)'
  <2>0. ProductShape /\ OrderShape /\ OffsetShape /\ IndexShape /\ HeldOnce /\ EventsOnce
    BY <1>1 DEF IInv
  <2>1. /\ Exists(p)
        /\ p \notin Indexed("products")
        /\ \A k \in DOMAIN made : made[k].id # p
        /\ \A r \in Requests :
             calls[r].pc = "announce" => \A k \in DOMAIN calls[r].todo : calls[r].todo[k].id # p
    BY <1>1 DEF Orphan, Range, Pending, EventsFor, TopicOf
  <2>2. SUFFICES /\ Exists(p)'
                 /\ p \notin Indexed("products")'
                 /\ \A k \in DOMAIN made' : made'[k].id # p
                 /\ \A r \in Requests : calls'[r].pc = "announce" =>
                      \A j \in DOMAIN calls'[r].todo : calls'[r].todo[j].id # p
    BY DEF Orphan, Range, Pending, EventsFor, TopicOf
  <2>3. Exists(p)'
    BY <1>1, <2>0, <2>1, ProductsStay
  <2>4. p \notin Indexed("products")'
    <3>1. CASE UNCHANGED index
      BY <2>1, <3>1 DEF Indexed
    <3>2. ASSUME NEW i \in Indices, CreateIndex(i) PROVE p \notin Indexed("products")'
      BY <2>0, <2>1, <3>2 DEF CreateIndex, IndexShape, Indexed, Indices
    <3>3. ASSUME NEW i \in Indices, IndexesEvent(i) PROVE p \notin Indexed("products")'
      <4>1. PICK k \in DOMAIN EventsFor(i) : Put(i, EventsFor(i)[k].id, EventsFor(i)[k])
        BY <3>3 DEF IndexesEvent
      <4>2. /\ \A n \in Indices \ {i} : index'[n] = index[n]
            /\ Indexed(i)' = Indexed(i) \cup {EventsFor(i)[k].id}
        BY <2>0, <4>1, PutChanges
      <4> QED BY <2>1, <4>2 DEF Indexed, Indices
    <3> QED BY <1>1, <2>0, <3>1, <3>2, <3>3, IndexChange
  <2>5. \A k \in DOMAIN made' : made'[k].id # p
    <3>1. CASE made' = made
      BY <2>1, <3>1
    <3>2. ASSUME NEW r \in Requests, EmitCreated(r) PROVE \A k \in DOMAIN made' : made'[k].id # p
      <4>1. PICK event \in Carried("products") :
              /\ 1 \in DOMAIN calls[r].todo /\ event.id = calls[r].todo[1].id
              /\ made' = Append(made, event)
        BY <2>0, <3>2, EmitAppends
      <4>2. event.id # p
        BY <2>1, <3>2, <4>1 DEF EmitCreated
      <4>3. made \in Seq(Carried("products"))
        BY <2>0 DEF EventsOnce, Indices
      <4> HIDE DEF made
      <4> QED BY <2>1, <4>1, <4>2, <4>3
    <3>3. ASSUME NEW id \in OrderIds, NEW cart \in Carts, PlaceOrder(id, cart) PROVE made' = made
      BY <2>0, <3>3, PlaceAppends
    <3>4. "products" \in Indices
      BY DEF Indices
    <3> QED BY <1>1, <2>0, <3>1, <3>2, <3>3, <3>4, TopicsChange
  <2>6. ASSUME NEW r \in Requests, calls'[r].pc = "announce", NEW j \in DOMAIN calls'[r].todo
        PROVE  calls'[r].todo[j].id # p
    BY <1>1, <2>0, <2>1, <2>6, HeldBefore DEF HeldAlready
  <2> QED BY <2>3, <2>4, <2>5, <2>6
<1>2. IInv /\ [Next]_vars => [Stay]_vars
  BY <1>1
<1>3. [][Stay]_vars => OrphanIsForever
  BY PTL DEF OrphanIsForever
<1> QED BY <1>2, <1>3, Invariant, PTL DEF Spec

-----------------------------------------------------------------------------
(* Types.                                                                  *)

(* The messages of every topic: what the order service publishes of a      *)
(* canceled order, and the inventory service of a restock.                 *)
Cancellations == [id : OrderIds, items : Carts]
RestockOf(sku) == [items |-> <<[sku |-> sku, quantity |-> 1]>>]
Messages(t) ==
  IF t = "product.created" THEN Carried("products")
  ELSE IF t = "order.checkout" THEN Carried("orders")
  ELSE IF t = "order.canceled" THEN Cancellations
  ELSE {RestockOf(sku) : sku \in Skus}
TopicsTyped == \A t \in Topics : topics[t] \in Seq(Messages(t))

(* Orders have a list from the moment they are placed, and offsets do not  *)
(* pass the end of a topic.                                                *)
OrdersTyped ==
  /\ orders \in [OrderIds -> [status : {"none", "placed", "canceled"}, cart : Carts \cup {<<>>}]]
  /\ \A id \in OrderIds : orders[id].status # "none" => orders[id].cart \in Carts
OffsetsFit ==
  \A s \in Subscriptions : committed[s] <= offset[s] /\ offset[s] <= Len(topics[s.topic])
CallsTyped ==
  \A r \in Requests :
    /\ calls[r].pc \in {"new", "announce", "done", "failed"}
    /\ calls[r].pc \in {"new", "done"} <=> calls[r].todo = <<>> /\ calls[r].pc # "failed"

(* A product is as it was stored but for numbers, and no two have a        *)
(* variant in common.                                                      *)
ProductTyped(product) ==
  /\ DOMAIN product = {"variants", "isActive", "range"}
  /\ DOMAIN product.variants \subseteq Skus /\ product.isActive \in BOOLEAN
  /\ \A s \in DOMAIN product.variants : product.variants[s] \in [stock : Int, price : Nat]
  /\ product.range.min <= product.range.max
Apart == \A p, q \in Products : p # q => DOMAIN Variants(p) \cap DOMAIN Variants(q) = {}
ProductsTyped == (\A p \in Products : Exists(p) => ProductTyped(products[p])) /\ Apart

(* An index has a mapping once the service is done with it, or once it has *)
(* a document.                                                             *)
IndexTyped ==
  /\ boot \in [Indices -> {"check", "create", "done"}]
  /\ \A i \in Indices :
       /\ index[i].mapping \in {"none", "designed", "dynamic"}
       /\ boot[i] = "done" => index[i].mapping # "none"
       /\ index[i].documents # <<>> => index[i].mapping # "none"
UsedTyped ==
  used \in [{"creations", "orders", "restocks", "updates", "retries", "names", "lost", "crashes"} -> Nat]

Typed ==
  /\ TopicsTyped /\ OrdersTyped /\ OffsetsFit /\ CallsTyped
  /\ ProductsTyped /\ IndexTyped /\ UsedTyped
Sound == IInv /\ Typed

(* What a step uses up is counted.                                         *)
LEMMA UsedChanges ==
  ASSUME UsedTyped, [Next]_vars
  PROVE  UsedTyped' /\ \A kind \in DOMAIN used : used[kind] <= used'[kind]
<1> DEFINE Counts == UsedTyped' /\ \A kind \in DOMAIN used : used[kind] <= used'[kind]
<1> SUFFICES Counts
  OBVIOUS
<1>1. ASSUME NEW kind \in {"creations", "orders", "restocks", "updates", "retries", "names", "lost", "crashes"},
             Use(kind)
      PROVE  Counts
  BY <1>1 DEF Use, UsedTyped
<1>2. CASE UNCHANGED used
  BY <1>2 DEF UsedTyped
<1> HIDE DEF Counts
<1>3. ASSUME NEW r \in Requests, CreateStep(r) PROVE Counts
  BY <1>1, <1>2, <1>3
  DEF CreateStep, InsertMany, InsertManyFails, EmitCreated, EmitLost, NamesFail, Spend, Fault
<1>4. CASE UpdateStep
  BY <1>1, <1>4 DEF UpdateStep, Update, UpdatePrice, Spend
<1>5. CASE OrderStep
  BY <1>1, <1>2, <1>5 DEF OrderStep, PlaceOrder, CancelOrder, PublishRestock, Spend
<1>6. CASE ConsumerStep
  BY <1>1, <1>2, <1>6
  DEF ConsumerStep, CountOrder, CountOrderThrows, CountRestock, IndexProduct, IndexOrder, CommitOffset, Spend
<1>7. CASE SearchStep
  BY <1>2, <1>7 DEF SearchStep, CheckIndex, CreateIndex, CreateIndexFails
<1>8. CASE CrashProduct \/ CrashSearch
  BY <1>1, <1>8 DEF CrashProduct, CrashSearch, Fault
<1>9. CASE UNCHANGED vars
  BY <1>2, <1>9 DEF vars
<1> QED BY <1>3, <1>4, <1>5, <1>6, <1>7, <1>8, <1>9 DEF Next, Step

(* Orders are placed with a list and keep it.                              *)
LEMMA OrdersTypedKept ==
  ASSUME OrdersTyped, [Next]_vars
  PROVE  OrdersTyped'
<1>1. CASE UNCHANGED orders
  BY <1>1 DEF OrdersTyped
<1>2. ASSUME NEW id \in OrderIds, NEW cart \in Carts, PlaceOrder(id, cart) PROVE OrdersTyped'
  BY <1>2 DEF PlaceOrder, OrdersTyped
<1>3. ASSUME NEW id \in OrderIds, CancelOrder(id) PROVE OrdersTyped'
  BY <1>3 DEF CancelOrder, OrdersTyped
<1>4. CASE OrderStep
  BY <1>1, <1>2, <1>3, <1>4 DEF OrderStep, PublishRestock
<1>5. ASSUME NEW r \in Requests, CreateStep(r) PROVE UNCHANGED orders
  BY <1>5 DEF CreateStep, InsertMany, InsertManyFails, EmitCreated, EmitLost, NamesFail
<1>6. CASE UpdateStep \/ ConsumerStep
  BY <1>1, <1>6
  DEF UpdateStep, Update, UpdatePrice, ConsumerStep, CountOrder, CountOrderThrows, CountRestock,
      IndexProduct, IndexOrder, CommitOffset
<1>7. CASE SearchStep \/ CrashProduct \/ CrashSearch \/ UNCHANGED vars
  BY <1>1, <1>7
  DEF SearchStep, CheckIndex, CreateIndex, CreateIndexFails, CrashProduct, CrashSearch, vars
<1> QED BY <1>1, <1>4, <1>5, <1>6, <1>7 DEF Next, Step

(* Every message is of its topic, and comes after all that are there.      *)
LEMMA Publishes ==
  ASSUME HeldOnce, OrdersTyped, [Next]_vars
  PROVE  UNCHANGED topics \/ \E t \in Topics : \E message \in Messages(t) : Publish(t, message)
<1> DEFINE Publishing == \E t \in Topics : \E message \in Messages(t) : Publish(t, message)
<1>1. ASSUME NEW r \in Requests, EmitCreated(r) PROVE Publishing
  <2>1. calls[r].todo \in Seq(Saving) /\ calls[r].todo # <<>>
    BY <1>1 DEF HeldOnce, EmitCreated
  <2>2. Head(calls[r].todo) \in Saving
    BY <2>1
  <2>3. Payload(Head(calls[r].todo).id, Head(calls[r].todo).product) \in Messages("product.created")
    BY <2>2 DEF Messages, Carried
  <2>4. "product.created" \in Topics
    BY DEF Topics
  <2> QED BY <1>1, <2>3, <2>4 DEF EmitCreated, EmitNext
<1>2. ASSUME NEW id \in OrderIds, NEW cart \in Carts, PlaceOrder(id, cart) PROVE Publishing
  <2>1. CheckoutOf(id, cart) \in {CheckoutOf(x, y) : x \in OrderIds, y \in Carts}
    OBVIOUS
  <2>2. CheckoutOf(id, cart) \in Messages("order.checkout")
    BY <2>1 DEF Messages, Carried
  <2>3. Publish("order.checkout", CheckoutOf(id, cart)) /\ "order.checkout" \in Topics
    BY <1>2 DEF PlaceOrder, CheckoutOf, Topics
  <2> QED BY <2>2, <2>3
<1>3. ASSUME NEW id \in OrderIds, CancelOrder(id) PROVE Publishing
  <2>1. [id |-> id, items |-> orders[id].cart] \in Messages("order.canceled") /\ "order.canceled" \in Topics
    BY <1>3 DEF CancelOrder, Messages, Cancellations, OrdersTyped, Topics
  <2> QED BY <1>3, <2>1 DEF CancelOrder
<1>4. ASSUME NEW sku \in Skus, PublishRestock(sku) PROVE Publishing
  <2>1. RestockOf(sku) \in Messages("product.restock") /\ "product.restock" \in Topics
    BY DEF Messages, Topics
  <2> QED BY <1>4, <2>1 DEF PublishRestock, RestockOf
<1> HIDE DEF Publishing
<1>5. ASSUME NEW r \in Requests, CreateStep(r) PROVE UNCHANGED topics \/ Publishing
  BY <1>1, <1>5 DEF CreateStep, InsertMany, InsertManyFails, EmitLost, NamesFail
<1>6. CASE OrderStep
  BY <1>2, <1>3, <1>4, <1>6 DEF OrderStep, Publishing
<1>7. CASE UpdateStep \/ ConsumerStep
  BY <1>7
  DEF UpdateStep, Update, UpdatePrice, ConsumerStep, CountOrder, CountOrderThrows, CountRestock,
      IndexProduct, IndexOrder, CommitOffset
<1>8. CASE SearchStep \/ CrashProduct \/ CrashSearch \/ UNCHANGED vars
  BY <1>8
  DEF SearchStep, CheckIndex, CreateIndex, CreateIndexFails, CrashProduct, CrashSearch, vars
<1> QED BY <1>5, <1>6, <1>7, <1>8 DEF Publishing, Next, Step

(* So topics only grow.                                                    *)
LEMMA TopicsGrow ==
  ASSUME EventsOnce, HeldOnce, OrdersTyped, TopicsTyped, [Next]_vars
  PROVE  /\ TopicsTyped'
         /\ \A t \in Topics : Len(topics[t]) <= Len(topics'[t])
         /\ \A t \in Topics : \A k \in 1 .. Len(topics[t]) : topics'[t][k] = topics[t][k]
<1>0. DOMAIN topics = Topics /\ \A t \in Topics : topics[t] \in Seq(Messages(t))
  BY DEF EventsOnce, TopicsTyped
<1>1. ASSUME NEW t \in Topics
      PROVE  /\ topics'[t] \in Seq(Messages(t)) /\ Len(topics[t]) <= Len(topics'[t])
             /\ \A k \in 1 .. Len(topics[t]) : topics'[t][k] = topics[t][k]
  <2> DEFINE old == topics[t]
  <2>1. old \in Seq(Messages(t)) /\ Len(old) \in Nat
    BY <1>0
  <2>2. topics'[t] = old \/ \E message \in Messages(t) : topics'[t] = Append(old, message)
    BY <1>0, Publishes DEF Publish
  <2> HIDE DEF old
  <2>3. CASE topics'[t] = old
    BY <2>1, <2>3 DEF old
  <2>4. ASSUME NEW message \in Messages(t), topics'[t] = Append(old, message)
        PROVE  /\ topics'[t] \in Seq(Messages(t)) /\ Len(old) <= Len(topics'[t])
               /\ \A k \in 1 .. Len(old) : topics'[t][k] = old[k]
    BY <2>1, <2>4, AppendProperties
  <2> QED BY <2>2, <2>3, <2>4 DEF old
<1>2. TopicsTyped'
  BY <1>1 DEF TopicsTyped, Messages, Carried, Saving, Payload, CheckoutOf, Stored, PriceRange, Cancellations,
              RestockOf, Topics
<1> QED BY <1>1, <1>2

-----------------------------------------------------------------------------
(* Units of a message.                                                     *)

(* What an item brings of a variant.                                       *)
UnitsAt(items, s) ==
  [i \in DOMAIN items |-> IF SkuRead(items[i]) = s THEN items[i].quantity ELSE 0]

(* Units is a sum over the items of a message.                             *)
LEMMA UnitsIsSum ==
  ASSUME NEW items, IsFiniteSet(DOMAIN items), NEW s
  PROVE  Units(items, s) = SumFunctionOnSet(UnitsAt(items, s), DOMAIN items)
<1> DEFINE D == DOMAIN items
           f == UnitsAt(items, s)
           Sums(h) == h = [x \in SUBSET D |->
             IF x = {} THEN 0
             ELSE (IF SkuRead(items[Pick(x)]) = s THEN items[Pick(x)].quantity ELSE 0) + h[x \ {Pick(x)}]]
           g == CHOOSE h : Sums(h)
<1>1. Units(items, s) = g[D]
  BY DEF Units, MapThenSumSet, MapThenFoldSet, Pick
<1>2. \A x \in SUBSET D : x # {} =>
        f[Pick(x)] = IF SkuRead(items[Pick(x)]) = s THEN items[Pick(x)].quantity ELSE 0
  BY PickIn DEF UnitsAt
<1>3. \A h : Sums(h) <=> Adds(h, f, D)
  <2> HIDE DEF f
  <2> QED BY <1>2 DEF Adds
<1>4. \E h : Adds(h, f, D)
  BY AddsExists
<1>5. Adds(g, f, D)
  <2> HIDE DEF f, Sums
  <2> QED BY <1>3, <1>4
<1> HIDE DEF g, f
<1> QED BY <1>1, <1>5, SumByAdds DEF f

(* The topics the product service reads.                                   *)
ProductTopics == {"order.checkout", "order.canceled", "product.restock"}

(* The product service counts no unit of an order and a number of units of *)
(* every other message: it reads sku, which items of an order do not have. *)
LEMMA MessageUnits ==
  ASSUME NEW t \in ProductTopics, NEW message \in Messages(t), NEW s \in Skus
  PROVE  /\ Units(message.items, s) \in Nat
         /\ t = "order.checkout" => Units(message.items, s) = 0
<1> DEFINE items == message.items
<1>1. CASE t = "order.checkout"
  <2>1. PICK id \in OrderIds, cart \in Carts : message = CheckoutOf(id, cart)
    BY <1>1 DEF Messages, Carried
  <2>2. items = [i \in DOMAIN cart |-> [productSku |-> cart[i].sku, quantity |-> cart[i].quantity]]
    BY <2>1 DEF CheckoutOf
  <2>3. IsFiniteSet(DOMAIN items) /\ DOMAIN items = DOMAIN cart
    <3>1. DOMAIN cart = 1 .. Len(cart) /\ Len(cart) \in Nat
      BY CartsAssumption
    <3> QED BY <2>2, <3>1, FS_Interval
  <2>4. ASSUME NEW i \in DOMAIN items PROVE UnitsAt(items, s)[i] = 0
    <3>1. DOMAIN items[i] = {"productSku", "quantity"}
      BY <2>2, <2>3
    <3>2. SkuRead(items[i]) = Null
      BY <3>1 DEF SkuRead
    <3>3. Null # s
      BY NullAssumption
    <3> HIDE DEF items
    <3> QED BY <3>2, <3>3 DEF UnitsAt
  <2> HIDE DEF items
  <2>5. Units(items, s) = 0
    BY <2>3, <2>4, UnitsIsSum, SumZero
  <2> QED BY <2>5 DEF items
<1>2. CASE t # "order.checkout"
  <2>1. items \in Seq([sku : Skus, quantity : Nat \ {0}])
    <3>1. CASE t = "order.canceled"
      BY <3>1, CartsAssumption DEF Messages, Cancellations
    <3>2. CASE t = "product.restock"
      <4>1. PICK sku \in Skus : message = RestockOf(sku)
        BY <3>2 DEF Messages
      <4>2. [sku |-> sku, quantity |-> 1] \in [sku : Skus, quantity : Nat \ {0}]
        OBVIOUS
      <4> QED BY <4>1, <4>2 DEF RestockOf
    <3> QED BY <1>2, <3>1, <3>2 DEF ProductTopics
  <2> HIDE DEF items
  <2>2. IsFiniteSet(DOMAIN items)
    <3>1. DOMAIN items = 1 .. Len(items) /\ Len(items) \in Nat
      BY <2>1
    <3> QED BY <3>1, FS_Interval
  <2>3. ASSUME NEW i \in DOMAIN items PROVE UnitsAt(items, s)[i] \in Nat
    <3> DEFINE Lines == [sku : Skus, quantity : Nat \ {0}]
    <3>0. items \in Seq(Lines) /\ i \in 1 .. Len(items)
      BY <2>1
    <3> HIDE DEF Lines
    <3>1. items[i] \in Lines
      BY <3>0, ElementOfSeq
    <3>2. items[i].quantity \in Nat
      BY <3>1 DEF Lines
    <3> QED BY <3>2 DEF UnitsAt
  <2>4. SumFunctionOnSet(UnitsAt(items, s), DOMAIN items) \in Nat
    BY <2>2, <2>3, SumGrows
  <2> QED BY <1>2, <2>2, <2>4, UnitsIsSum DEF items
<1> QED BY <1>1, <1>2

(* A handler works on a message that is there.                             *)
LEMMA HeadThere ==
  ASSUME OffsetShape, TopicsTyped, NEW s \in Subscriptions, s.topic \in Topics, HasMessage(s)
  PROVE  /\ offset[s] + 1 \in 1 .. Len(topics[s.topic])
         /\ HeadOf(s) = topics[s.topic][offset[s] + 1] /\ HeadOf(s) \in Messages(s.topic)
<1> DEFINE messages == topics[s.topic]
<1>1. messages \in Seq(Messages(s.topic)) /\ offset[s] \in Nat
  BY DEF OffsetShape, TopicsTyped
<1> HIDE DEF messages
<1>2. offset[s] + 1 \in 1 .. Len(messages)
  BY <1>1 DEF HasMessage, messages
<1>3. messages[offset[s] + 1] \in Messages(s.topic)
  BY <1>1, <1>2, ElementOfSeq
<1> QED BY <1>2, <1>3 DEF HeadOf, messages

-----------------------------------------------------------------------------
(* What steps do to products.                                              *)

(* A message of a topic is counted: acknowledged, or to be counted again.  *)
Reader(t) == Subscription("product", t)
Counts(t) ==
  /\ HasMessage(Reader(t))
  /\ Counted(HeadOf(Reader(t)).items, Sign(t))
  /\ UNCHANGED topics
  /\ \/ Acknowledge(Reader(t)) /\ UNCHANGED threw
     \/ UNCHANGED offset /\ t # "product.restock" /\ threw' = (threw \/ t = "order.canceled")

(* The first m documents are stored under new ids.                         *)
Stores(ids, docs, m) ==
  /\ Fresh(ids)
  /\ products' = Saved(SubSeq(ids, 1, m), docs)
  /\ \A k \in 1 .. m : Insertable(docs, k)
  /\ UNCHANGED <<topics, kafkaVars, threw>>
Storing ==
  \E n \in Nat : \E ids \in [1 .. n -> Products], docs \in [1 .. n -> Documents], m \in 0 .. n :
    Stores(ids, docs, m)

(* Products change by what a request creates, by what a message counts, or *)
(* by an update.                                                           *)
LEMMA ProductsChange ==
  ASSUME [Next]_vars
  PROVE  \/ UNCHANGED products
         \/ UpdateStep
         \/ Storing /\ \E r \in Requests : Inserts(r)
         \/ \E t \in ProductTopics : Counts(t)
<1>1. ASSUME NEW r \in Requests, NEW n \in {1, 2}, NEW ids \in [1 .. n -> Products],
             NEW docs \in [1 .. n -> Documents], InsertMany(r, ids, docs)
      PROVE  Storing
  <2>1. SubSeq(ids, 1, n) = ids /\ DOMAIN docs = 1 .. n /\ n \in Nat /\ n \in 0 .. n
    OBVIOUS
  <2>2. Stores(ids, docs, n)
    BY <1>1, <2>1 DEF InsertMany, Stores
  <2> QED BY <2>1, <2>2 DEF Storing
<1>2. ASSUME NEW r \in Requests, NEW n \in {1, 2}, NEW ids \in [1 .. n -> Products],
             NEW docs \in [1 .. n -> Documents], InsertManyFails(r, ids, docs)
      PROVE  Storing
  <2>1. PICK k \in DOMAIN docs :
          /\ \A i \in 1 .. (k - 1) : Insertable(docs, i)
          /\ products' = Saved(SubSeq(ids, 1, k - 1), docs)
    BY <1>2 DEF InsertManyFails
  <2>2. k - 1 \in 0 .. n /\ n \in Nat
    OBVIOUS
  <2>3. Stores(ids, docs, k - 1)
    BY <1>2, <2>1 DEF InsertManyFails, Stores
  <2> QED BY <2>2, <2>3 DEF Storing
<1>3. ASSUME NEW r \in Requests, CreateStep(r) PROVE UNCHANGED products \/ (Storing /\ Inserts(r))
  BY <1>1, <1>2, <1>3, InsertionsHold DEF CreateStep, EmitCreated, EmitLost, NamesFail
<1>4. ASSUME NEW t \in {"order.checkout", "order.canceled"}, CountOrder(t) \/ CountOrderThrows(t)
      PROVE  Counts(t)
  BY <1>4 DEF CountOrder, CountOrderThrows, Counts, Reader, kafkaVars
<1>5. ASSUME CountRestock PROVE Counts("product.restock")
  BY <1>5 DEF CountRestock, Counts, Reader, Sign
<1>6. ASSUME ConsumerStep PROVE UNCHANGED products \/ \E t \in ProductTopics : Counts(t)
  BY <1>4, <1>5, <1>6 DEF ConsumerStep, IndexProduct, IndexOrder, CommitOffset, ProductTopics
<1>7. CASE OrderStep \/ SearchStep \/ CrashProduct \/ CrashSearch \/ UNCHANGED vars
  BY <1>7
  DEF OrderStep, PlaceOrder, CancelOrder, PublishRestock, SearchStep, CheckIndex, CreateIndex,
      CreateIndexFails, CrashProduct, CrashSearch, vars
<1> QED BY <1>3, <1>6, <1>7 DEF Next, Step

(* A document has a range of prices.                                       *)
LEMMA StoredTyped ==
  ASSUME NEW doc \in Documents
  PROVE  ProductTyped(Stored(doc)) /\ Stored(doc).variants = doc.variants
<1> DEFINE D == DOMAIN doc.variants
           prices == {doc.variants[s].price : s \in D}
<1>1. /\ D # {} /\ IsFiniteSet(D) /\ D \subseteq Skus /\ doc.isActive \in BOOLEAN
      /\ \A s \in D : doc.variants[s] \in [stock : Nat, price : Nat]
  BY DocumentsAssumption
<1>2. IsFiniteSet(prices) /\ prices # {} /\ \A x \in prices : x \in Nat
  <2>1. \A s \in D : doc.variants[s].price \in Nat
    <3> TAKE s \in D
    <3>1. doc.variants[s] \in [stock : Nat, price : Nat]
      BY <1>1
    <3> QED BY <3>1
  <2>2. PICK s \in D : TRUE
    BY <1>1
  <2>3. doc.variants[s].price \in prices /\ \A x \in prices : x \in Nat
    BY <2>1
  <2> DEFINE price == [x \in D |-> doc.variants[x].price]
  <2>4. price = [x \in D |-> price[x]]
    OBVIOUS
  <2>5. prices = {price[x] : x \in D}
    OBVIOUS
  <2> HIDE DEF price, prices, D
  <2>6. IsFiniteSet({price[x] : x \in D})
    BY <1>1, <2>4, ImageFinite
  <2> QED BY <2>3, <2>5, <2>6
<1> HIDE DEF prices
<1>3. Min(prices) \in Nat /\ Max(prices) \in Nat /\ Min(prices) <= Max(prices)
  BY <1>2, Smallest, Largest
<1>4. Stored(doc).range.min <= Stored(doc).range.max
  BY <1>3 DEF Stored, PriceRange, prices
<1>5. /\ DOMAIN Stored(doc) = {"variants", "isActive", "range"}
      /\ Stored(doc).variants = doc.variants /\ Stored(doc).isActive = doc.isActive
  BY DEF Stored
<1>6. \A s \in D : doc.variants[s] \in [stock : Int, price : Nat]
  BY <1>1
<1> QED BY <1>1, <1>4, <1>5, <1>6 DEF ProductTyped

(* What is stored is a document under a new id; all else stays.            *)
LEMMA StoredAs ==
  ASSUME ProductShape, NEW n \in Nat, NEW ids \in [1 .. n -> Products], NEW docs \in [1 .. n -> Documents],
         NEW m \in 0 .. n, Stores(ids, docs, m), NEW p \in Products
  PROVE  \/ products'[p] = products[p]
         \/ ~ Exists(p) /\ \E k \in 1 .. m : ids[k] = p /\ docs[k] \in Documents /\ products'[p] = Stored(docs[k])
<1> DEFINE these == SubSeq(ids, 1, m)
<1>1. DOMAIN these = 1 .. m /\ \A k \in 1 .. m : these[k] = ids[k] /\ k \in 1 .. n
  OBVIOUS
<1> HIDE DEF these
<1>2. products' = Saved(these, docs) /\ Fresh(ids)
  BY DEF Stores, these
<1>3. CASE p \notin Range(these)
  BY <1>2, <1>3 DEF Saved
<1>4. CASE p \in Range(these)
  <2>1. \E i \in DOMAIN these : these[i] = p
    BY <1>4 DEF Range
  <2>2. PICK k \in 1 .. m : these[k] = p /\ k = CHOOSE i \in DOMAIN these : these[i] = p
    BY <1>1, <2>1
  <2>3. products'[p] = Stored(docs[k])
    BY <1>2, <1>4, <2>2 DEF Saved
  <2>4. ~ Exists(p) /\ ids[k] = p /\ docs[k] \in Documents
    BY <1>1, <1>2, <2>2 DEF Fresh
  <2> QED BY <2>3, <2>4
<1> QED BY <1>3, <1>4

(* What is counted changes nothing but the stock of variants.              *)
LEMMA CountedAs ==
  ASSUME ProductsTyped, NEW items, NEW sign \in Int, Counted(items, sign),
         NEW p \in Products, \A s \in Skus : sign * Units(items, s) \in Int
  PROVE  /\ Exists(p)' <=> Exists(p)
         /\ Exists(p) => ProductTyped(products'[p])
         /\ DOMAIN Variants(p)' = DOMAIN Variants(p)
         /\ \A s \in DOMAIN Variants(p) : /\ s \in Skus /\ Variants(p)[s].stock \in Int
                                          /\ Variants(p)'[s].stock = Variants(p)[s].stock + sign * Units(items, s)
<1>0. DOMAIN NoProduct = {}
  BY DEF NoProduct
<1>1. CASE ~ Exists(p)
  <2>1. products'[p] = NoProduct
    BY <1>1 DEF Counted
  <2>2. Variants(p) = <<>> /\ Variants(p)' = <<>> /\ ~ Exists(p)'
    BY <1>1, <2>1 DEF Variants, Exists
  <2> QED BY <1>1, <2>2
<1>2. CASE Exists(p)
  <2> DEFINE old == products[p].variants
             new == Incremented(old, items, sign)
  <2>1. ProductTyped(products[p])
    BY <1>2 DEF ProductsTyped
  <2>2. products'[p] = [products[p] EXCEPT !.variants = new]
    BY <1>2 DEF Counted
  <2>3. ASSUME NEW s \in DOMAIN old
        PROVE  s \in Skus /\ old[s].stock \in Int /\ new[s] \in [stock : Int, price : Nat]
               /\ new[s].stock = old[s].stock + sign * Units(items, s)
    <3>1. s \in Skus /\ old[s] \in [stock : Int, price : Nat]
      BY <2>1 DEF ProductTyped
    <3>2. PICK gain \in Int : gain = sign * Units(items, s)
      BY <3>1
    <3>3. new[s] = [old[s] EXCEPT !.stock = @ + gain]
      BY <3>2 DEF Incremented
    <3> HIDE DEF old, new
    <3>4. new[s] \in [stock : Int, price : Nat] /\ new[s].stock = old[s].stock + gain /\ old[s].stock \in Int
      BY <3>1, <3>3
    <3> QED BY <3>1, <3>2, <3>4
  <2>4. DOMAIN new = DOMAIN old
    BY DEF Incremented
  <2> HIDE DEF new
  <2>5. /\ DOMAIN products'[p] = DOMAIN products[p] /\ products'[p].variants = new
        /\ products'[p].isActive = products[p].isActive /\ products'[p].range = products[p].range
    BY <2>1, <2>2 DEF ProductTyped
  <2>6. Exists(p)'
    BY <1>0, <2>1, <2>5 DEF Exists, ProductTyped
  <2>7. Variants(p) = old /\ Variants(p)' = new
    BY <1>2, <2>5, <2>6 DEF Variants
  <2> HIDE DEF old
  <2>8. ProductTyped(products'[p])
    <3>1. old = products[p].variants
      BY DEF old
    <3> QED BY <2>1, <2>3, <2>4, <2>5, <3>1 DEF ProductTyped
  <2> QED BY <1>2, <2>3, <2>4, <2>6, <2>7, <2>8
<1> QED BY <1>1, <1>2

(* What a message brings is a number, and nothing if it is an order.       *)
LEMMA CountBrings ==
  ASSUME OffsetShape, TopicsTyped, NEW t \in ProductTopics, Counts(t), NEW s \in Skus
  PROVE  LET brought == Units(HeadOf(Reader(t)).items, s)
         IN  /\ Sign(t) \in Int /\ brought \in Nat
             /\ Sign(t) * brought = IF t = "order.checkout" THEN 0 ELSE brought
<1>1. /\ Reader(t) \in Subscriptions /\ Reader(t).topic = t /\ t \in Topics
      /\ HasMessage(Reader(t))
  BY DEF Reader, Subscription, Subscriptions, ProductTopics, Topics, Counts
<1>2. HeadOf(Reader(t)) \in Messages(t)
  BY <1>1, HeadThere
<1>3. PICK brought : brought = Units(HeadOf(Reader(t)).items, s)
  OBVIOUS
<1>4. brought \in Nat /\ (t = "order.checkout" => brought = 0)
  BY <1>2, <1>3, MessageUnits
<1>5. t # "order.checkout" => Sign(t) = 1
  BY DEF Sign
<1>6. t = "order.checkout" => Sign(t) = -1
  BY DEF Sign
<1>7. Sign(t) * brought = IF t = "order.checkout" THEN 0 ELSE brought
  BY <1>4, <1>5, <1>6
<1> QED BY <1>3, <1>4, <1>5, <1>6, <1>7

-----------------------------------------------------------------------------
(* Every step keeps the types.                                             *)

(* Products stay as they are stored, and apart.                            *)
LEMMA ProductsTypedKept ==
  ASSUME ProductShape, OffsetShape, TopicsTyped, ProductsTyped, [Next]_vars
  PROVE  ProductsTyped'
<1> DEFINE Fine(p) == Exists(p)' => ProductTyped(products'[p])
<1>0. DOMAIN NoProduct = {} /\ DOMAIN <<>> = {}
  BY DEF NoProduct
<1> SUFFICES (\A p \in Products : Fine(p)) /\ Apart'
  BY DEF ProductsTyped, ProductTyped
<1>1. CASE UNCHANGED products
  BY <1>1 DEF ProductsTyped, Exists, Variants, Apart
<1>2. ASSUME NEW p \in Products, NEW variants, NEW isActive \in BOOLEAN, Update(p, variants, isActive),
             \/ variants = <<>>
             \/ /\ DOMAIN variants \subseteq Skus
                /\ \A s \in DOMAIN variants : variants[s] \in [stock : Int, price : Nat]
      PROVE  (\A q \in Products : Fine(q)) /\ Apart'
  <2> DEFINE new == IF variants = <<>> THEN products[p].variants ELSE variants
  <2>1. ProductTyped(products[p]) /\ Exists(p)
    BY <1>2 DEF Update, ProductsTyped
  <2>2. /\ products'[p] = [products[p] EXCEPT !.variants = new, !.isActive = isActive]
        /\ \A q \in Products \ {p} : products'[q] = products[q]
    BY <1>2 DEF Update, Updated, ProductShape
  <2>3. /\ DOMAIN new \subseteq Skus
        /\ \A s \in DOMAIN new : new[s] \in [stock : Int, price : Nat]
        /\ \A q \in Products \ {p} : DOMAIN new \cap DOMAIN Variants(q) = {}
    <3>1. CASE variants = <<>>
      BY <1>2, <2>1, <3>1 DEF ProductTyped, ProductsTyped, Apart, Variants
    <3>2. CASE variants # <<>>
      BY <1>2, <3>2 DEF Update
    <3> QED BY <3>1, <3>2
  <2> HIDE DEF new
  <2>4. /\ DOMAIN products'[p] = DOMAIN products[p] /\ products'[p].variants = new
        /\ products'[p].isActive = isActive /\ products'[p].range = products[p].range
    BY <2>1, <2>2 DEF ProductTyped
  <2>5. ProductTyped(products'[p]) /\ Variants(p)' = new
    BY <1>0, <1>2, <2>1, <2>3, <2>4 DEF ProductTyped, Variants, Exists
  <2>6. \A q \in Products \ {p} : Variants(q)' = Variants(q) /\ Fine(q)
    BY <2>2 DEF Variants, Exists, ProductsTyped
  <2>7. Apart'
    BY <2>3, <2>5, <2>6 DEF ProductsTyped, Apart
  <2> QED BY <2>5, <2>6, <2>7
<1>3. ASSUME NEW sku \in Skus, NEW price \in Prices, UpdatePrice(sku, price)
      PROVE  (\A q \in Products : Fine(q)) /\ Apart'
  <2>1. PICK p \in Products : /\ sku \in DOMAIN Variants(p)
                              /\ products' = [products EXCEPT ![p].variants[sku].price = price]
    BY <1>3 DEF UpdatePrice
  <2>2. Exists(p) /\ ProductTyped(products[p]) /\ Variants(p) = products[p].variants
    BY <1>0, <2>1 DEF Variants, ProductsTyped
  <2> DEFINE old == products[p].variants
             new == [old EXCEPT ![sku].price = price]
  <2>3. /\ products'[p] = [products[p] EXCEPT !.variants = new]
        /\ \A q \in Products \ {p} : products'[q] = products[q]
    BY <2>1 DEF ProductShape
  <2>4. DOMAIN new = DOMAIN old /\ \A s \in DOMAIN old : new[s] \in [stock : Int, price : Nat]
    <3>1. \A s \in DOMAIN old : old[s] \in [stock : Int, price : Nat]
      BY <2>2 DEF ProductTyped
    <3>2. price \in Nat
      BY PricesAssumption
    <3>3. DOMAIN new = DOMAIN old /\ \A s \in DOMAIN old : new[s] = IF s = sku THEN [old[s] EXCEPT !.price = price] ELSE old[s]
      BY <2>1, <2>2
    <3> HIDE DEF old, new
    <3> QED BY <3>1, <3>2, <3>3
  <2> HIDE DEF new
  <2>5. /\ DOMAIN products'[p] = DOMAIN products[p] /\ products'[p].variants = new
        /\ products'[p].isActive = products[p].isActive /\ products'[p].range = products[p].range
    BY <2>2, <2>3 DEF ProductTyped
  <2>6. ProductTyped(products'[p]) /\ Variants(p)' = new
    BY <1>0, <2>2, <2>4, <2>5 DEF ProductTyped, Variants, Exists
  <2>7. \A q \in Products \ {p} : Variants(q)' = Variants(q) /\ Fine(q)
    BY <2>3 DEF Variants, Exists, ProductsTyped
  <2>8. Apart'
    BY <2>2, <2>4, <2>6, <2>7 DEF ProductsTyped, Apart
  <2> QED BY <2>6, <2>7, <2>8
<1>4. ASSUME NEW n \in Nat, NEW ids \in [1 .. n -> Products], NEW docs \in [1 .. n -> Documents],
             NEW m \in 0 .. n, Stores(ids, docs, m)
      PROVE  (\A p \in Products : Fine(p)) /\ Apart'
  <2> DEFINE New(p, k) == ids[k] = p /\ docs[k] \in Documents /\ products'[p] = Stored(docs[k])
  <2>1. \A p \in Products : products'[p] = products[p] \/ \E k \in 1 .. m : New(p, k)
    BY <1>4, StoredAs
  <2>2. ASSUME NEW p \in Products, NEW k \in 1 .. m, New(p, k)
        PROVE  Fine(p) /\ Variants(p)' = docs[k].variants
    BY <2>2, StoredTyped, StoredExists DEF Variants, Exists
  <2>3. ASSUME NEW p \in Products, products'[p] = products[p]
        PROVE  Fine(p) /\ Variants(p)' = Variants(p)
    BY <2>3 DEF ProductsTyped, Exists, Variants
  <2>4. ASSUME NEW k \in 1 .. m
        PROVE  /\ \A q \in Products : DOMAIN docs[k].variants \cap DOMAIN Variants(q) = {}
               /\ \A j \in 1 .. (k - 1) : DOMAIN docs[k].variants \cap DOMAIN docs[j].variants = {}
    <3>1. Insertable(docs, k)
      BY <1>4 DEF Stores
    <3>2. \A q \in Products : DOMAIN Variants(q) \subseteq KnownSkus
      BY DEF KnownSkus
    <3>3. \A j \in 1 .. (k - 1) :
            DOMAIN docs[j].variants \subseteq UNION {DOMAIN docs[i].variants : i \in 1 .. (k - 1)}
      OBVIOUS
    <3> QED BY <3>1, <3>2, <3>3 DEF Insertable
  <2> DEFINE Disjoint(p, q) == DOMAIN Variants(p)' \cap DOMAIN Variants(q)' = {}
  <2>5. ASSUME NEW p \in Products, NEW q \in Products, p # q PROVE Disjoint(p, q)
    <3>1. CASE products'[p] = products[p] /\ products'[q] = products[q]
      BY <2>3, <2>5, <3>1 DEF ProductsTyped, Apart
    <3>2. ASSUME NEW k \in 1 .. m, New(p, k), products'[q] = products[q] PROVE Disjoint(p, q)
      BY <2>2, <2>3, <2>4, <3>2
    <3>3. ASSUME NEW k \in 1 .. m, New(q, k), products'[p] = products[p] PROVE Disjoint(p, q)
      BY <2>2, <2>3, <2>4, <3>3
    <3>4. ASSUME NEW j \in 1 .. m, NEW k \in 1 .. m, New(p, j), New(q, k) PROVE Disjoint(p, q)
      <4>1. j \in 1 .. (k - 1) \/ k \in 1 .. (j - 1)
        <5>1. j # k
          BY <2>5, <3>4
        <5> QED BY <5>1
      <4>2. DOMAIN docs[j].variants \cap DOMAIN docs[k].variants = {}
        BY <2>4, <4>1
      <4> QED BY <2>2, <3>4, <4>2
    <3> QED BY <2>1, <3>1, <3>2, <3>3, <3>4
  <2>6. \A p \in Products : Fine(p)
    BY <2>1, <2>2, <2>3
  <2> QED BY <2>5, <2>6 DEF Apart
<1>5. ASSUME NEW t \in ProductTopics, Counts(t) PROVE (\A p \in Products : Fine(p)) /\ Apart'
  <2> DEFINE items == HeadOf(Reader(t)).items
  <2>1. Sign(t) \in Int /\ \A s \in Skus : Sign(t) * Units(items, s) \in Int
    <3>1. Sign(t) \in Int
      BY DEF Sign
    <3>2. ASSUME NEW s \in Skus PROVE Sign(t) * Units(items, s) \in Int
      BY <1>5, CountBrings
    <3> QED BY <3>1, <3>2
  <2>2. Counted(items, Sign(t))
    BY <1>5 DEF Counts
  <2> HIDE DEF items
  <2>3. PICK sign \in Int : sign = Sign(t)
    BY <2>1
  <2>4. ASSUME NEW p \in Products
        PROVE  /\ Exists(p)' <=> Exists(p)
               /\ Exists(p) => ProductTyped(products'[p])
               /\ DOMAIN Variants(p)' = DOMAIN Variants(p)
    BY <2>1, <2>2, <2>3, CountedAs
  <2> QED BY <2>4 DEF ProductsTyped, Apart
<1>6. CASE UpdateStep
  <2>1. \A doc \in Documents :
          /\ doc.isActive \in BOOLEAN /\ DOMAIN doc.variants \subseteq Skus
          /\ \A s \in DOMAIN doc.variants : doc.variants[s] \in [stock : Int, price : Nat]
    BY DocumentsAssumption
  <2>2. ASSUME NEW p \in Products, NEW doc \in Documents,
               Update(p, doc.variants, doc.isActive) \/ Update(p, <<>>, doc.isActive)
        PROVE  (\A q \in Products : Fine(q)) /\ Apart'
    <3> HIDE DEF Fine
    <3> QED BY <1>2, <2>1, <2>2
  <2> HIDE DEF Fine
  <2> QED BY <1>3, <1>6, <2>2 DEF UpdateStep
<1> HIDE DEF Fine
<1> QED BY <1>1, <1>4, <1>5, <1>6, ProductsChange DEF Storing

(* A request is new until it saves, and done when it holds nothing.        *)
LEMMA CallsTypedKept ==
  ASSUME HeldOnce, CallsTyped, [Next]_vars
  PROVE  CallsTyped'
<1> DEFINE Fine(call) == /\ call.pc \in {"new", "announce", "done", "failed"}
                         /\ call.pc \in {"new", "done"} <=> call.todo = <<>> /\ call.pc # "failed"
<1>1. \A r \in Requests : Fine(calls[r])
  BY DEF CallsTyped
<1> SUFFICES ASSUME NEW q \in Requests PROVE Fine(calls'[q])
  BY DEF CallsTyped
<1>2. CASE Ends
  BY <1>1, <1>2 DEF Ends
<1>3. ASSUME NEW r \in Requests, Inserts(r) PROVE Fine(calls'[q])
  <2>1. PICK n \in Nat :
          \E ids \in [1 .. n -> Products], docs \in [1 .. n -> Documents], m \in 0 .. n :
            InsertsThese(r, ids, docs, m)
    BY <1>3 DEF Inserts
  <2>2. PICK ids \in [1 .. n -> Products], docs \in [1 .. n -> Documents], m \in 0 .. n :
          InsertsThese(r, ids, docs, m)
    BY <2>1
  <2> DEFINE held == Saves(ids, docs, m)
  <2>3. PICK pc \in {"announce", "failed"} :
          /\ pc = "announce" => m # 0
          /\ calls' = [calls EXCEPT ![r] = [pc |-> pc, todo |-> held]]
    BY <2>2 DEF InsertsThese
  <2>4. m # 0 => held # <<>>
    <3>1. Len(held) = m /\ Len(<<>>) = 0
      BY DEF Saves
    <3> HIDE DEF held
    <3> QED BY <3>1
  <2> HIDE DEF held
  <2> QED BY <1>1, <2>3, <2>4 DEF HeldOnce
<1>4. ASSUME NEW r \in Requests, calls[r].pc = "announce", Announced(r) PROVE Fine(calls'[q])
  <2>1. CASE q # r
    BY <1>1, <1>4, <2>1, SendLeaves
  <2>2. CASE q = r
    <3>1. /\ calls'[r].todo \in Seq(Saving) /\ calls[r].todo \in Seq(Saving)
          /\ Len(calls'[r].todo) = Len(calls[r].todo) - 1
      BY <1>4, SendLeaves DEF HeldOnce
    <3>2. calls'[r].pc = IF Len(calls[r].todo) = 1 THEN "done" ELSE "announce"
      BY <1>4 DEF Announced, HeldOnce
    <3>3. calls'[r].todo = <<>> <=> Len(calls'[r].todo) = 0
      BY <3>1, EmptySeq
    <3>4. calls'[r].todo = <<>> <=> Len(calls[r].todo) = 1
      BY <3>1, <3>3
    <3> QED BY <2>2, <3>2, <3>4
  <2> QED BY <2>1, <2>2
<1> HIDE DEF Fine
<1> QED BY <1>2, <1>3, <1>4, CallsChange DEF Sends

(* A subscription reads its next message, and what the search service      *)
(* reads it indexes.                                                       *)
IndexOf(s) == IF s.topic = "product.created" THEN "products" ELSE "orders"
Reads(s) ==
  /\ HasMessage(s)
  /\ Acknowledge(s)
  /\ UNCHANGED <<topics, committed>>
  /\ s.group = "search" => Put(IndexOf(s), HeadOf(s).id, HeadOf(s))

(* Offsets are set back by crashes, those of the product service by none   *)
(* but its own; or they are committed.                                     *)
SetBack ==
  /\ UNCHANGED committed
  /\ \A s \in Subscriptions :
       /\ offset'[s] \in {offset[s], committed[s]}
       /\ s.group = "product" /\ used'.crashes = 0 => offset'[s] = offset[s]
Committed ==
  /\ UNCHANGED offset
  /\ \A s \in Subscriptions : committed'[s] \in {committed[s], offset[s]}

(* Nothing else moves an offset.                                           *)
LEMMA OffsetsChange ==
  ASSUME OffsetShape, UsedTyped, [Next]_vars
  PROVE  SetBack \/ Committed \/ \E s \in Subscriptions : Reads(s)
<1>1. ASSUME UNCHANGED kafkaVars PROVE SetBack
  BY <1>1 DEF SetBack, kafkaVars
<1>2. /\ \A t \in ProductTopics : Reader(t) \in Subscriptions /\ Reader(t).group = "product"
      /\ \A t \in {"product.created", "order.checkout"} :
           LET s == Subscription("search", t)
           IN  s \in Subscriptions /\ s.topic = t
  BY DEF Reader, ProductTopics, Subscription, Subscriptions
<1>3. ASSUME NEW t \in {"order.checkout", "order.canceled"}, CountOrder(t) PROVE Reads(Reader(t))
  BY <1>2, <1>3 DEF CountOrder, Reads, Reader, ProductTopics
<1>4. ASSUME CountRestock PROVE Reads(Reader("product.restock"))
  BY <1>2, <1>4 DEF CountRestock, Reads, Reader, ProductTopics
<1>5. ASSUME IndexProduct PROVE Reads(Subscription("search", "product.created"))
  BY <1>2, <1>5 DEF IndexProduct, Reads, IndexOf
<1>6. ASSUME IndexOrder PROVE Reads(Subscription("search", "order.checkout"))
  BY <1>2, <1>6 DEF IndexOrder, Reads, IndexOf
<1>7. ASSUME NEW s \in Subscriptions, CommitOffset(s) PROVE Committed
  BY <1>7 DEF CommitOffset, Committed, OffsetShape
<1>8. ASSUME Died, UNCHANGED committed PROVE SetBack
  BY <1>8 DEF Died, SetBack
<1>9. ASSUME CrashProduct PROVE SetBack
  <2>1. used'.crashes = used.crashes + 1 /\ used.crashes \in Nat
    BY <1>9 DEF CrashProduct, Fault, Use, UsedTyped
  <2>2. used'.crashes # 0
    BY <2>1
  <2> QED BY <1>9, <2>2 DEF CrashProduct, SetBack
<1>10. ASSUME NEW t \in {"order.checkout", "order.canceled"}, CountOrderThrows(t) PROVE SetBack
  BY <1>1, <1>10 DEF CountOrderThrows
<1>11. ASSUME ConsumerStep PROVE SetBack \/ Committed \/ \E s \in Subscriptions : Reads(s)
  <2>1. \/ \E t \in {"order.checkout", "order.canceled"} : CountOrder(t) \/ CountOrderThrows(t)
        \/ CountRestock \/ IndexProduct \/ IndexOrder \/ \E s \in Subscriptions : CommitOffset(s)
    BY <1>11 DEF ConsumerStep
  <2> QED BY <1>2, <1>3, <1>4, <1>5, <1>6, <1>7, <1>10, <2>1 DEF ProductTopics
<1>12. ASSUME NEW r \in Requests, CreateStep(r) PROVE SetBack
  <2>1. UNCHANGED kafkaVars
    BY <1>12 DEF CreateStep, InsertMany, InsertManyFails, EmitCreated, EmitLost, NamesFail
  <2> QED BY <1>1, <2>1
<1>13. ASSUME UpdateStep \/ OrderStep \/ UNCHANGED vars PROVE SetBack
  <2>1. UNCHANGED kafkaVars
    BY <1>13 DEF UpdateStep, Update, UpdatePrice, OrderStep, PlaceOrder, CancelOrder, PublishRestock, vars
  <2> QED BY <1>1, <2>1
<1>14. ASSUME SearchStep \/ CrashSearch PROVE SetBack
  BY <1>1, <1>8, <1>14 DEF SearchStep, CheckIndex, CreateIndex, CreateIndexFails, CrashSearch
<1> QED BY <1>9, <1>11, <1>12, <1>13, <1>14 DEF Next, Step

(* Offsets do not pass the end of a topic.                                 *)
LEMMA OffsetsFitKept ==
  ASSUME OffsetShape, UsedTyped, EventsOnce, HeldOnce, OrdersTyped, TopicsTyped, OffsetsFit, [Next]_vars
  PROVE  OffsetsFit'
<1> SUFFICES ASSUME NEW s \in Subscriptions
             PROVE  committed'[s] <= offset'[s] /\ offset'[s] <= Len(topics'[s.topic])
  BY DEF OffsetsFit
<1>1. s.topic \in Topics
  BY DEF Subscriptions, Subscription, Topics
<1>2. /\ offset[s] \in Nat /\ committed[s] \in Nat
      /\ committed[s] <= offset[s] /\ offset[s] <= Len(topics[s.topic])
  BY DEF OffsetShape, OffsetsFit
<1>3. /\ topics[s.topic] \in Seq(Messages(s.topic))
      /\ topics'[s.topic] \in Seq(Messages(s.topic))
      /\ Len(topics[s.topic]) <= Len(topics'[s.topic])
  <2>1. \A t \in Topics : topics'[t] \in Seq(Messages(t))
    BY TopicsGrow DEF TopicsTyped, Messages, Carried, Saving, Payload, CheckoutOf, Stored, PriceRange,
                      Cancellations, RestockOf, Topics
  <2> QED BY <1>1, <2>1, TopicsGrow DEF TopicsTyped
<1>4. Len(topics[s.topic]) \in Nat /\ Len(topics'[s.topic]) \in Nat
  BY <1>3, LenProperties
<1>5. CASE SetBack
  BY <1>2, <1>3, <1>4, <1>5 DEF SetBack
<1>6. CASE Committed
  BY <1>2, <1>3, <1>4, <1>6 DEF Committed
<1>7. ASSUME NEW u \in Subscriptions, Reads(u)
      PROVE  committed'[s] <= offset'[s] /\ offset'[s] <= Len(topics'[s.topic])
  <2>1. /\ committed'[s] = committed[s] /\ topics' = topics
        /\ offset'[s] = IF s = u THEN offset[s] + 1 ELSE offset[s]
        /\ s = u => offset[s] < Len(topics[s.topic])
    BY <1>7 DEF Reads, Acknowledge, OffsetShape, HasMessage
  <2> QED BY <1>2, <1>4, <2>1
<1> QED BY <1>5, <1>6, <1>7, OffsetsChange

(* An index has a mapping before it has documents.                         *)
LEMMA IndexTypedKept ==
  ASSUME IndexShape, IndexTyped, [Next]_vars
  PROVE  IndexTyped'
<1>1. CASE UNCHANGED searchVars
  BY <1>1 DEF IndexTyped, searchVars
<1>2. ASSUME NEW i \in Indices, CheckIndex(i) PROVE IndexTyped'
  BY <1>2 DEF CheckIndex, IndexTyped
<1>3. ASSUME NEW i \in Indices, CreateIndex(i) PROVE IndexTyped'
  BY <1>3 DEF CreateIndex, IndexTyped, IndexShape
<1>4. CASE Died /\ UNCHANGED index
  BY <1>4 DEF Died, IndexTyped
<1>5. ASSUME NEW i \in Indices, NEW id, NEW document, Put(i, id, document), UNCHANGED boot
      PROVE  IndexTyped'
  <2>1. /\ index'[i].mapping = IF index[i].mapping = "none" THEN "dynamic" ELSE index[i].mapping
        /\ \A n \in Indices \ {i} : index'[n] = index[n]
    BY <1>5 DEF Put, IndexShape
  <2> QED BY <1>5, <2>1 DEF IndexTyped
<1>6. CASE SearchStep \/ CrashSearch
  BY <1>2, <1>3, <1>4, <1>6 DEF SearchStep, CreateIndexFails, CrashSearch
<1>7. CASE ConsumerStep
  <2>1. "products" \in Indices /\ "orders" \in Indices
    BY DEF Indices
  <2>2. ASSUME IndexProduct \/ IndexOrder PROVE IndexTyped'
    BY <1>5, <2>1, <2>2 DEF IndexProduct, IndexOrder
  <2>3. UNCHANGED searchVars \/ IndexProduct \/ IndexOrder
    BY <1>7 DEF ConsumerStep, CountOrder, CountOrderThrows, CountRestock, CommitOffset
  <2> QED BY <1>1, <2>2, <2>3
<1>8. ASSUME NEW r \in Requests, CreateStep(r) PROVE UNCHANGED searchVars
  BY <1>8 DEF CreateStep, InsertMany, InsertManyFails, EmitCreated, EmitLost, NamesFail
<1>9. CASE UpdateStep \/ OrderStep \/ CrashProduct \/ UNCHANGED vars
  BY <1>1, <1>9 DEF UpdateStep, Update, UpdatePrice, OrderStep, PlaceOrder, CancelOrder, PublishRestock,
                    CrashProduct, vars
<1> QED BY <1>1, <1>6, <1>7, <1>8, <1>9 DEF Next, Step

(* The types hold at the start.                                            *)
LEMMA SoundInit == Init => Sound
<1> SUFFICES ASSUME Init PROVE Typed
  BY IInvInit DEF Sound
<1>1. DOMAIN <<>> = {} /\ Len(<<>>) = 0 /\ \A S : <<>> \in Seq(S)
  OBVIOUS
<1>2. TopicsTyped /\ OrdersTyped
  BY <1>1 DEF Init, TopicsTyped, OrdersTyped
<1>3. OffsetsFit
  <2>1. \A s \in Subscriptions : s.topic \in Topics
    BY DEF Subscriptions, Subscription, Topics
  <2> QED BY <1>1, <2>1 DEF Init, OffsetsFit
<1>4. CallsTyped /\ ProductsTyped
  BY <1>1 DEF Init, CallsTyped, ProductsTyped, Apart, Variants, Exists
<1>5. IndexTyped /\ UsedTyped
  BY DEF Init, IndexTyped, UsedTyped
<1> QED BY <1>2, <1>3, <1>4, <1>5 DEF Typed

(* Every step keeps them.                                                  *)
LEMMA SoundNext == Sound /\ [Next]_vars => Sound'
<1> SUFFICES ASSUME Sound, [Next]_vars PROVE Sound'
  OBVIOUS
<1>1. IInv'
  BY IInvNext DEF Sound
<1>2. TopicsTyped' /\ OffsetsFit'
  BY TopicsGrow, OffsetsFitKept DEF Sound, Typed, IInv
<1>3. OrdersTyped' /\ CallsTyped' /\ UsedTyped'
  BY OrdersTypedKept, CallsTypedKept, UsedChanges DEF Sound, Typed, IInv
<1>4. ProductsTyped' /\ IndexTyped'
  BY ProductsTypedKept, IndexTypedKept DEF Sound, Typed, IInv
<1> QED BY <1>1, <1>2, <1>3, <1>4 DEF Sound, Typed

(* So they hold always.                                                    *)
LEMMA SoundInvariant == Spec => []Sound
BY SoundInit, SoundNext, PTL DEF Spec

(* Products keep a range of prices and have their variants to themselves,  *)
(* requests, orders, offsets and indices are as their services handle      *)
(* them, and what is indexed exists.                                       *)
THEOREM TypeCorrect == Spec => []TypeOK
<1>1. ASSUME Sound PROVE TypeOK
  <2>1. /\ ProductsTyped /\ CallsTyped /\ OrdersTyped /\ OffsetsFit /\ IndexTyped
        /\ ProductShape /\ HeldOnce /\ EventsOnce /\ IndexFromEvents
    BY <1>1 DEF Sound, Typed, IInv
  <2>2. \A p \in Products : Exists(p) =>
          /\ DOMAIN Variants(p) \subseteq Skus /\ products[p].isActive \in BOOLEAN
          /\ \A s \in DOMAIN Variants(p) : Variants(p)[s] \in [stock : Int, price : Nat]
          /\ products[p].range.min <= products[p].range.max
    BY <2>1 DEF ProductsTyped, ProductTyped, Variants
  <2>3. \A r \in Requests : Pending(r) \subseteq {p \in Products : Exists(p)}
    <3>1. ASSUME NEW r \in Requests, NEW k \in DOMAIN calls[r].todo
          PROVE  calls[r].todo[k].id \in Products /\ Exists(calls[r].todo[k].id)
      <4>1. calls[r].todo[k] \in Saving
        BY <2>1, ElementOfSeq DEF HeldOnce
      <4> QED BY <2>1, <4>1 DEF Saving, HeldOnce
    <3> QED BY <3>1 DEF Pending, Range
  <2>4. /\ DOMAIN index["products"].documents \subseteq {p \in Products : Exists(p)}
        /\ DOMAIN index["orders"].documents \subseteq {id \in OrderIds : orders[id].status # "none"}
    <3>1. /\ \A id \in Indexed("products") : \E k \in DOMAIN EventsFor("products") : EventsFor("products")[k].id = id
          /\ \A id \in Indexed("orders") : \E k \in DOMAIN EventsFor("orders") : EventsFor("orders")[k].id = id
      BY <2>1 DEF IndexFromEvents, Indices
    <3> QED BY <2>1, <3>1, CarriedIds DEF EventsOnce, Indexed
  <2> QED BY <2>1, <2>2, <2>3, <2>4
          DEF TypeOK, ProductsTyped, Apart, CallsTyped, OrdersTyped, OffsetsFit, IndexTyped
<1> QED BY <1>1, SoundInvariant, PTL

-----------------------------------------------------------------------------
(* The snapshots of stock.                                                 *)

(* A client may send this stock of a variant; a message brings so many     *)
(* units of it.                                                            *)
SetTo(s, stock) == \E doc \in Documents : s \in DOMAIN doc.variants /\ stock = doc.variants[s].stock
Brings(t, s) == IF t = "order.checkout" THEN 0 ELSE Units(HeadOf(Reader(t)).items, s)

(* The snapshot of a variant is what a client has sent, what it was, or    *)
(* what it was and what a message brings.                                  *)
LEMMA StockChange ==
  ASSUME Sound, [Next]_vars, NEW p \in Products, NEW s \in DOMAIN Variants(p)'
  PROVE  \/ (UpdateStep \/ s \notin DOMAIN Variants(p)) /\ SetTo(s, Variants(p)'[s].stock)
         \/ s \in DOMAIN Variants(p) /\ Variants(p)'[s].stock = Variants(p)[s].stock
         \/ /\ s \in DOMAIN Variants(p)
            /\ \E t \in ProductTopics :
                 /\ Counts(t) /\ Brings(t, s) \in Nat
                 /\ Variants(p)'[s].stock = Variants(p)[s].stock + Brings(t, s)
<1>0. /\ ProductShape /\ OffsetShape /\ TopicsTyped /\ ProductsTyped
      /\ DOMAIN NoProduct = {} /\ DOMAIN <<>> = {}
  BY DEF Sound, IInv, Typed, NoProduct
<1> DEFINE Set == (UpdateStep \/ s \notin DOMAIN Variants(p)) /\ SetTo(s, Variants(p)'[s].stock)
           Same == s \in DOMAIN Variants(p) /\ Variants(p)'[s].stock = Variants(p)[s].stock
<1>1. ASSUME products'[p] = products[p] PROVE Same
  BY <1>1 DEF Variants, Exists
<1>2. ASSUME NEW q \in Products, NEW variants, NEW isActive, Update(q, variants, isActive), UpdateStep,
             \/ variants = <<>>
             \/ \E doc \in Documents : variants = doc.variants
      PROVE  Set \/ Same
  <2>1. CASE q # p
    <3>1. products'[p] = products[p]
      BY <1>0, <1>2, <2>1 DEF Update, ProductShape
    <3> QED BY <1>1, <3>1
  <2>2. CASE q = p
    <3> DEFINE new == IF variants = <<>> THEN products[p].variants ELSE variants
    <3>1. ProductTyped(products[p]) /\ Exists(p)
      BY <1>0, <1>2, <2>2 DEF Update, ProductsTyped
    <3>2. products'[p] = [products[p] EXCEPT !.variants = new, !.isActive = isActive]
      BY <1>0, <1>2, <2>2 DEF Update, Updated, ProductShape
    <3>3. new = Variants(p) \/ \E doc \in Documents : new = doc.variants
      BY <1>2, <3>1 DEF Variants
    <3> HIDE DEF new
    <3>4. DOMAIN products'[p] = DOMAIN products[p] /\ products'[p].variants = new
      BY <3>1, <3>2 DEF ProductTyped
    <3>5. Exists(p)'
      BY <1>0, <3>1, <3>4 DEF Exists, ProductTyped
    <3>6. Variants(p)' = new
      BY <3>4, <3>5 DEF Variants
    <3> QED BY <1>2, <3>3, <3>6 DEF SetTo
  <2> QED BY <2>1, <2>2
<1>3. ASSUME NEW sku \in Skus, NEW price \in Prices, UpdatePrice(sku, price)
      PROVE  Same
  <2>1. PICK q \in Products : /\ sku \in DOMAIN Variants(q)
                              /\ products' = [products EXCEPT ![q].variants[sku].price = price]
    BY <1>3 DEF UpdatePrice
  <2>2. CASE q # p
    <3>1. products'[p] = products[p]
      BY <1>0, <2>1, <2>2 DEF ProductShape
    <3> QED BY <3>1 DEF Variants, Exists
  <2>3. CASE q = p
    <3>1. Exists(p) /\ ProductTyped(products[p]) /\ Variants(p) = products[p].variants
      BY <1>0, <2>1, <2>3 DEF Variants, ProductsTyped
    <3> DEFINE old == products[p].variants
               new == [old EXCEPT ![sku].price = price]
    <3>2. products'[p] = [products[p] EXCEPT !.variants = new]
      BY <1>0, <2>1, <2>3 DEF ProductShape
    <3>3. DOMAIN new = DOMAIN old /\ \A x \in DOMAIN old : new[x].stock = old[x].stock
      <4>1. DOMAIN new = DOMAIN old
        OBVIOUS
      <4>2. ASSUME NEW x \in DOMAIN old PROVE new[x].stock = old[x].stock
        <5>1. old[x] \in [stock : Int, price : Nat]
          BY <3>1 DEF ProductTyped
        <5>2. new[x] = IF x = sku THEN [old[x] EXCEPT !.price = price] ELSE old[x]
          OBVIOUS
        <5> HIDE DEF old, new
        <5> QED BY <5>1, <5>2
      <4> QED BY <4>1, <4>2
    <3> HIDE DEF new
    <3>4. DOMAIN products'[p] = DOMAIN products[p] /\ products'[p].variants = new
      BY <3>1, <3>2 DEF ProductTyped
    <3>5. Variants(p)' = new
      BY <1>0, <3>1, <3>4 DEF Variants, Exists, ProductTyped
    <3> QED BY <3>1, <3>3, <3>5
  <2> QED BY <2>2, <2>3
<1>4. ASSUME Storing PROVE Set \/ Same
  <2>1. PICK n \in Nat :
          \E ids \in [1 .. n -> Products], docs \in [1 .. n -> Documents], m \in 0 .. n : Stores(ids, docs, m)
    BY <1>4 DEF Storing
  <2>2. PICK ids \in [1 .. n -> Products], docs \in [1 .. n -> Documents], m \in 0 .. n : Stores(ids, docs, m)
    BY <2>1
  <2>3. \/ products'[p] = products[p]
        \/ ~ Exists(p) /\ \E doc \in Documents : products'[p] = Stored(doc)
    BY <1>0, <2>2, StoredAs
  <2>4. ASSUME NEW doc \in Documents, products'[p] = Stored(doc), ~ Exists(p) PROVE Set
    <3>1. Variants(p)' = doc.variants /\ DOMAIN Variants(p) = {}
      BY <1>0, <2>4, StoredExists, StoredTyped DEF Variants, Exists
    <3> QED BY <3>1 DEF SetTo
  <2> QED BY <1>1, <2>3, <2>4
<1>5. ASSUME NEW t \in ProductTopics, Counts(t)
      PROVE  /\ s \in DOMAIN Variants(p) /\ Brings(t, s) \in Nat
             /\ Variants(p)'[s].stock = Variants(p)[s].stock + Brings(t, s)
  <2> DEFINE items == HeadOf(Reader(t)).items
  <2>1. ASSUME NEW x \in Skus
        PROVE  /\ Sign(t) \in Int /\ Sign(t) * Units(items, x) \in Int
               /\ Brings(t, x) \in Nat /\ Sign(t) * Units(items, x) = Brings(t, x)
    BY <1>0, <1>5, CountBrings DEF Brings
  <2>2. Counted(items, Sign(t)) /\ Sign(t) \in Int
    BY <1>5 DEF Counts, Sign
  <2> HIDE DEF items
  <2>3. PICK sign \in Int : sign = Sign(t)
    BY <2>2
  <2>4. /\ DOMAIN Variants(p)' = DOMAIN Variants(p)
        /\ \A x \in DOMAIN Variants(p) : /\ x \in Skus
                                         /\ Variants(p)'[x].stock = Variants(p)[x].stock + sign * Units(items, x)
    BY <1>0, <2>1, <2>2, <2>3, CountedAs
  <2> QED BY <2>1, <2>3, <2>4
<1>6. CASE UpdateStep
  <2>1. ASSUME NEW q \in Products, NEW doc \in Documents,
               Update(q, doc.variants, doc.isActive) \/ Update(q, <<>>, doc.isActive)
        PROVE  Set \/ Same
    <3> HIDE DEF Set, Same
    <3> QED BY <1>2, <1>6, <2>1
  <2> HIDE DEF Set, Same
  <2>2. Set \/ Same
    BY <1>3, <1>6, <2>1 DEF UpdateStep
  <2> QED BY <2>2 DEF Set, Same
<1> QED BY <1>1, <1>4, <1>5, <1>6, ProductsChange

(* Nothing but an update lowers a snapshot: messages of canceled orders    *)
(* and of restocks raise it, those of placed orders leave it alone.        *)
THEOREM NeverFalls == Spec => SnapshotNeverFalls
<1> DEFINE Falls == \E p \in Products : \E s \in DOMAIN Variants(p) \cap DOMAIN Variants(p)' :
                      Variants(p)'[s].stock < Variants(p)[s].stock
<1>1. ASSUME Sound, [Next]_vars, Falls PROVE UpdateStep
  <2>1. PICK p \in Products : \E s \in DOMAIN Variants(p) \cap DOMAIN Variants(p)' :
               Variants(p)'[s].stock < Variants(p)[s].stock
    BY <1>1
  <2>2. PICK s \in DOMAIN Variants(p) \cap DOMAIN Variants(p)' : Variants(p)'[s].stock < Variants(p)[s].stock
    BY <2>1
  <2>3. Variants(p)[s].stock \in Int
    <3>1. Exists(p) /\ Variants(p) = products[p].variants
      BY <2>2 DEF Variants
    <3>2. Variants(p)[s] \in [stock : Int, price : Nat]
      BY <1>1, <2>2, <3>1 DEF Sound, Typed, ProductsTyped, ProductTyped
    <3> QED BY <3>2
  <2>4. PICK stock \in Int : stock = Variants(p)[s].stock
    BY <2>3
  <2>5. ASSUME Variants(p)'[s].stock = stock PROVE FALSE
    BY <2>2, <2>4, <2>5
  <2>6. ASSUME NEW gain \in Nat, Variants(p)'[s].stock = stock + gain PROVE FALSE
    BY <2>2, <2>4, <2>6
  <2> QED BY <1>1, <2>2, <2>4, <2>5, <2>6, StockChange
<1>2. Sound /\ [Next]_vars => [Falls => UpdateStep]_vars
  BY <1>1
<1>3. [][Falls => UpdateStep]_vars => SnapshotNeverFalls
  BY PTL DEF SnapshotNeverFalls
<1> QED BY <1>2, <1>3, SoundInvariant, PTL DEF Spec

-----------------------------------------------------------------------------
(* What the snapshots account for.                                         *)

(* The units of a topic's messages, and of those the product service has   *)
(* read.                                                                   *)
Bringing == {"order.canceled", "product.restock"}
UnitsOf(t, s) == [i \in DOMAIN topics[t] |-> Units(topics[t][i].items, s)]
Seen(t, s) == SumFunctionOnSet(UnitsOf(t, s), 1 .. offset[Reader(t)])

(* The invariant behind SnapshotAccounted: a snapshot is made of what      *)
(* messages that have been read have brought.                              *)
SnapshotCounted ==
  used.crashes = 0 /\ ~ threw =>
    \A p \in Products : \A s \in DOMAIN Variants(p) :
      Variants(p)[s].stock <= MostSet(s) + Seen("order.canceled", s) + Seen("product.restock", s)

(* Messages that bring units bring numbers of them.                        *)
LEMMA UnitsTyped ==
  ASSUME NEW t \in Bringing, NEW s \in Skus, NEW messages \in Seq(Messages(t))
  PROVE  /\ DOMAIN messages = 1 .. Len(messages) /\ Len(messages) \in Nat
         /\ \A i \in 1 .. Len(messages) : Units(messages[i].items, s) \in Nat
<1>1. t \in ProductTopics
  BY DEF Bringing, ProductTopics
<1>2. DOMAIN messages = 1 .. Len(messages) /\ Len(messages) \in Nat
  BY LenProperties
<1>3. ASSUME NEW i \in 1 .. Len(messages) PROVE Units(messages[i].items, s) \in Nat
  <2>1. messages[i] \in Messages(t)
    BY ElementOfSeq
  <2> QED BY <1>1, <2>1, MessageUnits
<1> QED BY <1>2, <1>3

(* Without a crash, what has been read stays read.                         *)
LEMMA ReadersAdvance ==
  ASSUME Sound, [Next]_vars, used'.crashes = 0, NEW t \in ProductTopics
  PROVE  /\ offset[Reader(t)] \in Nat /\ offset'[Reader(t)] \in Nat
         /\ offset[Reader(t)] <= offset'[Reader(t)]
         /\ offset[Reader(t)] <= Len(topics[t]) /\ offset'[Reader(t)] <= Len(topics'[t])
<1>1. /\ Reader(t) \in Subscriptions /\ Reader(t).group = "product" /\ Reader(t).topic = t
  BY DEF Reader, ProductTopics, Subscription, Subscriptions
<1>2. OffsetShape /\ OffsetsFit /\ UsedTyped
  BY DEF Sound, IInv, Typed
<1>3. OffsetShape' /\ OffsetsFit'
  BY SoundNext DEF Sound, IInv, Typed
<1>4. /\ offset[Reader(t)] \in Nat /\ offset'[Reader(t)] \in Nat
      /\ offset[Reader(t)] <= Len(topics[t]) /\ offset'[Reader(t)] <= Len(topics'[t])
  BY <1>1, <1>2, <1>3 DEF OffsetShape, OffsetsFit
<1>5. CASE SetBack
  BY <1>1, <1>4, <1>5 DEF SetBack
<1>6. CASE Committed
  BY <1>4, <1>6 DEF Committed
<1>7. ASSUME NEW u \in Subscriptions, Reads(u) PROVE offset[Reader(t)] <= offset'[Reader(t)]
  <2>1. offset'[Reader(t)] = IF Reader(t) = u THEN offset[Reader(t)] + 1 ELSE offset[Reader(t)]
    BY <1>1, <1>2, <1>7 DEF Reads, Acknowledge, OffsetShape
  <2> QED BY <1>4, <2>1
<1> QED BY <1>2, <1>4, <1>5, <1>6, <1>7, OffsetsChange

(* The units of messages that are there do not change.                     *)
LEMMA UnitsStay ==
  ASSUME Sound, [Next]_vars, NEW t \in Bringing, NEW s \in Skus
  PROVE  /\ Len(topics[t]) \in Nat /\ Len(topics'[t]) \in Nat /\ Len(topics[t]) <= Len(topics'[t])
         /\ \A i \in 1 .. Len(topics[t]) : UnitsOf(t, s)[i] \in Nat /\ UnitsOf(t, s)'[i] = UnitsOf(t, s)[i]
         /\ \A i \in 1 .. Len(topics'[t]) : UnitsOf(t, s)'[i] \in Nat
<1>1. t \in Topics /\ TopicsTyped /\ EventsOnce /\ HeldOnce /\ OrdersTyped
  BY DEF Sound, IInv, Typed, Bringing, Topics
<1>2. topics[t] \in Seq(Messages(t)) /\ topics'[t] \in Seq(Messages(t))
  BY <1>1, TopicsGrow
  DEF TopicsTyped, Messages, Carried, Saving, Payload, CheckoutOf, Stored, PriceRange, Cancellations,
      RestockOf, Topics
<1>3. /\ Len(topics[t]) <= Len(topics'[t])
      /\ \A i \in 1 .. Len(topics[t]) : topics'[t][i] = topics[t][i]
  BY <1>1, TopicsGrow
<1>4. /\ DOMAIN topics[t] = 1 .. Len(topics[t]) /\ Len(topics[t]) \in Nat
      /\ \A i \in 1 .. Len(topics[t]) : Units(topics[t][i].items, s) \in Nat
  BY <1>2, UnitsTyped
<1>5. /\ DOMAIN topics'[t] = 1 .. Len(topics'[t]) /\ Len(topics'[t]) \in Nat
      /\ \A i \in 1 .. Len(topics'[t]) : Units(topics'[t][i].items, s) \in Nat
  BY <1>2, UnitsTyped
<1>6. /\ \A i \in 1 .. Len(topics[t]) : UnitsOf(t, s)[i] = Units(topics[t][i].items, s)
      /\ \A i \in 1 .. Len(topics'[t]) : UnitsOf(t, s)'[i] = Units(topics'[t][i].items, s)
  BY <1>4, <1>5 DEF UnitsOf
<1>7. \A i \in 1 .. Len(topics[t]) : i \in 1 .. Len(topics'[t])
  BY <1>3, <1>4, <1>5
<1> QED BY <1>3, <1>4, <1>5, <1>6, <1>7

(* What has been read is a number of units that grows.                     *)
LEMMA SeenGrows ==
  ASSUME Sound, [Next]_vars, used'.crashes = 0, NEW t \in Bringing, NEW s \in Skus
  PROVE  Seen(t, s) \in Nat /\ Seen(t, s)' \in Nat /\ Seen(t, s) <= Seen(t, s)'
<1>1. t \in ProductTopics
  BY DEF Bringing, ProductTopics
<1>2. PICK n \in Nat, m \in Nat : n = offset[Reader(t)] /\ m = offset'[Reader(t)]
  BY <1>1, ReadersAdvance
<1>3. n <= m /\ n <= Len(topics[t]) /\ m <= Len(topics'[t])
  BY <1>1, <1>2, ReadersAdvance
<1>4. PICK f, e : f = UnitsOf(t, s) /\ e = UnitsOf(t, s)'
  OBVIOUS
<1>5. /\ \A i \in 1 .. n : f[i] \in Nat /\ e[i] = f[i]
      /\ \A i \in 1 .. m : e[i] \in Nat
  <2>1. /\ Len(topics[t]) \in Nat /\ Len(topics'[t]) \in Nat
        /\ \A i \in 1 .. Len(topics[t]) : f[i] \in Nat /\ e[i] = f[i]
        /\ \A i \in 1 .. Len(topics'[t]) : e[i] \in Nat
    BY <1>4, UnitsStay
  <2> QED BY <1>3, <2>1
<1>6. Seen(t, s) = SumFunctionOnSet(f, 1 .. n) /\ Seen(t, s)' = SumFunctionOnSet(e, 1 .. m)
  BY <1>2, <1>4 DEF Seen, Reader
<1>7. IsFiniteSet(1 .. n) /\ IsFiniteSet(1 .. m)
  BY FS_Interval
<1>8. SumFunctionOnSet(f, 1 .. n) = SumFunctionOnSet(e, 1 .. n)
  BY <1>5, <1>7, SumSame
<1>9. 1 .. n \in SUBSET (1 .. m)
  BY <1>3
<1>10. /\ SumFunctionOnSet(e, 1 .. n) \in Nat
       /\ SumFunctionOnSet(e, 1 .. n) <= SumFunctionOnSet(e, 1 .. m)
  BY <1>5, <1>7, <1>9, SumGrows
<1>11. SumFunctionOnSet(e, 1 .. m) \in Nat
  BY <1>5, <1>7, SumGrows
<1> QED BY <1>6, <1>8, <1>10, <1>11

(* A message that is counted and acknowledged has been read.               *)
LEMMA SeenCounts ==
  ASSUME Sound, [Next]_vars, NEW t \in Bringing, NEW s \in Skus,
         HasMessage(Reader(t)), Acknowledge(Reader(t)), UNCHANGED topics
  PROVE  /\ Seen(t, s) \in Nat /\ Brings(t, s) \in Nat
         /\ Seen(t, s)' = Seen(t, s) + Brings(t, s)
<1>1. /\ Reader(t) \in Subscriptions /\ Reader(t).topic = t /\ t \in Topics /\ t # "order.checkout"
  BY DEF Reader, Bringing, Topics, Subscription, Subscriptions
<1>2. OffsetShape /\ TopicsTyped
  BY DEF Sound, IInv, Typed
<1>3. PICK n \in Nat : n = offset[Reader(t)]
  BY <1>1, <1>2 DEF OffsetShape
<1>4. offset'[Reader(t)] = n + 1
  BY <1>1, <1>2, <1>3 DEF Acknowledge, OffsetShape
<1>5. n + 1 \in 1 .. Len(topics[t]) /\ HeadOf(Reader(t)) = topics[t][n + 1]
  BY <1>1, <1>2, <1>3, HeadThere
<1>6. PICK f : f = UnitsOf(t, s)
  OBVIOUS
<1>7. /\ DOMAIN f = 1 .. Len(topics[t]) /\ Len(topics[t]) \in Nat
      /\ \A i \in 1 .. Len(topics[t]) : f[i] \in Nat
  <2>1. topics[t] \in Seq(Messages(t))
    BY <1>1, <1>2 DEF TopicsTyped
  <2> QED BY <1>6, <2>1, UnitsTyped DEF UnitsOf
<1>8. f[n + 1] = Brings(t, s)
  BY <1>1, <1>5, <1>6, <1>7 DEF UnitsOf, Brings
<1>9. Seen(t, s) = SumFunctionOnSet(f, 1 .. n) /\ Seen(t, s)' = SumFunctionOnSet(f, 1 .. n + 1)
  BY <1>3, <1>4, <1>6 DEF Seen, UnitsOf, Reader
<1>10. \A i \in 1 .. n + 1 : f[i] \in Nat
  BY <1>5, <1>7
<1>11. /\ IsFiniteSet(1 .. n + 1) /\ n + 1 \in 1 .. n + 1
       /\ (1 .. n + 1) \ {n + 1} = 1 .. n /\ 1 .. n \in SUBSET (1 .. n + 1)
  BY FS_Interval
<1>12. SumFunctionOnSet(f, 1 .. n + 1) = f[n + 1] + SumFunctionOnSet(f, 1 .. n)
  BY <1>10, <1>11, SumOut
<1>13. SumFunctionOnSet(f, 1 .. n) \in Nat
  BY <1>10, <1>11, SumGrows
<1>14. f[n + 1] \in Nat
  BY <1>10, <1>11
<1> QED BY <1>8, <1>9, <1>12, <1>13, <1>14

(* MostSet bounds what a client can send.                                  *)
LEMMA MostSetBounds ==
  ASSUME NEW s
  PROVE  MostSet(s) \in Nat /\ \A stock : SetTo(s, stock) => stock \in Nat /\ stock <= MostSet(s)
<1> DEFINE D == {doc \in Documents : s \in DOMAIN doc.variants}
           stock == [doc \in D |-> doc.variants[s].stock]
           Sent == {stock[doc] : doc \in D}
<1>1. IsFiniteSet(D) /\ stock = [doc \in D |-> stock[doc]]
  BY DocumentsAssumption, FS_Subset
<1>2. \A doc \in D : stock[doc] \in Nat
  <2> TAKE doc \in D
  <2>1. doc.variants[s] \in [stock : Nat, price : Nat]
    BY DocumentsAssumption
  <2> QED BY <2>1
<1>3. Sent = {doc.variants[s].stock : doc \in D}
  OBVIOUS
<1>4. \A x : SetTo(s, x) <=> x \in Sent
  BY DEF SetTo
<1> HIDE DEF D, stock
<1>5. IsFiniteSet(Sent) /\ \A x \in Sent : x \in Nat
  BY <1>1, <1>2, ImageFinite
<1> HIDE DEF Sent
<1>6. IsFiniteSet({0} \cup Sent)
  BY <1>5, FS_AddElement
<1>7. Max({0} \cup Sent) \in {0} \cup Sent /\ \A x \in {0} \cup Sent : x <= Max({0} \cup Sent)
  BY <1>5, <1>6, Largest
<1>8. MostSet(s) = Max({0} \cup Sent)
  BY <1>3 DEF MostSet, D
<1> QED BY <1>4, <1>5, <1>7, <1>8

(* Crashes and throws are not forgotten.                                   *)
LEMMA FaultsStay ==
  ASSUME Sound, [Next]_vars
  PROVE  /\ used'.crashes = 0 => used.crashes = 0
         /\ threw => threw'
<1>1. used'.crashes = 0 => used.crashes = 0
  <2>1. UsedTyped /\ UsedTyped' /\ \A kind \in DOMAIN used : used[kind] <= used'[kind]
    BY UsedChanges DEF Sound, Typed
  <2>2. used.crashes \in Nat /\ used'.crashes \in Nat /\ used.crashes <= used'.crashes
    BY <2>1 DEF UsedTyped
  <2> QED BY <2>2
<1>2. ASSUME threw PROVE threw'
  <2>1. CASE UNCHANGED threw
    BY <1>2, <2>1
  <2>2. ASSUME NEW r \in Requests, CreateStep(r) PROVE UNCHANGED threw
    BY <2>2 DEF CreateStep, InsertMany, InsertManyFails, EmitCreated, EmitLost, NamesFail
  <2>3. CASE UpdateStep \/ OrderStep \/ UNCHANGED vars
    BY <2>1, <2>3
    DEF UpdateStep, Update, UpdatePrice, OrderStep, PlaceOrder, CancelOrder, PublishRestock, vars
  <2>4. CASE SearchStep \/ CrashProduct \/ CrashSearch
    BY <2>1, <2>4 DEF SearchStep, CheckIndex, CreateIndex, CreateIndexFails, CrashProduct, CrashSearch
  <2>5. ASSUME ConsumerStep PROVE UNCHANGED threw \/ \E t : threw' = (threw \/ t = "order.canceled")
    BY <2>5 DEF ConsumerStep, CountOrder, CountOrderThrows, CountRestock, IndexProduct, IndexOrder, CommitOffset
  <2>6. ASSUME NEW t, threw' = (threw \/ t = "order.canceled") PROVE threw'
    BY <1>2, <2>6
  <2> QED BY <2>1, <2>2, <2>3, <2>4, <2>5, <2>6 DEF Next, Step
<1> QED BY <1>1, <1>2

(* A snapshot grows by what is read, once: a message that is counted is    *)
(* acknowledged, or its handler throws.                                    *)
LEMMA SnapshotCountedNext == Sound /\ SnapshotCounted /\ [Next]_vars => SnapshotCounted'
<1> SUFFICES ASSUME Sound, SnapshotCounted, [Next]_vars, used'.crashes = 0, ~ threw',
                    NEW p \in Products, NEW s \in DOMAIN Variants(p)'
             PROVE  Variants(p)'[s].stock
                      <= MostSet(s) + Seen("order.canceled", s)' + Seen("product.restock", s)'
  BY DEF SnapshotCounted, MostSet
<1>0. s \in Skus
  <2>1. ProductsTyped'
    BY SoundNext DEF Sound, Typed
  <2>2. Exists(p)' /\ Variants(p)' = products'[p].variants
    BY DEF Variants
  <2> QED BY <2>1, <2>2 DEF ProductsTyped, ProductTyped
<1>1. "order.canceled" \in Bringing /\ "product.restock" \in Bringing
  BY DEF Bringing
<1>2. PICK most \in Nat : most = MostSet(s)
  BY MostSetBounds
<1>3. PICK c \in Nat, d \in Nat :
        c = Seen("order.canceled", s) /\ d = Seen("order.canceled", s)' /\ c <= d
  BY <1>0, <1>1, SeenGrows
<1>4. PICK e \in Nat, f \in Nat :
        e = Seen("product.restock", s) /\ f = Seen("product.restock", s)' /\ e <= f
  BY <1>0, <1>1, SeenGrows
<1>5. used.crashes = 0 /\ ~ threw
  BY FaultsStay
<1> DEFINE stock == Variants(p)[s].stock
<1>6. ASSUME s \in DOMAIN Variants(p) PROVE stock \in Int /\ stock <= most + c + e
  <2>1. Exists(p) /\ Variants(p) = products[p].variants
    BY <1>6 DEF Variants
  <2>2. Variants(p)[s] \in [stock : Int, price : Nat]
    BY <1>6, <2>1 DEF Sound, Typed, ProductsTyped, ProductTyped
  <2>3. stock \in Int
    BY <2>2
  <2>4. stock <= MostSet(s) + Seen("order.canceled", s) + Seen("product.restock", s)
    BY <1>5, <1>6 DEF SnapshotCounted
  <2> QED BY <1>2, <1>3, <1>4, <2>3, <2>4
<1> HIDE DEF stock
<1> SUFFICES Variants(p)'[s].stock <= most + d + f
  BY <1>2, <1>3, <1>4
<1>7. CASE SetTo(s, Variants(p)'[s].stock)
  <2>1. PICK new \in Nat : new = Variants(p)'[s].stock /\ new <= most
    BY <1>2, <1>7, MostSetBounds
  <2> QED BY <2>1
<1>8. ASSUME s \in DOMAIN Variants(p), Variants(p)'[s].stock = stock
      PROVE  Variants(p)'[s].stock <= most + d + f
  BY <1>3, <1>4, <1>6, <1>8
<1>9. ASSUME s \in DOMAIN Variants(p), NEW t \in ProductTopics, Counts(t), Brings(t, s) \in Nat,
             Variants(p)'[s].stock = stock + Brings(t, s)
      PROVE  Variants(p)'[s].stock <= most + d + f
  <2>1. PICK gain \in Nat : gain = Brings(t, s)
    BY <1>9
  <2>2. CASE t = "order.checkout"
    <3>1. gain = 0
      BY <2>1, <2>2 DEF Brings
    <3> QED BY <1>3, <1>4, <1>6, <1>9, <2>1, <3>1
  <2>3. CASE t \in Bringing
    <3>1. Acknowledge(Reader(t)) \/ (t = "order.canceled" /\ threw' = (threw \/ t = "order.canceled"))
      BY <1>9, <2>3 DEF Counts, Bringing
    <3>2. Acknowledge(Reader(t)) /\ HasMessage(Reader(t)) /\ UNCHANGED topics
      BY <1>9, <3>1 DEF Counts
    <3>3. Seen(t, s)' = Seen(t, s) + gain
      BY <1>0, <2>1, <2>3, <3>2, SeenCounts
    <3>4. CASE t = "order.canceled"
      <4>1. d = c + gain
        BY <1>3, <3>3, <3>4
      <4> QED BY <1>4, <1>6, <1>9, <2>1, <4>1
    <3>5. CASE t = "product.restock"
      <4>1. f = e + gain
        BY <1>4, <3>3, <3>5
      <4> QED BY <1>3, <1>6, <1>9, <2>1, <4>1
    <3> QED BY <2>3, <3>4, <3>5 DEF Bringing
  <2> QED BY <2>2, <2>3 DEF ProductTopics, Bringing
<1> QED BY <1>7, <1>8, <1>9, StockChange DEF stock

(* Brought is a sum over the messages of both topics.                      *)
LEMMA BroughtIsSum ==
  ASSUME TopicsTyped, NEW s \in Skus
  PROVE  Brought(s) = SumFunctionOnSet(UnitsOf("order.canceled", s), DOMAIN topics["order.canceled"])
                      + SumFunctionOnSet(UnitsOf("product.restock", s), DOMAIN topics["product.restock"])
<1> DEFINE Sums(h, t) == h = [x \in SUBSET (DOMAIN topics[t]) |->
             IF x = {} THEN 0 ELSE Units(topics[t][Pick(x)].items, s) + h[x \ {Pick(x)}]]
           In(t) == (CHOOSE h : Sums(h, t))[DOMAIN topics[t]]
<1>1. Brought(s) = In("order.canceled") + In("product.restock")
  BY DEF Brought, MapThenSumSet, MapThenFoldSet, Pick
<1> HIDE DEF In
<1>2. ASSUME NEW t \in Bringing PROVE In(t) = SumFunctionOnSet(UnitsOf(t, s), DOMAIN topics[t])
  <2> DEFINE D == DOMAIN topics[t]
             f == UnitsOf(t, s)
             g == CHOOSE h : Sums(h, t)
  <2>1. \A x \in SUBSET D : x # {} => f[Pick(x)] = Units(topics[t][Pick(x)].items, s)
    BY PickIn DEF UnitsOf
  <2>2. \A h : Sums(h, t) <=> Adds(h, f, D)
    <3> HIDE DEF f
    <3> QED BY <2>1 DEF Adds
  <2>3. IsFiniteSet(D)
    <3>1. t \in Topics
      BY DEF Bringing, Topics
    <3>2. topics[t] \in Seq(Messages(t))
      BY <3>1 DEF TopicsTyped
    <3>3. D = 1 .. Len(topics[t]) /\ Len(topics[t]) \in Nat
      BY <3>2, LenProperties
    <3> QED BY <3>3, FS_Interval
  <2>4. \E h : Adds(h, f, D)
    BY <2>3, AddsExists
  <2>5. Adds(g, f, D)
    <3> HIDE DEF f, Sums
    <3> QED BY <2>2, <2>4
  <2>6. In(t) = g[D]
    BY DEF In
  <2> HIDE DEF g, f
  <2>7. SumFunctionOnSet(f, D) = g[D]
    BY <2>3, <2>5, SumByAdds
  <2> QED BY <2>6, <2>7 DEF f
<1> QED BY <1>1, <1>2 DEF Bringing

(* The handlers of order.canceled and product.restock add a message's      *)
(* units once, and nothing else that is not a client's raises a snapshot.  *)
THEOREM SnapshotsAccounted == Spec => []SnapshotAccounted
<1> DEFINE Inv == Sound /\ SnapshotCounted
<1>1. Init => Inv
  <2>1. Init => SnapshotCounted
    BY DEF Init, SnapshotCounted, Variants, Exists
  <2> QED BY <2>1, SoundInit
<1>2. Inv /\ [Next]_vars => Inv'
  BY SoundNext, SnapshotCountedNext
<1>3. ASSUME Inv, used.crashes = 0, ~ threw, NEW p \in Products, NEW s \in DOMAIN Variants(p)
      PROVE  Variants(p)[s].stock <= MostSet(s) + Brought(s)
  <2>1. s \in Skus /\ Variants(p)[s].stock \in Int
    <3>1. Exists(p) /\ Variants(p) = products[p].variants
      BY <1>3 DEF Variants
    <3>2. s \in Skus /\ Variants(p)[s] \in [stock : Int, price : Nat]
      BY <1>3, <3>1 DEF Sound, Typed, ProductsTyped, ProductTyped
    <3> QED BY <3>2
  <2>2. TopicsTyped /\ OffsetShape /\ OffsetsFit
    BY <1>3 DEF Sound, IInv, Typed
  <2>3. ASSUME NEW t \in Bringing
        PROVE  LET all == SumFunctionOnSet(UnitsOf(t, s), DOMAIN topics[t])
               IN  Seen(t, s) \in Nat /\ all \in Nat /\ Seen(t, s) <= all
    <3>1. t \in Topics /\ Reader(t) \in Subscriptions /\ Reader(t).topic = t
      BY DEF Bringing, Topics, Reader, Subscription, Subscriptions
    <3>2. topics[t] \in Seq(Messages(t))
      BY <2>2, <3>1 DEF TopicsTyped
    <3>3. /\ DOMAIN topics[t] = 1 .. Len(topics[t]) /\ Len(topics[t]) \in Nat
          /\ \A i \in 1 .. Len(topics[t]) : UnitsOf(t, s)[i] \in Nat
      BY <2>1, <3>2, UnitsTyped DEF UnitsOf
    <3>4. PICK n \in Nat, m \in Nat : n = offset[Reader(t)] /\ m = Len(topics[t]) /\ n <= m
      BY <2>2, <3>1, <3>3 DEF OffsetShape, OffsetsFit
    <3>5. 1 .. n \in SUBSET (1 .. m) /\ IsFiniteSet(1 .. m)
      <4>1. 1 .. n \in SUBSET (1 .. m)
        BY <3>4
      <4> QED BY <4>1, FS_Interval
    <3>6. PICK f : f = UnitsOf(t, s)
      OBVIOUS
    <3>7. \A i \in 1 .. m : f[i] \in Nat
      BY <3>3, <3>4, <3>6
    <3>8. /\ SumFunctionOnSet(f, 1 .. n) \in Nat /\ SumFunctionOnSet(f, 1 .. m) \in Nat
          /\ SumFunctionOnSet(f, 1 .. n) <= SumFunctionOnSet(f, 1 .. m)
      BY <3>5, <3>7, SumGrows
    <3> QED BY <3>3, <3>4, <3>6, <3>8 DEF Seen
  <2>4. "order.canceled" \in Bringing /\ "product.restock" \in Bringing
    BY DEF Bringing
  <2>5. PICK stock \in Int, most \in Nat : stock = Variants(p)[s].stock /\ most = MostSet(s)
    BY <2>1, MostSetBounds
  <2>6. PICK c \in Nat, d \in Nat :
          /\ c = Seen("order.canceled", s)
          /\ d = SumFunctionOnSet(UnitsOf("order.canceled", s), DOMAIN topics["order.canceled"]) /\ c <= d
    BY <2>3, <2>4
  <2>7. PICK e \in Nat, f \in Nat :
          /\ e = Seen("product.restock", s)
          /\ f = SumFunctionOnSet(UnitsOf("product.restock", s), DOMAIN topics["product.restock"]) /\ e <= f
    BY <2>3, <2>4
  <2>8. stock <= most + c + e
    BY <1>3, <2>5, <2>6, <2>7 DEF SnapshotCounted
  <2>9. Brought(s) = d + f
    BY <2>1, <2>2, <2>6, <2>7, BroughtIsSum
  <2>10. stock <= most + (d + f)
    BY <2>6, <2>7, <2>8
  <2> QED BY <2>5, <2>9, <2>10
<1>4. Inv => SnapshotAccounted
  BY <1>3 DEF SnapshotAccounted
<1> QED BY <1>1, <1>2, <1>4, PTL DEF Spec

-----------------------------------------------------------------------------
(* What the search service finds.                                          *)

(* What it has read is indexed, orders that were placed are in their       *)
(* topic, and, as long as the broker takes every event, a product that     *)
(* exists is in its own topic or held by a request.                        *)
Searcher(i) == Subscription("search", TopicOf(i))
ReadIndexed ==
  \A i \in Indices : \A k \in 1 .. offset[Searcher(i)] : EventsFor(i)[k].id \in Indexed(i)
PlacedAnnounced ==
  \A id \in OrderIds : orders[id].status # "none" =>
    \E k \in DOMAIN EventsFor("orders") : EventsFor("orders")[k].id = id
Held(p) == \E r \in Requests : \E k \in DOMAIN calls[r].todo : calls[r].todo[k].id = p
AnnouncedAlready(p) == \E k \in DOMAIN EventsFor("products") : EventsFor("products")[k].id = p
CreatedHeld ==
  used.lost = 0 => \A p \in Products : Exists(p) => Held(p) \/ AnnouncedAlready(p)

Searchable == ReadIndexed /\ PlacedAnnounced /\ CreatedHeld

(* Documents stay.                                                         *)
LEMMA IndexedStays ==
  ASSUME Sound, [Next]_vars, NEW i \in Indices
  PROVE  Indexed(i) \subseteq Indexed(i)'
<1>0. IndexShape /\ OffsetShape /\ EventsOnce
  BY DEF Sound, IInv
<1>1. CASE UNCHANGED index
  BY <1>1 DEF Indexed
<1>2. ASSUME NEW j \in Indices, CreateIndex(j) PROVE Indexed(i) \subseteq Indexed(i)'
  BY <1>0, <1>2 DEF CreateIndex, IndexShape, Indexed
<1>3. ASSUME NEW j \in Indices, IndexesEvent(j) PROVE Indexed(i) \subseteq Indexed(i)'
  <2>1. PICK k \in DOMAIN EventsFor(j) : Put(j, EventsFor(j)[k].id, EventsFor(j)[k])
    BY <1>3 DEF IndexesEvent
  <2>2. /\ \A n \in Indices \ {j} : index'[n] = index[n]
        /\ Indexed(j)' = Indexed(j) \cup {EventsFor(j)[k].id}
    BY <1>0, <2>1, PutChanges
  <2> QED BY <2>2 DEF Indexed
<1> QED BY <1>0, <1>1, <1>2, <1>3, IndexChange

(* What the search service reads it indexes, and set back it reads again.  *)
LEMMA ReadIndexedKept ==
  ASSUME Sound, ReadIndexed, [Next]_vars
  PROVE  ReadIndexed'
<1> SUFFICES ASSUME NEW i \in Indices, NEW k \in 1 .. offset'[Searcher(i)]
             PROVE  EventsFor(i)'[k].id \in Indexed(i)'
  BY DEF ReadIndexed, Searcher, Subscription, TopicOf
<1>1. /\ Searcher(i) \in Subscriptions /\ Searcher(i).topic = TopicOf(i) /\ Searcher(i).group = "search"
      /\ IndexOf(Searcher(i)) = i /\ TopicOf(i) \in Topics
  BY DEF Searcher, TopicOf, Subscription, Subscriptions, IndexOf, Indices, Topics
<1>2. /\ OrderShape /\ OffsetShape /\ IndexShape /\ HeldOnce /\ EventsOnce
      /\ OffsetsFit /\ TopicsTyped /\ UsedTyped
  BY DEF Sound, IInv, Typed
<1>3. PICK n \in Nat, m \in Nat :
        n = offset[Searcher(i)] /\ m = committed[Searcher(i)] /\ m <= n /\ n <= Len(EventsFor(i))
  BY <1>1, <1>2 DEF OffsetShape, OffsetsFit, EventsFor
<1>4. DOMAIN EventsFor(i) = 1 .. Len(EventsFor(i)) /\ Len(EventsFor(i)) \in Nat
  <2>1. EventsFor(i) \in Seq(Carried(i))
    BY <1>2 DEF EventsOnce
  <2> QED BY <2>1, LenProperties
<1>5. ASSUME k \in 1 .. n PROVE EventsFor(i)'[k].id \in Indexed(i)'
  <2>1. EventsFor(i)[k].id \in Indexed(i)
    BY <1>3, <1>5 DEF ReadIndexed
  <2>2. k \in DOMAIN EventsFor(i)
    BY <1>3, <1>4, <1>5
  <2>3. EventsFor(i)'[k] = EventsFor(i)[k]
    BY <1>2, <2>2, EventsStay
  <2> QED BY <2>1, <2>3, IndexedStays
<1>6. CASE SetBack
  <2>1. offset'[Searcher(i)] = n \/ offset'[Searcher(i)] = m
    BY <1>1, <1>3, <1>6 DEF SetBack
  <2>2. k \in 1 .. n
    BY <1>3, <2>1
  <2> QED BY <1>5, <2>2
<1>7. CASE Committed
  <2>1. offset'[Searcher(i)] = n
    BY <1>3, <1>7 DEF Committed
  <2> QED BY <1>5, <2>1
<1>8. ASSUME NEW u \in Subscriptions, Reads(u), u # Searcher(i) PROVE EventsFor(i)'[k].id \in Indexed(i)'
  <2>1. offset'[Searcher(i)] = n
    BY <1>1, <1>2, <1>3, <1>8 DEF Reads, Acknowledge, OffsetShape
  <2> QED BY <1>5, <2>1
<1>9. ASSUME Reads(Searcher(i)) PROVE EventsFor(i)'[k].id \in Indexed(i)'
  <2>1. offset'[Searcher(i)] = n + 1 /\ UNCHANGED topics
    BY <1>1, <1>2, <1>3, <1>9 DEF Reads, Acknowledge, OffsetShape
  <2>2. HeadOf(Searcher(i)) = EventsFor(i)[n + 1]
    BY <1>1, <1>3 DEF HeadOf, EventsFor
  <2>3. Put(i, EventsFor(i)[n + 1].id, EventsFor(i)[n + 1])
    BY <1>1, <1>9, <2>2 DEF Reads
  <2>4. EventsFor(i)[n + 1].id \in Indexed(i)'
    BY <1>2, <2>3, PutChanges
  <2>5. k \in 1 .. n \/ k = n + 1
    BY <1>3, <2>1
  <2>6. EventsFor(i)' = EventsFor(i)
    BY <2>1 DEF EventsFor, TopicOf
  <2> QED BY <1>5, <2>4, <2>5, <2>6
<1> QED BY <1>2, <1>6, <1>7, <1>8, <1>9, OffsetsChange

(* An order is placed with its event.                                      *)
LEMMA PlacedAnnouncedKept ==
  ASSUME Sound, PlacedAnnounced, [Next]_vars
  PROVE  PlacedAnnounced'
<1>0. OrderShape /\ HeldOnce /\ EventsOnce /\ "orders" \in Indices
  BY DEF Sound, IInv, Indices
<1> SUFFICES ASSUME NEW id \in OrderIds, orders'[id].status # "none"
             PROVE  \E k \in DOMAIN EventsFor("orders")' : EventsFor("orders")'[k].id = id
  BY DEF PlacedAnnounced
<1>1. CASE orders[id].status # "none"
  <2>1. PICK k \in DOMAIN EventsFor("orders") : EventsFor("orders")[k].id = id
    BY <1>1 DEF PlacedAnnounced
  <2> QED BY <1>0, <2>1, EventsStay
<1>2. ASSUME NEW x \in OrderIds, NEW cart \in Carts, PlaceOrder(x, cart), orders[id].status = "none"
      PROVE  \E k \in DOMAIN EventsFor("orders")' : EventsFor("orders")'[k].id = id
  <2>1. x = id
    BY <1>0, <1>2 DEF PlaceOrder, OrderShape
  <2>2. PICK event : /\ event \in Carried("orders") /\ event.id = id
                     /\ EventsFor("orders")' = Append(EventsFor("orders"), event)
    BY <1>0, <1>2, <2>1, PlaceAppends
  <2>3. EventsFor("orders") \in Seq(Carried("orders"))
    BY <1>0 DEF EventsOnce
  <2> DEFINE k == Len(EventsFor("orders")) + 1
  <2>4. k \in DOMAIN Append(EventsFor("orders"), event) /\ Append(EventsFor("orders"), event)[k] = event
    BY <2>2, <2>3, AppendProperties
  <2> QED BY <2>2, <2>4
<1>3. ASSUME NEW x \in OrderIds, CancelOrder(x) PROVE orders[id].status # "none"
  BY <1>0, <1>3 DEF CancelOrder, OrderShape
<1>4. CASE UNCHANGED orders
  BY <1>1, <1>4
<1>5. CASE OrderStep
  BY <1>1, <1>2, <1>3, <1>4, <1>5 DEF OrderStep, PublishRestock
<1>6. ASSUME NEW r \in Requests, CreateStep(r) PROVE UNCHANGED orders
  BY <1>6 DEF CreateStep, InsertMany, InsertManyFails, EmitCreated, EmitLost, NamesFail
<1>7. CASE UpdateStep \/ ConsumerStep
  BY <1>4, <1>7
  DEF UpdateStep, Update, UpdatePrice, ConsumerStep, CountOrder, CountOrderThrows, CountRestock,
      IndexProduct, IndexOrder, CommitOffset
<1>8. CASE SearchStep \/ CrashProduct \/ CrashSearch \/ UNCHANGED vars
  BY <1>4, <1>8
  DEF SearchStep, CheckIndex, CreateIndex, CreateIndexFails, CrashProduct, CrashSearch, vars
<1> QED BY <1>4, <1>5, <1>6, <1>7, <1>8 DEF Next, Step

(* Only a request that holds it creates a product.                         *)
LEMMA NewHeld ==
  ASSUME Sound, [Next]_vars, NEW p \in Products, ~ Exists(p), Exists(p)'
  PROVE  Held(p)'
<1>0. /\ ProductShape /\ OffsetShape /\ HeldOnce /\ TopicsTyped /\ ProductsTyped
  BY DEF Sound, IInv, Typed
<1>1. products'[p] # products[p]
  BY DEF Exists
<1>2. ASSUME UpdateStep PROVE FALSE
  <2>1. ASSUME NEW q \in Products, NEW variants, NEW isActive, Update(q, variants, isActive) PROVE FALSE
    BY <1>0, <1>1, <2>1 DEF Update, ProductShape
  <2>2. ASSUME NEW sku, NEW price, UpdatePrice(sku, price) PROVE FALSE
    <3>1. PICK q \in Products : /\ sku \in DOMAIN Variants(q)
                                /\ products' = [products EXCEPT ![q].variants[sku].price = price]
      BY <2>2 DEF UpdatePrice
    <3>2. q # p
      <4>1. DOMAIN Variants(p) = {}
        BY DEF Variants
      <4> QED BY <3>1, <4>1
    <3> QED BY <1>0, <1>1, <3>1, <3>2 DEF ProductShape
  <2> QED BY <1>2, <2>1, <2>2 DEF UpdateStep
<1>3. ASSUME NEW t \in ProductTopics, Counts(t) PROVE FALSE
  BY <1>1, <1>3 DEF Counts, Counted, Exists
<1>4. ASSUME NEW r \in Requests, Inserts(r) PROVE Held(p)'
  <2>1. PICK n \in Nat :
          \E ids \in [1 .. n -> Products], docs \in [1 .. n -> Documents], m \in 0 .. n :
            InsertsThese(r, ids, docs, m)
    BY <1>4 DEF Inserts
  <2>2. PICK ids \in [1 .. n -> Products], docs \in [1 .. n -> Documents], m \in 0 .. n :
          InsertsThese(r, ids, docs, m)
    BY <2>1
  <2> DEFINE these == SubSeq(ids, 1, m)
             held == Saves(ids, docs, m)
  <2>3. DOMAIN these = 1 .. m /\ \A k \in 1 .. m : these[k] = ids[k]
    OBVIOUS
  <2>4. DOMAIN held = 1 .. m /\ \A k \in 1 .. m : held[k].id = ids[k]
    BY DEF Saves
  <2> HIDE DEF these, held
  <2>5. products' = Saved(these, docs) /\ \E pc : calls' = [calls EXCEPT ![r] = [pc |-> pc, todo |-> held]]
    BY <2>2 DEF InsertsThese, these, held
  <2>6. p \in Range(these)
    BY <1>1, <2>5 DEF Saved
  <2>7. PICK k \in 1 .. m : these[k] = p
    BY <2>3, <2>6 DEF Range
  <2>8. calls'[r].todo = held
    BY <1>0, <2>5 DEF HeldOnce
  <2>9. k \in DOMAIN calls'[r].todo /\ calls'[r].todo[k].id = p
    BY <2>3, <2>4, <2>7, <2>8
  <2> QED BY <2>9 DEF Held
<1> QED BY <1>1, <1>2, <1>3, <1>4, ProductsChange

(* What a request holds it goes on holding, unless it sends it; and what   *)
(* is announced stays so.                                                  *)
LEMMA CreatedHeldKept ==
  ASSUME Sound, CreatedHeld, [Next]_vars
  PROVE  CreatedHeld'
<1>0. /\ ProductShape /\ OrderShape /\ HeldOnce /\ EventsOnce /\ CallsTyped /\ UsedTyped
      /\ "products" \in Indices
  BY DEF Sound, IInv, Typed, Indices
<1> SUFFICES ASSUME used'.lost = 0, NEW p \in Products, Exists(p)'
             PROVE  Held(p)' \/ AnnouncedAlready(p)'
  BY DEF CreatedHeld
<1>1. used.lost = 0
  <2>1. UsedTyped' /\ \A kind \in DOMAIN used : used[kind] <= used'[kind]
    BY <1>0, UsedChanges
  <2>2. used.lost \in Nat /\ used'.lost \in Nat /\ used.lost <= used'.lost
    BY <1>0, <2>1 DEF UsedTyped
  <2> QED BY <2>2
<1>2. CASE AnnouncedAlready(p)
  BY <1>0, <1>2, EventsStay DEF AnnouncedAlready
<1>3. ASSUME Held(p) PROVE Held(p)' \/ AnnouncedAlready(p)'
  <2>1. PICK r \in Requests : \E k \in DOMAIN calls[r].todo : calls[r].todo[k].id = p
    BY <1>3 DEF Held
  <2>2. PICK k \in DOMAIN calls[r].todo : calls[r].todo[k].id = p
    BY <2>1
  <2>3. ASSUME calls'[r].todo = calls[r].todo PROVE Held(p)'
    <3>1. k \in DOMAIN calls'[r].todo /\ calls'[r].todo[k].id = p
      BY <2>2, <2>3
    <3> QED BY <3>1 DEF Held
  <2>4. CASE Ends
    BY <2>3, <2>4 DEF Ends
  <2>5. ASSUME NEW q \in Requests, Inserts(q) PROVE Held(p)'
    <3>1. PICK n \in Nat :
            \E ids \in [1 .. n -> Products], docs \in [1 .. n -> Documents], m \in 0 .. n :
              InsertsThese(q, ids, docs, m)
      BY <2>5 DEF Inserts
    <3>2. /\ calls[q].pc = "new"
          /\ \E held : calls' = [calls EXCEPT ![q] = held]
      BY <3>1 DEF InsertsThese
    <3>3. calls[q].todo = <<>>
      BY <1>0, <3>2 DEF CallsTyped
    <3>4. q # r
      BY <2>2, <3>3
    <3>5. calls'[r] = calls[r]
      BY <3>2, <3>4
    <3> QED BY <2>3, <3>5
  <2>6. ASSUME NEW q \in Requests, Sends(q) PROVE Held(p)' \/ AnnouncedAlready(p)'
    <3>1. CASE q # r
      <4>1. calls'[r] = calls[r]
        BY <1>0, <2>6, <3>1, SendLeaves DEF Sends
      <4> QED BY <2>3, <4>1
    <3>2. CASE q = r
      <4>1. /\ calls[r].todo \in Seq(Saving)
            /\ calls'[r].todo = Tail(calls[r].todo)
        BY <1>0, <2>6, <3>2 DEF Sends, Announced, HeldOnce
      <4>2. k \in 1 .. Len(calls[r].todo) /\ Len(calls[r].todo) \in Nat
        BY <2>2, <4>1
      <4>3. CASE k # 1
        <5>1. /\ calls[r].todo # <<>>
              /\ calls'[r].todo \in Seq(Saving)
              /\ Len(calls'[r].todo) = Len(calls[r].todo) - 1
              /\ \A j \in DOMAIN calls'[r].todo : calls'[r].todo[j] = calls[r].todo[j + 1]
          BY <1>0, <2>6, <3>2, SendLeaves DEF Sends, HeldOnce
        <5>2. k - 1 \in DOMAIN calls'[r].todo /\ k - 1 + 1 = k
          BY <4>2, <4>3, <5>1
        <5>3. calls'[r].todo[k - 1].id = p
          BY <2>2, <5>1, <5>2
        <5> QED BY <5>2, <5>3 DEF Held
      <4>4. CASE k = 1 /\ EmitCreated(r)
        <5>1. PICK event \in Carried("products") :
                /\ event.id = calls[r].todo[1].id
                /\ EventsFor("products")' = Append(EventsFor("products"), event)
          BY <1>0, <4>4, EmitAppends
        <5>2. EventsFor("products") \in Seq(Carried("products"))
          BY <1>0 DEF EventsOnce
        <5> DEFINE last == Len(EventsFor("products")) + 1
        <5>3. /\ last \in DOMAIN Append(EventsFor("products"), event)
              /\ Append(EventsFor("products"), event)[last] = event
          BY <5>1, <5>2, AppendProperties
        <5> HIDE DEF last
        <5>4. last \in DOMAIN EventsFor("products")' /\ EventsFor("products")'[last].id = p
          BY <2>2, <4>4, <5>1, <5>3
        <5> QED BY <5>4 DEF AnnouncedAlready
      <4>5. ASSUME EmitLost(r) PROVE FALSE
        <5>1. used'.lost = used.lost + 1 /\ used.lost \in Nat
          BY <1>0, <4>5 DEF EmitLost, Fault, Use, UsedTyped
        <5> QED BY <1>1, <5>1
      <4> QED BY <2>6, <3>2, <4>3, <4>4, <4>5 DEF Sends
    <3> QED BY <3>1, <3>2
  <2> QED BY <1>0, <2>4, <2>5, <2>6, CallsChange
<1>4. CASE Exists(p)
  BY <1>1, <1>2, <1>3, <1>4 DEF CreatedHeld
<1>5. CASE ~ Exists(p)
  BY <1>5, NewHeld
<1> QED BY <1>4, <1>5

(* They hold at the start.                                                 *)
LEMMA SearchableInit == Init => Searchable
<1> SUFFICES ASSUME Init PROVE Searchable
  OBVIOUS
<1>1. ReadIndexed
  <2>1. ASSUME NEW i \in Indices PROVE offset[Searcher(i)] = 0
    <3>1. Searcher(i) \in Subscriptions
      BY DEF Searcher, TopicOf, Subscription, Subscriptions, Indices
    <3> QED BY <3>1 DEF Init
  <2>2. 1 .. 0 = {}
    OBVIOUS
  <2> QED BY <2>1, <2>2 DEF ReadIndexed
<1>2. PlacedAnnounced /\ CreatedHeld
  BY DEF Init, PlacedAnnounced, CreatedHeld, Exists
<1> QED BY <1>1, <1>2 DEF Searchable

(* A product's event says whether it is active, an order's who has placed  *)
(* it and that it is pending.                                              *)
LEMMA EventFields ==
  /\ \A event \in Carried("products") : "isActive" \in DOMAIN event /\ event.isActive \in BOOLEAN
  /\ \A event \in Carried("orders") :
       /\ "userId" \in DOMAIN event /\ event.userId = 1
       /\ "status" \in DOMAIN event /\ event.status = "PENDING"
<1>1. ASSUME NEW event \in Carried("products")
      PROVE  "isActive" \in DOMAIN event /\ event.isActive \in BOOLEAN
  <2>1. PICK held \in Saving : event = Payload(held.id, held.product)
    BY DEF Carried
  <2>2. PICK doc \in Documents : held.product = Stored(doc)
    BY DEF Saving
  <2>3. Stored(doc).isActive \in BOOLEAN
    BY DocumentsAssumption DEF Stored
  <2> QED BY <2>1, <2>2, <2>3 DEF Payload
<1>2. ASSUME NEW event \in Carried("orders")
      PROVE  /\ "userId" \in DOMAIN event /\ event.userId = 1
             /\ "status" \in DOMAIN event /\ event.status = "PENDING"
  <2>1. PICK id \in OrderIds, cart \in Carts : event = CheckoutOf(id, cart)
    BY DEF Carried
  <2> QED BY <2>1 DEF CheckoutOf
<1> QED BY <1>1, <1>2

(* Once it has caught up, the document of every event is the event.        *)
LEMMA CaughtUp ==
  ASSUME Sound, ReadIndexed, Caught, NEW i \in Indices, NEW k \in DOMAIN EventsFor(i)
  PROVE  LET event == EventsFor(i)[k]
         IN  event \in Carried(i) /\ event.id \in Indexed(i) /\ index[i].documents[event.id] = event
<1> DEFINE event == EventsFor(i)[k]
<1>1. /\ Searcher(i) \in Subscriptions /\ Searcher(i).topic = TopicOf(i) /\ Searcher(i).group = "search"
  BY DEF Searcher, TopicOf, Subscription, Subscriptions, Indices
<1>2. OffsetShape /\ OffsetsFit /\ EventsOnce /\ IndexFromEvents
  BY DEF Sound, IInv, Typed
<1>3. /\ EventsFor(i) \in Seq(Carried(i))
      /\ DOMAIN EventsFor(i) = 1 .. Len(EventsFor(i)) /\ Len(EventsFor(i)) \in Nat
  <2>1. EventsFor(i) \in Seq(Carried(i))
    BY <1>2 DEF EventsOnce
  <2> QED BY <2>1, LenProperties
<1>4. offset[Searcher(i)] = Len(EventsFor(i))
  <2>1. /\ offset[Searcher(i)] \in Nat /\ offset[Searcher(i)] <= Len(EventsFor(i))
        /\ ~ (offset[Searcher(i)] < Len(EventsFor(i)))
    BY <1>1, <1>2 DEF OffsetShape, OffsetsFit, Caught, HasMessage, EventsFor
  <2> QED BY <1>3, <2>1
<1>5. event.id \in Indexed(i)
  BY <1>3, <1>4 DEF ReadIndexed
<1>6. index[i].documents[event.id] = event
  <2>1. PICK j \in DOMAIN EventsFor(i) :
          EventsFor(i)[j].id = event.id /\ index[i].documents[event.id] = EventsFor(i)[j]
    BY <1>2, <1>5 DEF IndexFromEvents
  <2>2. j = k
    BY <1>2, <2>1 DEF EventsOnce
  <2> QED BY <2>1, <2>2
<1>7. event \in Carried(i)
  BY <1>3, ElementOfSeq
<1> QED BY <1>5, <1>6, <1>7

(* searchProduct, searchProductInventory and searchOrders, when all events *)
(* have been read: nothing that was announced is missing, and only an      *)
(* event the broker has not taken, or a request, keeps a product from it.  *)
THEOREM SearchesComplete == Spec => []SearchComplete
<1> DEFINE Inv == Sound /\ Searchable
<1>1. Init => Inv
  BY SoundInit, SearchableInit
<1>2. Inv /\ [Next]_vars => Inv'
  BY SoundNext, ReadIndexedKept, PlacedAnnouncedKept, CreatedHeldKept DEF Searchable
<1>3. ASSUME Sound, Searchable, Caught
      PROVE  /\ used.lost = 0 =>
                  \A p \in Products : Exists(p) =>
                    p \in SearchProductInventory(Null) \/ \E r \in Requests : p \in Pending(r)
             /\ \A event \in Range(topics["product.created"]) : event.isActive =>
                  /\ event.id \in SearchProduct(Null)
                  /\ index["products"].mapping = "designed" => event.id \in SearchProduct(event.id)
             /\ \A id \in OrderIds : orders[id].status # "none" =>
                  /\ id \in SearchOrders("all", Null)
                  /\ index["orders"].mapping = "designed" => id \in SearchOrders("PENDING", Null)
  <2>0. "products" \in Indices /\ "orders" \in Indices /\ ReadIndexed
    BY <1>3 DEF Indices, Searchable
  <2>1. ASSUME used.lost = 0, NEW p \in Products, Exists(p)
        PROVE  p \in SearchProductInventory(Null) \/ \E r \in Requests : p \in Pending(r)
    <3>1. CASE Held(p)
      BY <3>1 DEF Held, Pending, Range
    <3>2. CASE AnnouncedAlready(p)
      <4>1. PICK k \in DOMAIN EventsFor("products") : EventsFor("products")[k].id = p
        BY <3>2 DEF AnnouncedAlready
      <4>2. p \in Indexed("products")
        BY <1>3, <2>0, <4>1, CaughtUp
      <4> QED BY <4>2 DEF SearchProductInventory
    <3> QED BY <1>3, <2>1, <3>1, <3>2 DEF Searchable, CreatedHeld
  <2>2. ASSUME NEW event \in Range(topics["product.created"]), event.isActive
        PROVE  /\ event.id \in SearchProduct(Null)
               /\ index["products"].mapping = "designed" => event.id \in SearchProduct(event.id)
    <3>1. PICK k \in DOMAIN EventsFor("products") : event = EventsFor("products")[k]
      BY DEF Range, EventsFor, TopicOf
    <3>2. /\ event \in Carried("products") /\ event.id \in Indexed("products")
          /\ index["products"].documents[event.id] = event
      BY <1>3, <2>0, <3>1, CaughtUp
    <3>3. "isActive" \in DOMAIN event /\ event.isActive = TRUE
      BY <2>2, <3>2, EventFields
    <3>4. Term("products", event.id, "isActive", TRUE)
      BY <3>2, <3>3 DEF Term
    <3> QED BY <3>2, <3>4 DEF SearchProduct, AllText
  <2>3. ASSUME NEW id \in OrderIds, orders[id].status # "none"
        PROVE  /\ id \in SearchOrders("all", Null)
               /\ index["orders"].mapping = "designed" => id \in SearchOrders("PENDING", Null)
    <3>1. PICK k \in DOMAIN EventsFor("orders") : EventsFor("orders")[k].id = id
      BY <1>3, <2>3 DEF Searchable, PlacedAnnounced
    <3> DEFINE event == EventsFor("orders")[k]
    <3>2. event \in Carried("orders") /\ id \in Indexed("orders") /\ index["orders"].documents[id] = event
      BY <1>3, <2>0, <3>1, CaughtUp
    <3> HIDE DEF event
    <3>3. /\ "userId" \in DOMAIN event /\ event.userId = 1
          /\ "status" \in DOMAIN event /\ event.status = "PENDING"
      BY <3>2, EventFields
    <3>4. Term("orders", id, "userId", 1) /\ Term("orders", id, "status", "PENDING")
      BY <3>2, <3>3 DEF Term
    <3> QED BY <3>2, <3>4 DEF SearchOrders, StatusTerm
  <2> QED BY <2>1, <2>2, <2>3
<1>4. Inv => SearchComplete
  BY <1>3 DEF SearchComplete
<1> QED BY <1>1, <1>2, <1>4, PTL DEF Spec
=============================================================================
