--------------------------- MODULE CheckoutProofs ---------------------------
(***************************************************************************)
(* What holds of the checkout for every number of requests and orders, any *)
(* carts and stock, and every bound: no client is told what is not so, and *)
(* payments and their outcomes stay within PaymentLedger.                  *)
(***************************************************************************)
EXTENDS Checkout, SumLemmas, SequenceTheorems, TLAPS

-----------------------------------------------------------------------------
(* What the gateway's error mapping makes of the errors of a checkout.     *)

(* A phrase of one rule alone gives that rule's status.                    *)
LEMMA OneHit ==
  ASSUME NEW phrase \in {"timeout", "connection"}
  PROVE  FirstMatch(StatusRules, {phrase}, 502) = 408
<1> DEFINE hits == {i \in DOMAIN StatusRules : StatusRules[i].phrases \cap {phrase} # {}}
<1>1. DOMAIN StatusRules = 1 .. 7
  BY DEF StatusRules
<1>2. \A i \in 1 .. 7 : phrase \in StatusRules[i].phrases <=> i = 4
  <2>1. /\ phrase \in StatusRules[4].phrases
        /\ phrase \notin StatusRules[1].phrases
        /\ phrase \notin StatusRules[2].phrases
    BY DEF StatusRules, Saying
  <2>2. phrase \notin StatusRules[3].phrases
    BY DEF StatusRules, Saying
  <2>3. phrase \notin StatusRules[5].phrases /\ phrase \notin StatusRules[6].phrases
    BY DEF StatusRules, Saying
  <2>4. phrase \notin StatusRules[7].phrases
    BY DEF StatusRules, Saying
  <2> QED BY <2>1, <2>2, <2>3, <2>4
<1>h. hits = {4}
  BY <1>1, <1>2
<1>3. Min(hits) = 4
  BY <1>h, Smallest
<1>4. StatusRules[4].gives = 408
  BY DEF StatusRules, Saying
<1> HIDE DEF hits
<1>5. FirstMatch(StatusRules, {phrase}, 502)
        = IF hits = {} THEN 502 ELSE StatusRules[Min(hits)].gives
  BY DEF FirstMatch, hits
<1> QED BY <1>h, <1>3, <1>4, <1>5

(* An error without codes or a name of its own gets its text's status.     *)
LEMMA StatusFromText ==
  ASSUME NEW name \in {"Error", "TimeoutError"}, NEW phrases,
         FirstMatch(StatusRules, phrases, 502) \in 100 .. 599
  PROVE  ErrorAnswer(Error(name, Says(phrases))) = FirstMatch(StatusRules, phrases, 502)
<1> DEFINE e == Error(name, Says(phrases))
<1>1. /\ e.response = <<>> /\ e.statusCode = 0 /\ e.status = 0
      /\ e.name = name /\ e.message.kind = "text" /\ e.message.ignoringCase = phrases
  BY DEF Error, Says
<1>2. name \notin DOMAIN StatusOfName
  BY DEF StatusOfName
<1> HIDE DEF e
<1>3. ExtractStatusCode(e) = FirstMatch(StatusRules, phrases, 502)
  BY <1>1, <1>2 DEF ExtractStatusCode
<1>4. HandleError(e) = [class |-> "HttpException", status |-> ExtractStatusCode(e),
                        says |-> ExtractErrorMessage(e)]
  BY <1>1 DEF HandleError
<1>5. Catch(HandleError(e)).status = ExtractStatusCode(e)
  BY <1>3, <1>4 DEF Catch
<1> QED BY <1>3, <1>5 DEF ErrorAnswer, e

(* An RpcException would be answered with the status its message has by    *)
(* the rules; whatever else is thrown, and whatever it says, is a 502.     *)
LEMMA StatusOfException ==
  ASSUME NEW class, NEW phrases, FirstMatch(StatusRules, phrases, 502) \in 100 .. 599
  PROVE  ErrorAnswer(OverGrpc(Exception(class, phrases))) =
           IF class = "RpcException" THEN FirstMatch(StatusRules, phrases, 502) ELSE 502
<1>1. FirstMatch(StatusRules, {}, 502) = 502
  BY DEF FirstMatch
<1>2. /\ Exception(class, phrases).class = class
      /\ Exception(class, phrases).message = Says(phrases)
  BY DEF Exception
<1>3. OverGrpc(Exception(class, phrases))
        = Error("Error", Says(IF class = "RpcException" THEN phrases ELSE {}))
  BY <1>2 DEF OverGrpc
<1>4. CASE class = "RpcException"
  BY <1>3, <1>4, StatusFromText
<1>5. CASE class # "RpcException"
  BY <1>1, <1>3, <1>5, StatusFromText
<1> QED BY <1>4, <1>5

(* The rules give a status of HTTP's, or the default.                      *)
LEMMA RulesGiveStatuses ==
  ASSUME NEW phrases
  PROVE  FirstMatch(StatusRules, phrases, 502) \in 100 .. 599
<1> DEFINE hits == {i \in DOMAIN StatusRules : StatusRules[i].phrases \cap phrases # {}}
<1>1. DOMAIN StatusRules = 1 .. 7
  BY DEF StatusRules
<1>2. /\ StatusRules[1].gives = 409 /\ StatusRules[2].gives = 404 /\ StatusRules[3].gives = 400
      /\ StatusRules[4].gives = 408 /\ StatusRules[5].gives = 401 /\ StatusRules[6].gives = 403
      /\ StatusRules[7].gives = 422
  BY DEF StatusRules, Saying
<1>3. ASSUME hits # {} PROVE Min(hits) \in 1 .. 7
  <2>1. hits \subseteq 1 .. 7
    BY <1>1
  <2> HIDE DEF hits
  <2>2. hits # {} /\ \A x \in hits : x \in Nat
    BY <1>3, <2>1
  <2>3. Min(hits) \in hits
    BY <2>2, Smallest
  <2> QED BY <2>1, <2>3
<1>4. \A i \in 1 .. 7 : StatusRules[i].gives \in 100 .. 599
  BY <1>2
<1>5. FirstMatch(StatusRules, phrases, 502) = IF hits = {} THEN 502 ELSE StatusRules[Min(hits)].gives
  BY DEF FirstMatch
<1> HIDE DEF hits
<1> QED BY <1>3, <1>4, <1>5

(* No service throws an RpcException, so the client reads 502 whichever it *)
(* is that fails, and however: an order without a draft, a duplicate sku   *)
(* or user name, a product that is not there, a database that does not     *)
(* answer.  Were the same message an RpcException's, it would be read.     *)
THEOREM ExceptionsAreHidden ==
  \A service \in DOMAIN Thrown : \A e \in Thrown[service] :
    /\ ErrorAnswer(OverGrpc(e)) = 502
    /\ ErrorAnswer(OverGrpc([e EXCEPT !.class = "RpcException"]))
         = FirstMatch(StatusRules, e.message.says, 502)
<1>1. ASSUME NEW class, NEW phrases, class # "RpcException"
      PROVE  LET e == Exception(class, phrases)
             IN  /\ ErrorAnswer(OverGrpc(e)) = 502
                 /\ ErrorAnswer(OverGrpc([e EXCEPT !.class = "RpcException"]))
                      = FirstMatch(StatusRules, e.message.says, 502)
  <2>1. [Exception(class, phrases) EXCEPT !.class = "RpcException"]
          = Exception("RpcException", phrases)
    BY DEF Exception
  <2>2. Exception(class, phrases).message.says = phrases
    BY DEF Exception, Says
  <2>3. ErrorAnswer(OverGrpc(Exception(class, phrases))) = 502
    BY <1>1, RulesGiveStatuses, StatusOfException
  <2>4. ErrorAnswer(OverGrpc(Exception("RpcException", phrases)))
          = FirstMatch(StatusRules, phrases, 502)
    BY RulesGiveStatuses, StatusOfException
  <2> QED BY <2>1, <2>2, <2>3, <2>4
<1>2. ASSUME NEW service \in DOMAIN Thrown, NEW e \in Thrown[service]
      PROVE  \E class, phrases : class # "RpcException" /\ e = Exception(class, phrases)
  <2>1. \A x \in PrismaErrors :
          \E class, phrases : class # "RpcException" /\ x = Exception(class, phrases)
    BY DEF PrismaErrors
  <2>2. service \in {"order", "payment", "inventory", "user", "product", "search", "storage"}
    BY <1>2 DEF Thrown
  <2>3. \/ e \in PrismaErrors
        \/ \E class \in {"Error", "NotFoundException", "MongoServerError", "ValidationError"} :
             \E phrases : e = Exception(class, phrases)
    <3>1. /\ Thrown["order"] = PrismaErrors \cup {Exception("Error", {"not found"})}
          /\ Thrown["payment"] = PrismaErrors \cup {Exception("Error", {"connection"})}
          /\ Thrown["inventory"] = PrismaErrors \cup {Exception("Error", {})}
          /\ Thrown["user"] = PrismaErrors
      BY DEF Thrown
    <3>2. /\ Thrown["product"] =
               {Exception("NotFoundException", {"not found"}), Exception("NotFoundException", {}),
                Exception("MongoServerError", {"duplicate"}),
                Exception("ValidationError", {"validation", "required"})}
          /\ Thrown["search"] = {Exception("Error", {})}
          /\ Thrown["storage"] = {Exception("Error", {})}
      BY DEF Thrown
    <3> HIDE DEF Thrown
    <3>3. CASE service \in {"order", "payment", "inventory", "user"}
      BY <1>2, <3>1, <3>3
    <3>4. CASE service \in {"product", "search", "storage"}
      BY <1>2, <3>2, <3>4
    <3> QED BY <2>2, <3>3, <3>4
  <2> QED BY <2>1, <2>3
<1> QED BY <1>1, <1>2

(* What a checkout or a payment request that failed reads.                 *)
LEMMA FailureAnswers ==
  /\ \A thrown \in Thrown.inventory : ErrorAnswer(OverGrpc(thrown)) = 502
  /\ \A thrown \in Thrown.order : ErrorAnswer(OverGrpc(thrown)) = 502
  /\ \A thrown \in Thrown.payment : ErrorAnswer(OverGrpc(thrown)) = 502
<1>1. {"inventory", "order", "payment"} \subseteq DOMAIN Thrown
  BY DEF Thrown
<1> QED BY <1>1, ExceptionsAreHidden

(* The answers of the routes that take part in a checkout.                 *)
LEMMA Answers ==
  /\ ErrorAnswer(TimedOut) = 408
  /\ ErrorAnswer(Unavailable) = 408
  /\ ErrorAnswer(OutOfStock) = 400
  /\ Created(<<"order", "checkout">>) = 201
  /\ \A route \in DOMAIN PaymentVerbs : Created(<<"payment", route>>) = 201
<1>1. ErrorAnswer(TimedOut) = 408 /\ ErrorAnswer(Unavailable) = 408
  BY OneHit, StatusFromText DEF TimedOut, Unavailable
<1>2. ErrorAnswer(OutOfStock) = 400
  BY DEF ErrorAnswer, Catch, HandleError, OutOfStock, Error, Says, ExtractStatusCode
<1>3. Created(<<"order", "checkout">>) = 201
  BY DEF Created, Verbs, OrderVerbs
<1>4. \A route \in DOMAIN PaymentVerbs : Created(<<"payment", route>>) = 201
  BY DEF Created, Verbs, PaymentVerbs
<1> QED BY <1>1, <1>2, <1>3, <1>4

-----------------------------------------------------------------------------
(* The inductive invariant.                                                *)

(* Where the gateway is with a checkout bounds where the services are.     *)
InStep(r) ==
  /\ DOMAIN r = {"gateway", "inventory", "orderService", "asked", "order", "answer"}
  /\ r.gateway = "new" => r.inventory = "idle"
  /\ r.gateway \in {"new", "reserving"} => r.orderService = "idle"
  /\ r.gateway # "answered" => r.answer = 0
  /\ r.orderService = "found" => r.order \in OrderIds
  /\ r.answer = 201 => r.orderService = "placed"
  /\ r.answer = 400 => r.inventory = "refused"
  /\ r.answer = 502 => r.orderService \in {"idle", "failed", "silent"}

(* A payment request past its read has a payment to work on, and after its *)
(* commit a settled one.                                                   *)
Settled == {"SUCCESS", "FAILED", "EXPIRED"}
HasPayment(r) ==
  /\ DOMAIN r = {"pc", "route", "order", "read", "answer"}
  /\ r.pc # "idle" => r.order \in OrderIds /\ r.route \in DOMAIN PaymentVerbs
  /\ r.pc = "idle" => r.answer = 0
  /\ r.pc = "commit" => payments[r.order] # "none"
  /\ r.pc = "unschedule" => payments[r.order] \in Settled
  /\ r.answer = 201 => r.read = "none" \/ payments[r.order] \in Settled

IInv ==
  /\ attempts = [a \in Attempts |-> attempts[a]]
  /\ \A a \in Attempts : InStep(attempts[a])
  /\ payers = [p \in Payers |-> payers[p]]
  /\ \A p \in Payers : HasPayment(payers[p])
  /\ payments \in [OrderIds -> Statuses]
  /\ DOMAIN topics = {"checkout", "canceled", "failed"}
  /\ topics.checkout \in Seq(OrderIds)

-----------------------------------------------------------------------------
(* The steps for one checkout leave it in step, and touch no other.        *)
LEMMA CheckoutSteps ==
  ASSUME IInv, NEW a \in Attempts,
         \/ \E units \in Quantities : AskReservation(a, units)
         \/ GatewayStep(a)
         \/ GiveUp(a)
         \/ ServiceStep(a)
  PROVE  /\ attempts' = [attempts EXCEPT ![a] = attempts'[a]]
         /\ InStep(attempts'[a])
<1>0. a \in DOMAIN attempts /\ attempts = [b \in Attempts |-> attempts[b]] /\ InStep(attempts[a])
  BY DEF IInv
<1>1. ASSUME NEW units \in Quantities, AskReservation(a, units)
      PROVE  attempts' = [attempts EXCEPT ![a] = attempts'[a]] /\ InStep(attempts'[a])
  <2>1. attempts' = [attempts EXCEPT ![a] = attempts'[a]]
    BY <1>0, <1>1 DEF AskReservation
  <2>2. /\ DOMAIN attempts'[a] = DOMAIN attempts[a]
        /\ attempts'[a].gateway = "reserving"
        /\ attempts'[a].orderService = attempts[a].orderService
        /\ attempts'[a].answer = attempts[a].answer
    BY <1>0, <1>1 DEF AskReservation, InStep
  <2>3. attempts[a].answer = 0 /\ attempts[a].orderService = "idle"
    BY <1>0, <1>1 DEF AskReservation, InStep
  <2>4. InStep(attempts'[a])
    BY <1>0, <2>2, <2>3 DEF InStep
  <2> QED BY <2>1, <2>4
<1>2. CASE AskOrder(a)
  <2>1. attempts' = [attempts EXCEPT ![a] = attempts'[a]]
    BY <1>0, <1>2 DEF AskOrder
  <2>2. /\ DOMAIN attempts'[a] = DOMAIN attempts[a]
        /\ attempts'[a].gateway = "ordering"
        /\ attempts'[a].orderService = "asked"
        /\ attempts'[a].answer = attempts[a].answer
    BY <1>0, <1>2 DEF AskOrder, InStep
  <2>3. InStep(attempts'[a])
    BY <1>0, <1>2, <2>2 DEF AskOrder, InStep
  <2> QED BY <2>1, <2>3
<1>3. ASSUME NEW status \in {201, 400, 408, 502}, Answer(a, status),
             status = 201 => attempts[a].orderService = "placed",
             status = 400 => attempts[a].inventory = "refused",
             status = 502 => attempts[a].orderService \in {"idle", "failed", "silent"},
             attempts[a].gateway \in {"reserving", "ordering"}
      PROVE  attempts' = [attempts EXCEPT ![a] = attempts'[a]] /\ InStep(attempts'[a])
  <2>1. attempts' = [attempts EXCEPT ![a] = attempts'[a]]
    BY <1>0, <1>3 DEF Answer
  <2>2. InStep(attempts'[a])
    BY <1>0, <1>3 DEF Answer, InStep
  <2> QED BY <2>1, <2>2
<1>4. CASE Refuse(a) \/ Confirm(a) \/ GiveUp(a)
  BY <1>0, <1>3, <1>4, Answers, FailureAnswers DEF Refuse, Confirm, GiveUp, InStep
<1>5. CASE Reserve(a) \/ RefuseReservation(a)
  <2>1. attempts' = [attempts EXCEPT ![a] = attempts'[a]]
    BY <1>0, <1>5 DEF Reserve, RefuseReservation
  <2>2. InStep(attempts'[a])
    BY <1>0, <1>5 DEF Reserve, RefuseReservation, InStep
  <2> QED BY <2>1, <2>2
<1>6. CASE FindDraft(a)
  <2>1. attempts' = [attempts EXCEPT ![a] = attempts'[a]]
    BY <1>0, <1>6 DEF FindDraft
  <2>2. /\ DOMAIN attempts'[a] = DOMAIN attempts[a]
        /\ attempts'[a].gateway = attempts[a].gateway
        /\ attempts'[a].inventory = attempts[a].inventory
        /\ attempts'[a].orderService = "found"
        /\ attempts'[a].order \in OrderIds
        /\ attempts'[a].answer = attempts[a].answer
    <3>1. PICK id \in OrderIds :
            attempts' = [attempts EXCEPT ![a].orderService = "found", ![a].order = id]
      BY <1>6 DEF FindDraft, Drafts
    <3> QED BY <1>0, <3>1 DEF InStep
  <2>3. InStep(attempts'[a])
    BY <1>0, <1>6, <2>2 DEF FindDraft, InStep
  <2> QED BY <2>1, <2>3
<1>7. CASE NoDraft(a) \/ PlaceOrder(a)
  <2>1. attempts' = [attempts EXCEPT ![a] = attempts'[a]]
    BY <1>0, <1>7 DEF NoDraft, PlaceOrder
  <2>2. CASE NoDraft(a)
    BY <1>0, <2>2 DEF NoDraft, InStep
  <2>3. CASE PlaceOrder(a)
    BY <1>0, <2>3 DEF PlaceOrder, InStep
  <2> QED BY <1>7, <2>1, <2>2, <2>3
<1>8. CASE RollBack(a)
  <2>1. attempts' = [attempts EXCEPT ![a] = attempts'[a]]
    BY <1>0, <1>8 DEF RollBack
  <2>2. InStep(attempts'[a])
    BY <1>0, <1>8 DEF RollBack, InStep
  <2> QED BY <2>1, <2>2
<1>9. CASE ReportFails(a)
  <2>1. attempts' = [attempts EXCEPT ![a] = attempts'[a]]
    BY <1>0, <1>9 DEF ReportFails
  <2>2. InStep(attempts'[a])
    BY <1>0, <1>9 DEF ReportFails, InStep
  <2> QED BY <2>1, <2>2
<1> QED
  BY <1>1, <1>2, <1>4, <1>5, <1>6, <1>7, <1>8, <1>9 DEF GatewayStep, ServiceStep

-----------------------------------------------------------------------------
(* What a step does to payments and payment requests.                      *)

(* No step takes a payment back to "none", or a settled one out of it.     *)
LEMMA PaymentsOnlyGrow ==
  ASSUME IInv, NEW id \in OrderIds, NEW outcome \in Settled, Announce(id, outcome)
  PROVE  /\ payments' \in [OrderIds -> Statuses]
         /\ \A o \in OrderIds : payments[o] # "none" => payments'[o] # "none"
         /\ \A o \in OrderIds : payments[o] \in Settled => payments'[o] \in Settled
         /\ payments'[id] \in Settled
BY DEF IInv, Announce, Settled, Statuses

(* A request answered, or on its way, keeps what it relies on while        *)
(* payments only grow.                                                     *)
LEMMA RequestsUntouched ==
  ASSUME IInv, UNCHANGED payers,
         \A o \in OrderIds : payments[o] # "none" => payments'[o] # "none",
         \A o \in OrderIds : payments[o] \in Settled => payments'[o] \in Settled,
         NEW p \in Payers
  PROVE  HasPayment(payers[p])'
<1>1. HasPayment(payers[p])
  BY DEF IInv
<1>2. CASE payers[p].pc = "idle"
  BY <1>1, <1>2 DEF HasPayment
<1>3. CASE payers[p].pc # "idle"
  BY <1>1, <1>3 DEF HasPayment
<1> QED BY <1>2, <1>3

(* A payment request keeps its part, and touches no other request.         *)
LEMMA PayerSteps ==
  ASSUME IInv, NEW p \in Payers,
         \/ \E route \in DOMAIN PaymentVerbs, id \in OrderIds : ReadPayment(p, route, id)
         \/ PayerStep(p)
  PROVE  /\ payers' = [payers EXCEPT ![p] = payers'[p]]
         /\ HasPayment(payers[p])'
         /\ payments' \in [OrderIds -> Statuses]
         /\ \A o \in OrderIds : payments[o] # "none" => payments'[o] # "none"
         /\ \A o \in OrderIds : payments[o] \in Settled => payments'[o] \in Settled
<1>0. /\ p \in DOMAIN payers /\ payers = [q \in Payers |-> payers[q]] /\ HasPayment(payers[p])
      /\ payments \in [OrderIds -> Statuses]
  BY DEF IInv
<1>1. ASSUME NEW route \in DOMAIN PaymentVerbs, NEW id \in OrderIds, ReadPayment(p, route, id)
      PROVE  payers' = [payers EXCEPT ![p] = payers'[p]] /\ HasPayment(payers[p])'
  <2>1. payers' = [payers EXCEPT ![p] = payers'[p]]
    BY <1>0, <1>1 DEF ReadPayment
  <2>2. payments' = payments
    BY <1>1 DEF ReadPayment
  <2>3. CASE payments[id] = "PENDING"
    <3>1. payers'[p] = [pc |-> "commit", route |-> route, order |-> id, read |-> "PENDING", answer |-> 0]
      BY <1>0, <1>1, <2>3 DEF ReadPayment
    <3>2. HasPayment(payers[p])'
      BY <2>2, <2>3, <3>1 DEF HasPayment
    <3> QED BY <2>1, <3>2
  <2>4. CASE payments[id] # "PENDING"
    <3>1. payers'[p] = [pc |-> "answered", route |-> route, order |-> id, read |-> payments[id],
                        answer |-> 201]
      BY <1>0, <1>1, <2>4, Answers DEF ReadPayment
    <3>2. payments[id] = "none" \/ payments[id] \in Settled
      BY <1>0, <2>4 DEF Statuses, Settled
    <3>3. HasPayment(payers[p])'
      BY <2>2, <3>1, <3>2 DEF HasPayment
    <3> QED BY <2>1, <3>3
  <2> QED BY <2>3, <2>4
<1>2. CASE CommitPayment(p)
  <2> DEFINE id == payers[p].order
  <2>1. OutcomeOf(payers[p].route) \in Settled /\ id \in OrderIds
    BY <1>0, <1>2 DEF CommitPayment, OutcomeOf, Settled, HasPayment
  <2>2. payers' = [payers EXCEPT ![p] = payers'[p]]
    BY <1>0, <1>2 DEF CommitPayment
  <2>3. /\ DOMAIN payers'[p] = DOMAIN payers[p]
        /\ payers'[p].pc = "unschedule"
        /\ payers'[p].order = payers[p].order
        /\ payers'[p].route = payers[p].route
        /\ payers'[p].read = payers[p].read
        /\ payers'[p].answer = payers[p].answer
    BY <1>0, <1>2 DEF CommitPayment, HasPayment
  <2>4. Announce(id, OutcomeOf(payers[p].route))
    BY <1>2 DEF CommitPayment
  <2>5. payments'[id] \in Settled
    BY <2>1, <2>4, PaymentsOnlyGrow
  <2>6. HasPayment(payers[p])'
    BY <1>0, <1>2, <2>1, <2>3, <2>5 DEF CommitPayment, HasPayment
  <2> QED BY <2>1, <2>2, <2>4, <2>6, PaymentsOnlyGrow
<1>3. CASE AnswerPayer(p) \/ PayerFails(p)
  <2>1. payers' = [payers EXCEPT ![p] = payers'[p]] /\ payments' = payments
    BY <1>0, <1>3 DEF AnswerPayer, PayerFails
  <2>2. PICK status \in {201, 502} :
          /\ payers' = [payers EXCEPT ![p].pc = "answered", ![p].answer = status]
          /\ status = 201 => payers[p].pc = "unschedule"
    <3>1. CASE AnswerPayer(p)
      <4>1. payers[p].route \in DOMAIN PaymentVerbs
        BY <1>0, <3>1 DEF AnswerPayer, HasPayment
      <4>2. Created(<<"payment", payers[p].route>>) = 201
        BY <4>1, Answers
      <4>3. payers' = [payers EXCEPT ![p].pc = "answered", ![p].answer = 201]
        BY <3>1, <4>2 DEF AnswerPayer
      <4> QED BY <3>1, <4>3 DEF AnswerPayer
    <3>2. CASE PayerFails(p)
      <4>1. payers' = [payers EXCEPT ![p].pc = "answered", ![p].answer = 502]
        BY <3>2, FailureAnswers DEF PayerFails
      <4> QED BY <4>1
    <3> QED BY <1>3, <3>1, <3>2
  <2>3. /\ DOMAIN payers'[p] = DOMAIN payers[p]
        /\ payers'[p].pc = "answered"
        /\ payers'[p].order = payers[p].order
        /\ payers'[p].route = payers[p].route
        /\ payers'[p].answer = status
    BY <1>0, <2>2 DEF HasPayment
  <2>4. payers[p].pc # "idle"
    BY <1>3 DEF AnswerPayer, PayerFails
  <2>5. HasPayment(payers[p])'
    BY <1>0, <2>1, <2>2, <2>3, <2>4 DEF HasPayment
  <2> QED BY <1>0, <2>1, <2>5
<1>4. ASSUME NEW route \in DOMAIN PaymentVerbs, NEW id \in OrderIds, ReadPayment(p, route, id)
      PROVE  payments' = payments
  BY <1>4 DEF ReadPayment
<1> QED BY <1>0, <1>1, <1>2, <1>3, <1>4 DEF PayerStep

-----------------------------------------------------------------------------
(* Everything else a step may be: a consumer's, or a timer's.              *)
ConsumerStep ==
  \/ ReleaseFailed
  \/ ReleaseCanceled
  \/ \E t \in Outcomes : HandleOutcome(t)
  \/ CreatePayment
  \/ \E id \in OrderIds : Expire(id)

(* A consumer or a timer touches no request, and payments only move on.    *)
LEMMA ConsumerSteps ==
  ASSUME IInv, ConsumerStep
  PROVE  /\ UNCHANGED <<attempts, payers>>
         /\ payments' \in [OrderIds -> Statuses]
         /\ \A o \in OrderIds : payments[o] # "none" => payments'[o] # "none"
         /\ \A o \in OrderIds : payments[o] \in Settled => payments'[o] \in Settled
<1>1. CASE ReleaseFailed \/ ReleaseCanceled \/ \E t \in Outcomes : HandleOutcome(t)
  BY <1>1
  DEF ReleaseFailed, ReleaseCanceled, Release, HandleOutcome, InventoryUnchanged, OrderUnchanged, IInv
<1>2. CASE CreatePayment
  BY <1>2 DEF CreatePayment, PaymentUnchanged, IInv, Statuses, Settled
<1>3. ASSUME NEW id \in OrderIds, Expire(id)
      PROVE  /\ UNCHANGED <<attempts, payers>>
             /\ payments' \in [OrderIds -> Statuses]
             /\ \A o \in OrderIds : payments[o] # "none" => payments'[o] # "none"
             /\ \A o \in OrderIds : payments[o] \in Settled => payments'[o] \in Settled
  <2>1. Announce(id, "EXPIRED") /\ UNCHANGED <<attempts, payers>>
    BY <1>3 DEF Expire, PaymentUnchanged
  <2>2. "EXPIRED" \in Settled
    BY DEF Settled
  <2> QED BY <2>1, <2>2, PaymentsOnlyGrow
<1> QED BY <1>1, <1>2, <1>3 DEF ConsumerStep

(* order.checkout holds ids of orders.                                     *)
LEMMA CheckoutTopic ==
  ASSUME IInv, [Next]_vars
  PROVE  /\ DOMAIN topics' = DOMAIN topics
         /\ topics'.checkout \in Seq(OrderIds)
<1> DEFINE Kept == DOMAIN topics' = DOMAIN topics /\ topics'.checkout \in Seq(OrderIds)
<1>0. DOMAIN topics = {"checkout", "canceled", "failed"} /\ topics.checkout \in Seq(OrderIds)
  BY DEF IInv
<1>1. CASE UNCHANGED topics
  BY <1>0, <1>1
<1>2. CASE \E t \in {"canceled", "failed"} : \E messages : topics' = [topics EXCEPT ![t] = messages]
  BY <1>0, <1>2
<1>3. ASSUME NEW a \in Attempts, PlaceOrder(a) PROVE Kept
  <2>1. attempts[a].order \in OrderIds
    BY <1>3 DEF PlaceOrder, IInv, InStep
  <2>2. Append(topics.checkout, attempts[a].order) \in Seq(OrderIds)
    BY <1>0, <2>1, AppendProperties
  <2> QED BY <1>0, <1>3, <2>2 DEF PlaceOrder
<1>4. CASE CreatePayment
  <2>1. Tail(topics.checkout) \in Seq(OrderIds)
    BY <1>0, <1>4, HeadTailProperties DEF CreatePayment
  <2> QED BY <1>0, <1>4, <2>1 DEF CreatePayment
<1>5. CASE ReleaseFailed \/ ReleaseCanceled \/ \E t \in Outcomes : HandleOutcome(t)
  BY <1>1, <1>2, <1>5 DEF ReleaseFailed, ReleaseCanceled, Release, HandleOutcome
<1>6. ASSUME NEW a \in Attempts, NoDraft(a) \/ RollBack(a) PROVE Kept
  BY <1>2, <1>6 DEF NoDraft, RollBack
<1>7. ASSUME NEW a \in Attempts,
             \/ \E units \in Quantities : AskReservation(a, units)
             \/ AskOrder(a) \/ Refuse(a) \/ Confirm(a) \/ GiveUp(a)
             \/ Reserve(a) \/ RefuseReservation(a) \/ FindDraft(a) \/ ReportFails(a)
      PROVE  Kept
  BY <1>1, <1>7
  DEF AskReservation, AskOrder, Refuse, Confirm, GiveUp, Reserve, RefuseReservation, FindDraft,
      ReportFails, GatewayUnchanged
<1>8. ASSUME NEW p \in Payers,
             \/ \E route \in DOMAIN PaymentVerbs, id \in OrderIds : ReadPayment(p, route, id)
             \/ PayerStep(p)
      PROVE  Kept
  BY <1>1, <1>8 DEF ReadPayment, PayerStep, CommitPayment, AnswerPayer, PayerFails
<1>9. ASSUME NEW id \in OrderIds, Expire(id) PROVE Kept
  BY <1>1, <1>9 DEF Expire
<1>10. CASE UNCHANGED vars
  BY <1>1, <1>10 DEF vars
<1> QED
  BY <1>3, <1>4, <1>5, <1>6, <1>7, <1>8, <1>9, <1>10 DEF Next, GatewayStep, ServiceStep

-----------------------------------------------------------------------------
(* The invariant holds at the start.                                       *)
LEMMA IInvInit == Init => IInv
<1> SUFFICES ASSUME Init PROVE IInv
  OBVIOUS
<1>1. \A a \in Attempts : InStep(attempts[a])
  BY DEF Init, InStep, Fresh
<1>2. \A p \in Payers : HasPayment(payers[p])
  BY DEF Init, HasPayment, Idle
<1>3. DOMAIN topics = {"checkout", "canceled", "failed"} /\ topics.checkout \in Seq(OrderIds)
  BY DEF Init
<1> QED BY <1>1, <1>2, <1>3 DEF Init, IInv, Statuses

(* Every step keeps the invariant.                                         *)
LEMMA IInvNext == IInv /\ [Next]_vars => IInv'
<1> SUFFICES ASSUME IInv, [Next]_vars PROVE IInv'
  OBVIOUS
<1>h. /\ attempts = [a \in Attempts |-> attempts[a]] /\ \A a \in Attempts : InStep(attempts[a])
      /\ payers = [p \in Payers |-> payers[p]] /\ \A p \in Payers : HasPayment(payers[p])
      /\ payments \in [OrderIds -> Statuses]
  BY DEF IInv
<1>t. /\ DOMAIN topics' = {"checkout", "canceled", "failed"}
      /\ topics'.checkout \in Seq(OrderIds)
  BY CheckoutTopic DEF IInv
<1>1. ASSUME NEW a \in Attempts,
             \/ \E units \in Quantities : AskReservation(a, units)
             \/ GatewayStep(a)
             \/ GiveUp(a)
             \/ ServiceStep(a)
      PROVE  IInv'
  <2>1. UNCHANGED <<payers, payments>>
    BY <1>1
    DEF AskReservation, GatewayStep, AskOrder, Refuse, Confirm, GiveUp, GatewayUnchanged,
        ServiceStep, Reserve, RefuseReservation, InventoryUnchanged,
        FindDraft, NoDraft, PlaceOrder, RollBack, ReportFails, OrderUnchanged
  <2>2. attempts' = [attempts EXCEPT ![a] = attempts'[a]] /\ InStep(attempts'[a])
    BY <1>1, CheckoutSteps
  <2>3. /\ attempts' = [b \in Attempts |-> attempts'[b]]
        /\ \A b \in Attempts : InStep(attempts'[b])
    BY <1>h, <2>2
  <2>4. \A p \in Payers : HasPayment(payers[p])'
    BY <2>1, RequestsUntouched
  <2> QED BY <1>h, <1>t, <2>1, <2>3, <2>4 DEF IInv
<1>2. ASSUME NEW p \in Payers,
             \/ \E route \in DOMAIN PaymentVerbs, id \in OrderIds : ReadPayment(p, route, id)
             \/ PayerStep(p)
      PROVE  IInv'
  <2>1. UNCHANGED attempts
    BY <1>2 DEF ReadPayment, PayerStep, CommitPayment, AnswerPayer, PayerFails, PaymentUnchanged
  <2>2. /\ payers' = [payers EXCEPT ![p] = payers'[p]]
        /\ HasPayment(payers[p])'
        /\ payments' \in [OrderIds -> Statuses]
        /\ \A o \in OrderIds : payments[o] # "none" => payments'[o] # "none"
        /\ \A o \in OrderIds : payments[o] \in Settled => payments'[o] \in Settled
    BY <1>2, PayerSteps
  <2>3. payers' = [q \in Payers |-> payers'[q]]
    BY <1>h, <2>2
  <2>4. ASSUME NEW q \in Payers, q # p PROVE HasPayment(payers[q])'
    <3>1. payers'[q] = payers[q] /\ HasPayment(payers[q])
      BY <1>h, <2>2, <2>4
    <3>2. CASE payers[q].pc = "idle"
      BY <3>1, <3>2 DEF HasPayment
    <3>3. CASE payers[q].pc # "idle"
      BY <2>2, <3>1, <3>3 DEF HasPayment
    <3> QED BY <3>2, <3>3
  <2>5. \A q \in Payers : HasPayment(payers[q])'
    BY <2>2, <2>4
  <2> QED BY <1>h, <1>t, <2>1, <2>2, <2>3, <2>5 DEF IInv
<1>3. CASE ConsumerStep
  <2>1. \A p \in Payers : HasPayment(payers[p])'
    BY <1>3, ConsumerSteps, RequestsUntouched
  <2> QED BY <1>3, <1>h, <1>t, <2>1, ConsumerSteps DEF IInv
<1>4. CASE UNCHANGED vars
  <2>1. \A p \in Payers : HasPayment(payers[p])'
    BY <1>4, RequestsUntouched DEF vars
  <2> QED BY <1>4, <1>h, <1>t, <2>1 DEF vars, IInv
<1> QED BY <1>1, <1>2, <1>3, <1>4 DEF Next, ConsumerStep

(* The invariant holds in every reachable state.                           *)
LEMMA Invariant == Spec => []IInv
BY IInvInit, IInvNext, PTL DEF Spec

(* Whatever the interleaving, a client that is answered 201, 400 or 502 is *)
(* told what became of its checkout.                                       *)
THEOREM Truthful == Spec => []AnswersAreTrue
<1>1. IInv => AnswersAreTrue
  BY DEF IInv, InStep, AnswersAreTrue
<1> QED BY <1>1, Invariant, PTL

(* A payer that is answered 201 has a settled payment, or came too early.  *)
THEOREM PaidIsSettled == Spec => []SettledWhenAnswered
<1>1. IInv => SettledWhenAnswered
  BY DEF IInv, HasPayment, Settled, SettledWhenAnswered
<1> QED BY <1>1, Invariant, PTL

(* The payments and the outbox of the saga are a PaymentLedger.            *)
THEOREM SagaIsLedger == Spec => SagaRefinesLedger
<1>1. Init => Ledger!LedgerInit
  BY DEF Init, Ledger!LedgerInit
<1>2. IInv /\ [Next]_vars => [Ledger!LedgerNext]_(Ledger!ledgerVars)
  <2> SUFFICES ASSUME IInv, [Next]_vars
               PROVE  Ledger!LedgerNext \/ UNCHANGED <<payments, ledger>>
    BY DEF Ledger!ledgerVars
  <2>1. CASE CreatePayment
    <3>1. PICK id \in OrderIds : id = Head(topics.checkout)
      BY <2>1, HeadTailProperties DEF CreatePayment, IInv
    <3>2. Ledger!Open(id)
      BY <2>1, <3>1 DEF CreatePayment, Ledger!Open
    <3> QED BY <3>2 DEF Ledger!LedgerNext
  <2>2. ASSUME NEW p \in Payers, CommitPayment(p) PROVE Ledger!LedgerNext
    <3>1. PICK id \in OrderIds : id = payers[p].order /\ payments[id] # "none"
      BY <2>2 DEF CommitPayment, IInv, HasPayment
    <3>2. Ledger!Settle(id, OutcomeOf(payers[p].route))
      BY <2>2, <3>1 DEF CommitPayment, Announce, Ledger!Settle
    <3>3. OutcomeOf(payers[p].route) \in {"SUCCESS", "FAILED"}
      BY DEF OutcomeOf
    <3> QED BY <3>2, <3>3 DEF Ledger!LedgerNext
  <2>3. ASSUME NEW id \in OrderIds, Expire(id) PROVE Ledger!LedgerNext
    <3>1. Ledger!Lapse(id)
      BY <2>3 DEF Expire, Announce, Ledger!Lapse
    <3> QED BY <3>1 DEF Ledger!LedgerNext
  <2>4. CASE \/ \E a \in Attempts : \/ \E units \in Quantities : AskReservation(a, units)
                                   \/ GatewayStep(a) \/ GiveUp(a) \/ ServiceStep(a)
             \/ ReleaseFailed \/ ReleaseCanceled \/ \E t \in Outcomes : HandleOutcome(t)
             \/ \E p \in Payers :
                  \/ \E route \in DOMAIN PaymentVerbs, id \in OrderIds : ReadPayment(p, route, id)
                  \/ AnswerPayer(p) \/ PayerFails(p)
             \/ UNCHANGED vars
    BY <2>4
    DEF AskReservation, GatewayStep, AskOrder, Refuse, Confirm, GiveUp, GatewayUnchanged,
        ServiceStep, Reserve, RefuseReservation, InventoryUnchanged, FindDraft, NoDraft, PlaceOrder,
        RollBack, ReportFails, OrderUnchanged, ReleaseFailed, ReleaseCanceled, Release, HandleOutcome,
        ReadPayment, AnswerPayer, PayerFails, vars
  <2> QED BY <2>1, <2>2, <2>3, <2>4 DEF Next, PayerStep
<1> QED BY <1>1, <1>2, Invariant, PTL DEF Spec, SagaRefinesLedger, Ledger!LedgerSpec
=============================================================================
