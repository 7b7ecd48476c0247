------------------------------ MODULE Gateway ------------------------------
(***************************************************************************)
(* The API gateway, which keeps no state: the calls each of its routes     *)
(* makes, and what becomes of an error on its way to the client.  Every    *)
(* handler has one shape: wait at most ten seconds for each call, return   *)
(* the reply, hand whatever is thrown to MicroserviceErrorHandler, whose   *)
(* HttpException HttpExceptionFilter answers with.                         *)
(***************************************************************************)
EXTENDS Integers, FiniteSets, FiniteSetsExt

None == "none"

-----------------------------------------------------------------------------
(* The routes, by controller and method: the verb that decides the status  *)
(* of a success, the remote calls in their order, and what is returned of  *)
(* the last reply: all of it, or a message of the gateway's own and an id. *)

OrderVerbs == [checkout |-> "POST", createOrder |-> "POST", updateOrder |-> "PUT",
               getOrderById |-> "GET", syncOrder |-> "POST", getOrderDraft |-> "GET"]
PaymentVerbs == [paymentSuccess |-> "POST", paymentByCash |-> "POST", paymentCancel |-> "POST"]
ProductVerbs == [createProduct |-> "POST", createManyProduct |-> "POST", findOneProduct |-> "GET",
                 updateProduct |-> "PATCH", updatePrice |-> "PATCH",
                 createBrand |-> "POST", createCategory |-> "POST"]
SearchVerbs == [searchProducts |-> "GET", searchProductsInventory |-> "GET", searchOrders |-> "GET"]
UserVerbs == [getAllUsers |-> "GET", register |-> "POST", login |-> "POST", getUserInfo |-> "GET"]
StorageVerbs == [getCloudfrontUrl |-> "GET"]
InventoryVerbs == [restockInventory |-> "POST"]

Whole(rpc) == [rpcs |-> <<rpc>>, returns |-> "reply"]
IdOf(rpcs) == [rpcs |-> rpcs, returns |-> "orderId"]

OrderCalls ==
  [checkout |-> IdOf(<<"reserveStockInventory", "orderCheckout">>),
   createOrder |-> IdOf(<<"createOrder">>), updateOrder |-> IdOf(<<"updateOrder">>),
   syncOrder |-> IdOf(<<"syncOrder">>),
   getOrderById |-> Whole("getOrderById"), getOrderDraft |-> Whole("getOrderDraft")]
(* Cash is taken for paid at once.                                         *)
PaymentCalls ==
  [paymentSuccess |-> Whole("paymentSuccessed"), paymentByCash |-> Whole("paymentSuccessed"),
   paymentCancel |-> Whole("paymentCanceled")]
ProductCalls ==
  [createProduct |-> Whole("createProduct"), createManyProduct |-> Whole("createManyProduct"),
   findOneProduct |-> Whole("findOneProduct"), updateProduct |-> Whole("updateProduct"),
   updatePrice |-> Whole("updatePrice"), createBrand |-> Whole("createBrand"),
   createCategory |-> Whole("createCategory")]
SearchCalls ==
  [searchProducts |-> Whole("handleProductSearch"),
   searchProductsInventory |-> Whole("handleProductSearchInventory"),
   searchOrders |-> Whole("handleOrdersSearch")]
UserCalls ==
  [getAllUsers |-> Whole("getAllUsers"), register |-> Whole("register"),
   login |-> Whole("login"), getUserInfo |-> Whole("getUserInfo")]
StorageCalls == [getCloudfrontUrl |-> Whole("getCloudfrontUrl")]
(* No controller leads to the first.                                       *)
InventoryCalls ==
  [reserveStockInventory |-> Whole("reserveStockInventory"),
   restockInventory |-> Whole("restockInventory")]

Verbs == [order |-> OrderVerbs, payment |-> PaymentVerbs, product |-> ProductVerbs,
          search |-> SearchVerbs, user |-> UserVerbs, storage |-> StorageVerbs,
          inventory |-> InventoryVerbs]
Calls == [order |-> OrderCalls, payment |-> PaymentCalls, product |-> ProductCalls,
          search |-> SearchCalls, user |-> UserCalls, storage |-> StorageCalls,
          inventory |-> InventoryCalls]

(* Every route leads to a handler.                                         *)
ASSUME RoutesAssumption == \A c \in DOMAIN Verbs : DOMAIN Verbs[c] \subseteq DOMAIN Calls[c]

-----------------------------------------------------------------------------
(* Errors.  A message is the phrases it contains, as written and only when *)
(* case is ignored; a code that is missing, or no number, is 0, which the  *)
(* code takes for missing too.  response holds the body of an exception    *)
(* that Nest made, and is empty otherwise.                                 *)

Says(phrases) == [kind |-> "text", says |-> phrases, ignoringCase |-> phrases]
Error(name, message) ==
  [response |-> <<>>, statusCode |-> 0, status |-> 0, name |-> name, message |-> message,
   error |-> None]

(* What the handlers of the services throw, or let pass: Nest's exceptions *)
(* and Errors of their own, and those of Prisma, Mongoose and the client   *)
(* of Redis.  Search and storage throw nothing the rules know a phrase of. *)
Exception(class, phrases) == [class |-> class, message |-> Says(phrases)]
PrismaErrors ==
  {Exception("PrismaClientKnownRequestError", phrases) :
     phrases \in {{"unique constraint"}, {"required", "not found"}, {"timeout"}, {"timeout", "connection"}}}
Thrown ==
  [order |-> PrismaErrors \cup {Exception("Error", {"not found"})},
   payment |-> PrismaErrors \cup {Exception("Error", {"connection"})},
   inventory |-> PrismaErrors \cup {Exception("Error", {})},
   user |-> PrismaErrors,
   product |-> {Exception("NotFoundException", {"not found"}), Exception("NotFoundException", {}),
                Exception("MongoServerError", {"duplicate"}),
                Exception("ValidationError", {"validation", "required"})},
   search |-> {Exception("Error", {})},
   storage |-> {Exception("Error", {})}]

(* Nest answers a gRPC call with the message of an RpcException and hides  *)
(* everything else: "2 UNKNOWN: Internal server error".  The filter that   *)
(* would make RpcExceptions is given to the HTTP application, from which   *)
(* the gRPC servers inherit nothing.                                       *)
OverGrpc(exception) ==
  Error("Error", IF exception.class = "RpcException" THEN exception.message ELSE Says({}))
(* rxjs: "Timeout has occurred".                                           *)
TimedOut == Error("TimeoutError", Says({"timeout"}))
(* grpc-js: "14 UNAVAILABLE: No connection established".                   *)
Unavailable == Error("Error", Says({"connection"}))
(* new BadRequestException('Out of stock').                                *)
OutOfStock ==
  [Error("BadRequestException", Says({})) EXCEPT
     !.response = <<[Error(None, Says({})) EXCEPT !.statusCode = 400]>>,
     !.status = 400]

Saying(phrases, gives) == [phrases |-> phrases, gives |-> gives]
FirstMatch(rules, said, default) ==
  LET hits == {i \in DOMAIN rules : rules[i].phrases \cap said # {}}
  IN  IF hits = {} THEN default ELSE rules[Min(hits)].gives

(* The names with the prefix "RpcException." have the same codes.          *)
StatusOfName ==
  [ConflictException |-> 409, NotFoundException |-> 404, BadRequestException |-> 400,
   UnauthorizedException |-> 401, ForbiddenException |-> 403, UnprocessableEntityException |-> 422]

(* Mutant: a timeout is one more communication issue.                      *)
StatusRules_NoTimeout ==
  <<Saying({"already exists", "duplicate", "unique constraint"}, 409),
    Saying({"not found", "does not exist"}, 404),
    Saying({"validation", "invalid", "required", "must be", "should not be empty"}, 400)>>

(* The text is lower case by then: "UQ_" and "ETIMEDOUT" are never found.  *)
StatusRules ==
  <<Saying({"already exists", "duplicate", "unique constraint"}, 409),
    Saying({"not found", "does not exist"}, 404),
    Saying({"validation", "invalid", "required", "must be", "should not be empty"}, 400),
    Saying({"timeout", "connection"}, 408),
    Saying({"unauthorized", "access denied"}, 401),
    Saying({"forbidden"}, 403),
    Saying({"insufficient", "not enough"}, 422)>>

ExtractStatusCode(e) ==
  IF e.statusCode # 0 THEN e.statusCode
  ELSE IF e.status # 0 THEN e.status
  ELSE IF e.name \in DOMAIN StatusOfName THEN StatusOfName[e.name]
  ELSE FirstMatch(StatusRules, e.message.ignoringCase, 502)

UniqueRules ==
  <<Saying({"sku", "UQ_5ec10f972b1fa4f1e60d66d28bc"}, "Record with this SKU already exists"),
    Saying({"email"}, "User with this email already exists"),
    Saying({"username"}, "User with this username already exists"),
    Saying({"name"}, "Record with this name already exists"),
    Saying({"phone"}, "User with this phone number already exists"),
    Saying({"order_number"}, "Order with this number already exists"),
    Saying({"transaction_id"}, "Transaction with this ID already exists")>>

TextRules ==
  <<Saying({"QueryFailedError"}, "Database operation failed"),
    Saying({"duplicate key value violates"}, "Duplicate entry found"),
    Saying({"should not be empty"}, "the message with 'is required'"),
    Saying({"insufficient stock"}, "Insufficient stock available"),
    Saying({"insufficient points"}, "Insufficient points available"),
    Saying({"not enough stock"}, "Not enough stock available"),
    Saying({"not enough points"}, "Not enough points available")>>

CleanupErrorMessage(message) ==
  IF "unique constraint" \in message.says
  THEN FirstMatch(UniqueRules, message.says, "Duplicate entry found")
  ELSE FirstMatch(TextRules, message.says, "the message")

ExtractErrorMessage(e) ==
  CASE e.message.kind = "text" -> CleanupErrorMessage(e.message)
    [] e.message.kind = "list" -> "the messages"
    [] e.message.kind = "none" /\ e.response # <<>> -> CleanupErrorMessage(e.response[1].message)
    [] e.message.kind = "none" /\ e.response = <<>> /\ e.error # None -> e.error
    [] OTHER -> "Operation failed"

(* handleError throws an HttpException; a list of messages without a code  *)
(* has no toLowerCase, and a TypeError is thrown instead.                  *)
HandleError(error) ==
  LET e == IF error.response # <<>> THEN error.response[1] ELSE error
  IN  IF e.message.kind = "list" /\ e.statusCode = 0 /\ e.status = 0
         /\ e.name \notin DOMAIN StatusOfName
      THEN [class |-> "Error", status |-> 0, says |-> "toLowerCase is not a function"]
      ELSE [class |-> "HttpException", status |-> ExtractStatusCode(e), says |-> ExtractErrorMessage(e)]

(* HttpExceptionFilter.catch: the status of an HttpException, or the one a *)
(* plain object claims, if it is one of HTTP's.                            *)
Catch(thrown) ==
  LET claimed == IF thrown.class \in {"HttpException", "object"} /\ thrown.status # 0
                 THEN thrown.status ELSE 500
  IN  [status |-> IF claimed \in 100 .. 599 THEN claimed ELSE 500, says |-> thrown.says]

-----------------------------------------------------------------------------
(* What the client of a route reads.                                       *)

Created(route) == IF Verbs[route[1]][route[2]] = "POST" THEN 201 ELSE 200
ErrorAnswer(error) == Catch(HandleError(error)).status
=============================================================================
