---------------------------- MODULE HttpPipeline ----------------------------
(***************************************************************************)
(* The way of one request through the API server: request id, recovery,     *)
(* logging, authentication, authorization, the handler, and the response    *)
(* and the log records that come out.  Handlers keep no state of their own,  *)
(* so that requests do not influence each other here; what the services do   *)
(* is in the modules of the services.                                       *)
(*                                                                         *)
(* A middleware is an operator on the outcome of the handler that it wraps.  *)
(***************************************************************************)
EXTENDS Naturals, Sequences

CONSTANT Ids   \* values that a client puts in X-Request-Id

NoId == ""
GeneratedId == "generated"

ASSUME HttpAssumption == NoId \notin Ids /\ GeneratedId \notin Ids

-----------------------------------------------------------------------------
(* Errors and their statuses.                                              *)

\* The status that the constructor of each code sets.
HTTPStatus ==
    [VALIDATION_ERROR |-> 400, UNAUTHORIZED |-> 401, FORBIDDEN |-> 403,
     RESOURCE_NOT_FOUND |-> 404, DUPLICATE_RESOURCE |-> 409,
     INVALID_ORDER_STATUS |-> 400, INACTIVE_CUSTOMER |-> 400,
     INACTIVE_PRODUCT |-> 400, INTERNAL_ERROR |-> 500]

Codes == DOMAIN HTTPStatus

\* Any other error that a service may return.
PlainError == "plain error"

\* Mutant: an error without a code leaves the status at its default.
WriteStatusUnmapped(err) == IF err \in Codes THEN HTTPStatus[err] ELSE 200

\* The status that errors.Write sends for an error.
WriteStatus(err) == IF err \in Codes THEN HTTPStatus[err] ELSE HTTPStatus["INTERNAL_ERROR"]

-----------------------------------------------------------------------------
(* The outcome of a handler: the argument of its first WriteHeader, 0 when    *)
(* it made no such call, and how it ended: it refused the request, or it ran   *)
(* the operation behind it and then returned or panicked.                    *)

Refused == "refused"
Returned == "returned"
Panicked == "panicked"

Outcome(header, end) == [header |-> header, end |-> end]

Refuse(err) == Outcome(WriteStatus(err), Refused)

(* What the operation behind a handler does: it returns (Done), fails with   *)
(* an error, panics, or returns a value whose encoding panics after the      *)
(* header is on its way.                                                   *)
Done == "done"
Panic == "panic"
BadBody == "panic in the body"

Results == {Done, Panic, BadBody, PlainError} \cup Codes

-----------------------------------------------------------------------------
(* The handlers: what each one reads of the request before it calls its      *)
(* service, and the status of its success (0: the body is written without a  *)
(* header).  "action" is the row of the authorization matrix it falls under. *)

Public == "public"
AdminOnly == "RequireAction"
Staff == "RequireAnyRole"

NoAction == "none"

Handler(name, guard, action, reads, success) ==
    [name |-> name, guard |-> guard, action |-> action, reads |-> reads, success |-> success]

Health == Handler("health", Public, NoAction, {}, 200)
Metrics == Handler("metrics", Public, "view_metrics", {}, 0)
SwaggerUI == Handler("swagger ui", Public, NoAction, {}, 0)
OpenAPISpec == Handler("openapi.yaml", Public, NoAction, {}, 0)
Login == Handler("login", Public, NoAction, {"body"}, 200)
Register == Handler("register", Public, "create_users", {"body"}, 201)
ListUsers == Handler("list users", AdminOnly, "list_users", {}, 200)

CreateCustomer == Handler("create customer", Staff, "create_customers", {"body"}, 201)
UpdateCustomer == Handler("update customer", Staff, "update_customers", {"path", "body"}, 200)
DeactivateCustomer == Handler("deactivate customer", Staff, "update_customers", {"path"}, 204)
GetCustomer == Handler("get customer", Staff, NoAction, {"path"}, 200)
ListCustomers == Handler("list customers", Staff, NoAction, {"query"}, 200)

CreateProduct == Handler("create product", Staff, "create_products", {"body"}, 201)
UpdateProduct == Handler("update product", Staff, "update_products", {"path", "body"}, 200)
DeactivateProduct == Handler("deactivate product", Staff, "update_products", {"path"}, 204)
GetProduct == Handler("get product", Staff, NoAction, {"path"}, 200)
ListProducts == Handler("list products", Staff, NoAction, {"query"}, 200)

CreateOrder == Handler("create order", Staff, "create_orders", {"user", "body"}, 201)
GetOrder == Handler("get order", Staff, NoAction, {"path"}, 200)
ListOrders == Handler("list orders", Staff, NoAction, {"query"}, 200)
CancelOrder == Handler("cancel order", Staff, "cancel_orders", {"path"}, 200)
ShipOrder == Handler("ship order", Staff, "ship_orders", {"path"}, 200)

CustomerRoutes ==
    {ListCustomers, CreateCustomer, GetCustomer, UpdateCustomer, DeactivateCustomer}

ProductRoutes == {ListProducts, CreateProduct, GetProduct, UpdateProduct, DeactivateProduct}

OrderRoutes == {CreateOrder, ListOrders, GetOrder, CancelOrder, ShipOrder}

AuthRoutes == {Login, Register}

Routes ==
    {Health, Metrics, SwaggerUI, OpenAPISpec, ListUsers}
        \cup AuthRoutes \cup CustomerRoutes \cup ProductRoutes \cup OrderRoutes

\* The handlers that call nothing that can fail.
Static == {Health, Metrics, SwaggerUI, OpenAPISpec, ListUsers}

-----------------------------------------------------------------------------
(* Requests.                                                               *)

Roles == {"ADMIN", "OPERATOR"}

(* A token as Verify sees it: whether it has three segments that decode,     *)
(* what its header names, whether the signature is that of the server's      *)
(* secret, whether exp lies in the future, and the role it names.            *)
Tokens ==
    [decodes : BOOLEAN, alg : {"HS256", "other"}, signed : BOOLEAN, live : BOOLEAN,
     role : Roles \cup {"other"}]

NoToken == [decodes |-> FALSE, alg |-> "other", signed |-> FALSE, live |-> FALSE, role |-> "other"]

\* What a client sends: a route, the parts of the request that do not parse, the
\* Authorization header (which nothing reads on a public route), and how the
\* operation will end once it is called.
Requests ==
    {r \in [route : Routes, bad : SUBSET {"user", "path", "body", "query"}, bearer : BOOLEAN,
            token : Tokens, id : Ids \cup {NoId}, result : Results] :
        /\ r.bad \subseteq r.route.reads
        /\ r.route \in Static => r.result = Done
        /\ r.route.guard = Public => ~r.bearer
        /\ ~r.bearer => r.token = NoToken}

-----------------------------------------------------------------------------
(* Authentication and authorization.                                       *)

matrix ==
    [create_users |-> {"ADMIN"}, list_users |-> {"ADMIN"},
     create_customers |-> Roles, update_customers |-> Roles,
     create_products |-> Roles, update_products |-> Roles,
     create_orders |-> Roles, cancel_orders |-> Roles, ship_orders |-> Roles,
     view_metrics |-> {"ADMIN"}]

Can(role, action) == action \in DOMAIN matrix /\ role \in matrix[action]

Verify(t) ==
    /\ t.decodes
    /\ t.alg = "HS256"
    /\ t.signed
    /\ t.live
    /\ t.role \in Roles

Authenticator(r, next) ==
    IF ~r.bearer \/ ~Verify(r.token) THEN Refuse("UNAUTHORIZED") ELSE next

RequireAnyRole(roles, r, next) ==
    IF r.token.role \notin roles THEN Refuse("FORBIDDEN") ELSE next

RequireAction(action, r, next) ==
    IF ~Can(r.token.role, action) THEN Refuse("FORBIDDEN") ELSE next

-----------------------------------------------------------------------------
(* The handler behind a route: it refuses what does not parse, an unusable    *)
(* user id before anything else, then calls the service.                    *)
ServeRoute(r) ==
    CASE "user" \in r.bad -> Refuse("UNAUTHORIZED")
      [] "user" \notin r.bad /\ r.bad # {} -> Refuse("VALIDATION_ERROR")
      [] r.bad = {} /\ r.result = Done -> Outcome(r.route.success, Returned)
      [] r.bad = {} /\ r.result = BadBody -> Outcome(r.route.success, Panicked)
      [] r.bad = {} /\ r.result = Panic -> Outcome(0, Panicked)
      [] r.bad = {} /\ r.result \in Codes \cup {PlainError} ->
            Outcome(WriteStatus(r.result), Returned)

\* Mutant: the orders, customers and products are mounted for one role only.
ServeGuardedForOperators(r) ==
    CASE r.route.guard = Public -> ServeRoute(r)
      [] r.route.guard = AdminOnly ->
            Authenticator(r, RequireAction("list_users", r, ServeRoute(r)))
      [] r.route.guard = Staff ->
            Authenticator(r, RequireAnyRole({"OPERATOR"}, r, ServeRoute(r)))

\* The middleware that the router puts in front of each route.
ServeGuarded(r) ==
    CASE r.route.guard = Public -> ServeRoute(r)
      [] r.route.guard = AdminOnly ->
            Authenticator(r, RequireAction("list_users", r, ServeRoute(r)))
      [] r.route.guard = Staff ->
            Authenticator(r, RequireAnyRole(Roles, r, ServeRoute(r)))

-----------------------------------------------------------------------------
(* Logging, recovery, request id.                                          *)

Record(kind, id, status) == [kind |-> kind, id |-> id, status |-> status]

\* The status that statusWriter holds when the handler is through.
Recorded(outcome) == IF outcome.header = 0 THEN 200 ELSE outcome.header

\* Mutant: the record is written by a deferred call.
LoggingDeferred(id, outcome) == <<Record("completed", id, Recorded(outcome))>>

\* One record behind the call of the handler, which a panic never reaches.
Logging(id, outcome) ==
    IF outcome.end = Panicked THEN <<>> ELSE <<Record("completed", id, Recorded(outcome))>>

\* The records behind Logging, and the one of a panic.
RecoveryRecords(id, outcome) ==
    IF outcome.end = Panicked
    THEN Append(Logging(id, outcome), Record("panic", id, 0))
    ELSE Logging(id, outcome)

\* The status on the wire: the first one written, by the handler or by Recovery,
\* and 200 when the server closes an exchange in which nobody wrote one.
Wire(outcome) ==
    CASE outcome.header # 0 -> outcome.header
      [] outcome.header = 0 /\ outcome.end = Panicked -> WriteStatus("INTERNAL_ERROR")
      [] outcome.header = 0 /\ outcome.end # Panicked -> 200

RequestId(r) == IF r.id = NoId THEN GeneratedId ELSE r.id

ServeHTTP(r) ==
    [request |-> r,
     status |-> Wire(ServeGuarded(r)),
     id |-> RequestId(r),
     end |-> ServeGuarded(r).end,
     records |-> RecoveryRecords(RequestId(r), ServeGuarded(r))]

-----------------------------------------------------------------------------
VARIABLE exchange   \* the last request and what came of it

NoExchange == [status |-> 0]

HttpInit == exchange = NoExchange

Serve == \E r \in Requests : exchange' = ServeHTTP(r)

HttpSpec == HttpInit /\ [][Serve]_exchange

-----------------------------------------------------------------------------
Served == exchange # NoExchange

OneRecord(x) ==
    /\ Len(x.records) = 1
    /\ x.id # NoId /\ x.records[1].id = x.id
    /\ \/ x.records[1].kind = "completed" /\ x.records[1].status = x.status
       \/ x.records[1].kind = "panic" /\ x.end = Panicked /\ x.request.result \in {Panic, BadBody}

(* Every request leaves exactly one record, under the id that the client was  *)
(* answered with: that of its completion, with the status that went over the  *)
(* wire, or that of the panic that kept it from completing (logging.go,       *)
(* recovery.go).                                                           *)
OneRecordPerRequest == Served => OneRecord(exchange)

\* Whether the sender may do what it asks for, by the authorization matrix.
Entitled(r) ==
    /\ Verify(r.token)
    /\ r.route.action # NoAction => Can(r.token.role, r.route.action)

\* Whether the operation behind a route is open to the request.
Passes(r) == r.route.guard = Public \/ (r.bearer /\ Entitled(r))

(* The operation behind a route runs exactly for the requests that parse and   *)
(* whose sender the authorization matrix entitles to it, whichever of the two  *)
(* middlewares guards the route (router.go, authz.go).                        *)
GuardsHold ==
    Served => (exchange.end # Refused <=> Passes(exchange.request) /\ exchange.request.bad = {})

Answered(x) ==
    LET did == x.end # Refused /\ x.request.result \in {Done, BadBody}
        broke == x.end # Refused /\ x.request.result \in {Panic, PlainError, "INTERNAL_ERROR"}
    IN  /\ x.status \in 200..299 <=> did
        /\ x.status = 500 <=> broke
        /\ ~did /\ ~broke => x.status \in 400..499

(* The client is told of success exactly when the operation has succeeded,     *)
(* and of a server error exactly when the operation broke down: an error of   *)
(* the client's never looks like one of the server, nor the reverse           *)
(* (errors/handler.go, recovery.go).                                        *)
AnsweredAsDone == Served => Answered(exchange)

=============================================================================
