---------------------------- MODULE Server_proofs ----------------------------
(***************************************************************************)
(* The properties of the parts of a process that share no state with another *)
(* process: the HTTP pipeline for every set of request ids, the start-up for  *)
(* every range of numbers in the environment and every width of a Duration,   *)
(* and the texts of amounts for every width of the word and every literal.    *)
(***************************************************************************)
EXTENDS MCServer, TLAPS

(* The HTTP pipeline. *)

LEMMA CodesKnown ==
    Codes = {"VALIDATION_ERROR", "UNAUTHORIZED", "FORBIDDEN", "RESOURCE_NOT_FOUND",
             "DUPLICATE_RESOURCE", "INVALID_ORDER_STATUS", "INACTIVE_CUSTOMER",
             "INACTIVE_PRODUCT", "INTERNAL_ERROR"}
BY DEF Codes, HTTPStatus

\* Write answers every error with a client error, or with 500 exactly for an error
\* without a code and for INTERNAL_ERROR (errors/handler.go).
LEMMA WriteStatusRange ==
    ASSUME NEW e \in Codes \cup {PlainError}
    PROVE  /\ WriteStatus(e) \in 400..500
           /\ WriteStatus(e) = 500 <=> e \in {PlainError, "INTERNAL_ERROR"}
           /\ WriteStatus(e) # 500 => WriteStatus(e) \in 400..499
<1>1. /\ HTTPStatus["VALIDATION_ERROR"] = 400 /\ HTTPStatus["UNAUTHORIZED"] = 401
      /\ HTTPStatus["FORBIDDEN"] = 403 /\ HTTPStatus["RESOURCE_NOT_FOUND"] = 404
      /\ HTTPStatus["DUPLICATE_RESOURCE"] = 409 /\ HTTPStatus["INVALID_ORDER_STATUS"] = 400
      /\ HTTPStatus["INACTIVE_CUSTOMER"] = 400 /\ HTTPStatus["INACTIVE_PRODUCT"] = 400
      /\ HTTPStatus["INTERNAL_ERROR"] = 500
  BY DEF HTTPStatus
<1>2. CASE e \in Codes
  <2>1. WriteStatus(e) = HTTPStatus[e]
    BY <1>2 DEF WriteStatus
  <2>2. e # PlainError
    BY <1>2, CodesKnown DEF PlainError
  <2>3. HTTPStatus[e] \in {400, 401, 403, 404, 409} \/ e = "INTERNAL_ERROR"
    BY <1>1, <1>2, CodesKnown
  <2>4. CASE e = "INTERNAL_ERROR"
    BY <1>1, <2>1, <2>4
  <2>5. CASE e # "INTERNAL_ERROR"
    BY <2>1, <2>2, <2>3, <2>5
  <2> QED
    BY <2>4, <2>5
<1>3. CASE e = PlainError
  <2>1. WriteStatus(e) = 500
    BY <1>1, <1>3, CodesKnown DEF WriteStatus, PlainError
  <2> QED
    BY <2>1, <1>3
<1> QED
  BY <1>2, <1>3

LEMMA RefuseOutcome ==
    ASSUME NEW e \in {"UNAUTHORIZED", "FORBIDDEN", "VALIDATION_ERROR"}
    PROVE  /\ Refuse(e).header \in 400..499
           /\ Refuse(e).end = Refused
BY CodesKnown, WriteStatusRange DEF Refuse, Outcome, WriteStatus, HTTPStatus, PlainError

\* The routes under a role set fall under rows of the matrix that allow both roles.
StaffActions ==
    {NoAction, "create_customers", "update_customers", "create_products", "update_products",
     "create_orders", "cancel_orders", "ship_orders"}

\* Of each route, the status of success, the guard, and the row of the matrix.
RouteOK(route) ==
    /\ route.success \in {200, 201, 204} \/ (route.success = 0 /\ route \in Static)
    /\ \/ route.guard = Public
       \/ route.guard = AdminOnly /\ route.action = "list_users"
       \/ route.guard = Staff /\ route.action \in StaffActions

LEMMA PublicHandler ==
    ASSUME NEW n, NEW a, NEW p, NEW s \in {200, 201, 204}
    PROVE  RouteOK(Handler(n, Public, a, p, s))
BY DEF RouteOK, Handler

LEMMA RouteTable == ASSUME NEW route \in Routes PROVE RouteOK(route)
<1>1. CASE route \in {Health, Metrics, SwaggerUI, OpenAPISpec}
  <2>1. RouteOK(Health) BY PublicHandler DEF Health
  <2>2. RouteOK(Metrics) BY DEF RouteOK, Handler, Static, Metrics
  <2>3. RouteOK(SwaggerUI) BY DEF RouteOK, Handler, Static, SwaggerUI
  <2>4. RouteOK(OpenAPISpec) BY DEF RouteOK, Handler, Static, OpenAPISpec
  <2> QED BY <1>1, <2>1, <2>2, <2>3, <2>4
<1>2. CASE route \in AuthRoutes
  <2>1. RouteOK(Login) BY PublicHandler DEF Login
  <2>2. RouteOK(Register) BY PublicHandler DEF Register
  <2> QED BY <1>2, <2>1, <2>2 DEF AuthRoutes
<1>3. CASE route = ListUsers
  BY <1>3 DEF RouteOK, ListUsers, Handler
<1>a. /\ NoAction \in StaffActions
      /\ "create_customers" \in StaffActions /\ "update_customers" \in StaffActions
      /\ "create_products" \in StaffActions /\ "update_products" \in StaffActions
      /\ "create_orders" \in StaffActions /\ "cancel_orders" \in StaffActions
      /\ "ship_orders" \in StaffActions
  BY DEF StaffActions
<1>4. CASE route \in CustomerRoutes
  <2>1. RouteOK(CreateCustomer) BY <1>a DEF RouteOK, Handler, CreateCustomer
  <2>2. RouteOK(UpdateCustomer) BY <1>a DEF RouteOK, Handler, UpdateCustomer
  <2>3. RouteOK(DeactivateCustomer) BY <1>a DEF RouteOK, Handler, DeactivateCustomer
  <2>4. RouteOK(GetCustomer) BY <1>a DEF RouteOK, Handler, GetCustomer
  <2>5. RouteOK(ListCustomers) BY <1>a DEF RouteOK, Handler, ListCustomers
  <2> QED BY <1>4, <2>1, <2>2, <2>3, <2>4, <2>5 DEF CustomerRoutes
<1>5. CASE route \in ProductRoutes
  <2>1. RouteOK(CreateProduct) BY <1>a DEF RouteOK, Handler, CreateProduct
  <2>2. RouteOK(UpdateProduct) BY <1>a DEF RouteOK, Handler, UpdateProduct
  <2>3. RouteOK(DeactivateProduct) BY <1>a DEF RouteOK, Handler, DeactivateProduct
  <2>4. RouteOK(GetProduct) BY <1>a DEF RouteOK, Handler, GetProduct
  <2>5. RouteOK(ListProducts) BY <1>a DEF RouteOK, Handler, ListProducts
  <2> QED BY <1>5, <2>1, <2>2, <2>3, <2>4, <2>5 DEF ProductRoutes
<1>6. CASE route \in OrderRoutes
  <2>1. RouteOK(CreateOrder) BY <1>a DEF RouteOK, Handler, CreateOrder
  <2>2. RouteOK(GetOrder) BY <1>a DEF RouteOK, Handler, GetOrder
  <2>3. RouteOK(ListOrders) BY <1>a DEF RouteOK, Handler, ListOrders
  <2>4. RouteOK(CancelOrder) BY <1>a DEF RouteOK, Handler, CancelOrder
  <2>5. RouteOK(ShipOrder) BY <1>a DEF RouteOK, Handler, ShipOrder
  <2> QED BY <1>6, <2>1, <2>2, <2>3, <2>4, <2>5 DEF OrderRoutes
<1> QED
  BY <1>1, <1>2, <1>3, <1>4, <1>5, <1>6 DEF Routes

\* What an outcome says of a request: an operation that did not run was refused with
\* a client error, and one that ran is reported as it ended.
OutcomeOK(r, o) ==
    /\ o.header \in Nat
    /\ o.end = Refused => o.header \in 400..499
    /\ o.end # Refused =>
                /\ o.end = Panicked <=> r.result \in {Panic, BadBody}
                /\ r.result = Done => o.header \in {0, 200, 201, 204}
                /\ r.result = BadBody => o.header \in {200, 201, 204}
                /\ r.result = Panic => o.header = 0
                /\ r.result \in Codes \cup {PlainError} => o.header = WriteStatus(r.result)

\* What comes of a request whose guard has let it pass.
LEMMA ServedRoute ==
    ASSUME NEW r \in Requests
    PROVE  OutcomeOK(r, ServeRoute(r)) /\ (ServeRoute(r).end # Refused <=> r.bad = {})
<1>1. r.route \in Routes /\ r.result \in Results /\ r.bad \subseteq {"user", "path", "body", "query"}
  BY DEF Requests
<1>2. /\ r.route.success \in {0, 200, 201, 204}
      /\ r.result # Done => r.route.success # 0
  BY <1>1, RouteTable DEF RouteOK, Requests
<1> USE DEF OutcomeOK, Refused, Returned, Panicked
<1>3. CASE "user" \in r.bad
  <2>1. ServeRoute(r) = Refuse("UNAUTHORIZED")
    BY <1>3 DEF ServeRoute
  <2>2. r.bad # {}
    BY <1>3
  <2>3. /\ ServeRoute(r).header \in 400..499
        /\ ServeRoute(r).end = Refused
    BY <2>1, RefuseOutcome
  <2> QED
    BY <2>2, <2>3
<1>4. CASE "user" \notin r.bad /\ r.bad # {}
  <2>1. ServeRoute(r) = Refuse("VALIDATION_ERROR")
    BY <1>4 DEF ServeRoute
  <2>3. /\ ServeRoute(r).header \in 400..499
        /\ ServeRoute(r).end = Refused
    BY <2>1, RefuseOutcome
  <2> QED
    BY <1>4, <2>3
<1>5. CASE r.bad = {} /\ r.result = Done
  <2>1. ServeRoute(r) = Outcome(r.route.success, Returned)
    BY <1>5, CodesKnown DEF ServeRoute, Done, BadBody, Panic, PlainError
  <2>2. /\ ServeRoute(r).header = r.route.success
        /\ ServeRoute(r).end = Returned
    BY <2>1 DEF Outcome
  <2> QED
    BY <1>2, <1>5, <2>2, CodesKnown DEF Done, BadBody, Panic, PlainError, Refused, Returned, Panicked
<1>6. CASE r.bad = {} /\ r.result = BadBody
  <2>1. ServeRoute(r) = Outcome(r.route.success, Panicked)
    BY <1>6, CodesKnown DEF ServeRoute, Done, BadBody, Panic, PlainError
  <2>2. /\ ServeRoute(r).header = r.route.success
        /\ ServeRoute(r).end = Panicked
    BY <2>1 DEF Outcome
  <2>3. r.route.success \in {200, 201, 204}
    BY <1>2, <1>6 DEF Done, BadBody
  <2>4. r.result \notin Codes \cup {PlainError} /\ r.result # Done /\ r.result # Panic
    BY <1>6, CodesKnown DEF Done, BadBody, Panic, PlainError
  <2>5. ServeRoute(r).header \in Nat /\ ServeRoute(r).end # Refused
    BY <2>2, <2>3 DEF Panicked, Refused
  <2> QED
    BY <1>6, <2>2, <2>3, <2>4, <2>5
<1>7. CASE r.bad = {} /\ r.result = Panic
  <2>1. ServeRoute(r) = Outcome(0, Panicked)
    BY <1>7, CodesKnown DEF ServeRoute, Done, BadBody, Panic, PlainError
  <2>2. /\ ServeRoute(r).header = 0
        /\ ServeRoute(r).end = Panicked
    BY <2>1 DEF Outcome
  <2> QED
    BY <1>7, <2>2, CodesKnown DEF Done, BadBody, Panic, PlainError, Refused, Returned, Panicked
<1>8. CASE r.bad = {} /\ r.result \in Codes \cup {PlainError}
  <2>1. ServeRoute(r) = Outcome(WriteStatus(r.result), Returned)
    BY <1>8, CodesKnown DEF ServeRoute, Done, BadBody, Panic, PlainError
  <2>2. /\ ServeRoute(r).header = WriteStatus(r.result)
        /\ ServeRoute(r).end = Returned
    BY <2>1 DEF Outcome
  <2>3. WriteStatus(r.result) \in Nat
    BY <1>8, WriteStatusRange
  <2> QED
    BY <1>8, <2>2, <2>3, CodesKnown DEF Done, BadBody, Panic, PlainError, Refused, Returned, Panicked
<1> QED
  BY <1>1, <1>3, <1>4, <1>5, <1>6, <1>7, <1>8 DEF Results

\* The guard of a route passes exactly the entitled, and refuses the others with a
\* client error.
LEMMA GuardedRoute ==
    ASSUME NEW r \in Requests
    PROVE  \/ Passes(r) /\ ServeGuarded(r) = ServeRoute(r)
           \/ ~Passes(r) /\ ServeGuarded(r) \in {Refuse("UNAUTHORIZED"), Refuse("FORBIDDEN")}
<1>1. r.route \in Routes /\ r.token \in Tokens /\ r.bearer \in BOOLEAN
  BY DEF Requests, NoToken, Tokens
<1>2. RouteOK(r.route)
  BY <1>1, RouteTable
<1>3. CASE r.route.guard = Public
  BY <1>3 DEF Passes, ServeGuarded, Public, AdminOnly, Staff
<1>4. CASE r.route.guard = AdminOnly
  <2>1. ServeGuarded(r) = Authenticator(r, RequireAction("list_users", r, ServeRoute(r)))
    BY <1>4 DEF ServeGuarded, Public, AdminOnly, Staff
  <2>2. r.route.action = "list_users" /\ r.route.guard # Public
    BY <1>2, <1>4 DEF RouteOK, Public, AdminOnly, Staff
  <2>3. Entitled(r) <=> Verify(r.token) /\ Can(r.token.role, "list_users")
    BY <2>2 DEF Entitled, NoAction
  <2>4. CASE r.bearer /\ Entitled(r)
    BY <2>1, <2>3, <2>4 DEF Passes, Authenticator, RequireAction
  <2>5. CASE ~(r.bearer /\ Entitled(r))
    BY <2>1, <2>2, <2>3, <2>5 DEF Passes, Authenticator, RequireAction
  <2> QED
    BY <2>4, <2>5
<1>5. CASE r.route.guard = Staff
  <2>1. ServeGuarded(r) = Authenticator(r, RequireAnyRole(Roles, r, ServeRoute(r)))
    BY <1>5 DEF ServeGuarded, Public, AdminOnly, Staff
  <2>2. r.route.action \in StaffActions /\ r.route.guard # Public
    BY <1>2, <1>5 DEF RouteOK, Public, AdminOnly, Staff
  <2>3. \A a \in StaffActions : a # NoAction => a \in DOMAIN matrix /\ matrix[a] = Roles
    BY DEF StaffActions, matrix, NoAction
  <2>4. Entitled(r) <=> Verify(r.token)
    BY <2>2, <2>3 DEF Entitled, Can, Verify
  <2>5. CASE r.bearer /\ Entitled(r)
    BY <2>1, <2>4, <2>5 DEF Passes, Authenticator, RequireAnyRole, Verify
  <2>6. CASE ~(r.bearer /\ Entitled(r))
    BY <2>1, <2>2, <2>4, <2>6 DEF Passes, Authenticator
  <2> QED
    BY <2>5, <2>6
<1> QED
  BY <1>2, <1>3, <1>4, <1>5 DEF RouteOK

LEMMA GuardedOutcome ==
    ASSUME NEW r \in Requests
    PROVE  /\ OutcomeOK(r, ServeGuarded(r))
           /\ ServeGuarded(r).end # Refused <=> Passes(r) /\ r.bad = {}
<1>1. CASE Passes(r) /\ ServeGuarded(r) = ServeRoute(r)
  BY <1>1, ServedRoute
<1>2. CASE ~Passes(r) /\ ServeGuarded(r) \in {Refuse("UNAUTHORIZED"), Refuse("FORBIDDEN")}
  <2>1. /\ ServeGuarded(r).header \in 400..499
        /\ ServeGuarded(r).end = Refused
    BY <1>2, RefuseOutcome
  <2> QED
    BY <1>2, <2>1 DEF OutcomeOK, Refused, Returned, Panicked
<1> QED
  BY <1>1, <1>2, GuardedRoute

-----------------------------------------------------------------------------
\* The three properties, of one exchange.
ExchangeOK(x) ==
    /\ OneRecord(x)
    /\ x.end # Refused <=> Passes(x.request) /\ x.request.bad = {}
    /\ Answered(x)

LEMMA ServedExchange == ASSUME NEW r \in Requests PROVE ExchangeOK(ServeHTTP(r))
<1> DEFINE o == ServeGuarded(r)
           x == ServeHTTP(r)
<1>1. /\ x.request = r /\ x.status = Wire(o) /\ x.id = RequestId(r)
      /\ x.end = o.end /\ x.records = RecoveryRecords(RequestId(r), o)
  BY DEF ServeHTTP
<1>2. r.id \in Ids \cup {NoId} /\ r.result \in Results
  BY DEF Requests
<1>3. RequestId(r) # NoId
  BY <1>2 DEF RequestId, NoId, GeneratedId
<1>4. OutcomeOK(r, o) /\ (o.end # Refused <=> Passes(r) /\ r.bad = {})
  BY GuardedOutcome
<1>5. o.end = Panicked => r.result \in {Panic, BadBody}
  BY <1>4 DEF OutcomeOK, Refused, Returned, Panicked
<1> HIDE DEF o, x
<1>6. OneRecord(x)
  <2>1. CASE o.end = Panicked
    <3>1. x.records = <<Record("panic", RequestId(r), 0)>>
      BY <1>1, <2>1 DEF RecoveryRecords, Logging
    <3> QED
      BY <1>1, <1>3, <1>5, <2>1, <3>1 DEF OneRecord, Record
  <2>2. CASE o.end # Panicked
    <3>1. x.records = <<Record("completed", RequestId(r), Recorded(o))>>
      BY <1>1, <2>2 DEF RecoveryRecords, Logging
    <3>2. Recorded(o) = Wire(o)
      BY <2>2, <1>4 DEF OutcomeOK, Refused, Returned, Panicked, Recorded, Wire
    <3> QED
      BY <1>1, <1>3, <3>1, <3>2 DEF OneRecord, Record
  <2> QED
    BY <2>1, <2>2
<1>7. x.end # Refused <=> Passes(x.request) /\ x.request.bad = {}
  BY <1>1, <1>4
<1>8. Answered(x)
  <2>1. WriteStatus("INTERNAL_ERROR") = 500
    BY CodesKnown, WriteStatusRange
  <2>2. CASE o.end = Refused
    <3>1. o.header \in 400..499 /\ o.end # Panicked
      BY <2>2, <1>4 DEF OutcomeOK, Refused, Returned, Panicked
    <3>2. Wire(o) = o.header
      BY <3>1 DEF Wire
    <3> QED
      BY <1>1, <2>2, <3>1, <3>2 DEF Answered, Refused
  <2>3. CASE o.end # Refused
    <3>1. CASE r.result = Done
      <4>1. o.header \in {0, 200, 201, 204} /\ o.end # Panicked
        BY <1>4, <2>3, <3>1 DEF OutcomeOK, Refused, Returned, Panicked, Done, BadBody, Panic
      <4>2. Wire(o) \in {200, 201, 204}
        BY <4>1 DEF Wire
      <4> QED
        BY <1>1, <2>3, <3>1, <4>2 DEF Answered, Refused, Done, BadBody, Panic, PlainError
    <3>2. CASE r.result = BadBody
      <4>1. o.header \in {200, 201, 204}
        BY <1>4, <2>3, <3>2 DEF OutcomeOK, Refused, Returned, Panicked
      <4>2. Wire(o) \in {200, 201, 204}
        BY <4>1 DEF Wire
      <4>3. r.result \notin {Panic, PlainError, "INTERNAL_ERROR"}
        BY <3>2 DEF BadBody, Panic, PlainError
      <4> QED
        BY <1>1, <2>3, <3>2, <4>2, <4>3 DEF Answered
    <3>3. CASE r.result = Panic
      <4>1. o.header = 0 /\ o.end = Panicked
        BY <1>4, <2>3, <3>3 DEF OutcomeOK, Refused, Returned, Panicked
      <4>2. Wire(o) = 500
        BY <4>1, <2>1 DEF Wire
      <4> QED
        BY <1>1, <2>3, <3>3, <4>2 DEF Answered, Refused, Done, BadBody, Panic, PlainError
    <3>4. CASE r.result \in Codes \cup {PlainError}
      <4>1. o.header = WriteStatus(r.result)
        BY <1>4, <2>3, <3>4 DEF OutcomeOK, Refused, Returned, Panicked
      <4>2. Wire(o) = WriteStatus(r.result)
        BY <4>1, <3>4, WriteStatusRange DEF Wire
      <4>3. r.result \notin {Done, BadBody, Panic}
        BY <3>4, CodesKnown DEF Done, BadBody, Panic, PlainError, Refused, Returned, Panicked
      <4>4. /\ Wire(o) \in 400..500
            /\ Wire(o) = 500 <=> r.result \in {PlainError, "INTERNAL_ERROR"}
            /\ Wire(o) # 500 => Wire(o) \in 400..499
        BY <3>4, <4>2, WriteStatusRange
      <4> QED
        BY <1>1, <2>3, <4>3, <4>4 DEF Answered, Refused
    <3> QED
      BY <1>2, <3>1, <3>2, <3>3, <3>4 DEF Results
  <2> QED
    BY <2>2, <2>3
<1> QED
  BY <1>6, <1>7, <1>8 DEF ExchangeOK, x

HttpInv == Served => ExchangeOK(exchange)

LEMMA HttpInvHolds == HttpSpec => []HttpInv
<1>1. HttpInit => HttpInv
  BY DEF HttpInit, HttpInv, Served
<1>2. HttpInv /\ [Serve]_exchange => HttpInv'
  BY ServedExchange DEF HttpInv, Served, Serve
<1> QED
  BY <1>1, <1>2, PTL DEF HttpSpec

\* Every request leaves exactly one log record, completed with the status on the wire
\* or panicked, under the id that the client was given.
THEOREM EveryRequestIsRecorded == HttpSpec => []OneRecordPerRequest
<1>1. HttpInv => OneRecordPerRequest
  BY DEF HttpInv, ExchangeOK, OneRecordPerRequest
<1> QED
  BY <1>1, HttpInvHolds, PTL

\* The operation behind a route runs exactly for the requests that parse and that the
\* authorization matrix entitles.
THEOREM RoutesAreGuarded == HttpSpec => []GuardsHold
<1>1. HttpInv => GuardsHold
  BY DEF HttpInv, ExchangeOK, GuardsHold
<1> QED
  BY <1>1, HttpInvHolds, PTL

\* The class of the status on the wire is that of what happened.
THEOREM AnswersAreTrue == HttpSpec => []AnsweredAsDone
<1>1. HttpInv => AnsweredAsDone
  BY DEF HttpInv, ExchangeOK, AnsweredAsDone
<1> QED
  BY <1>1, HttpInvHolds, PTL

-----------------------------------------------------------------------------
(* Money. *)

\* Machine arithmetic stays in the word, and is exact inside it.
LEMMA WrapRange == ASSUME NEW x \in Int PROVE Wrap(x) \in Cents
BY MoneyAssumption DEF Wrap, Cents

LEMMA WrapExact == ASSUME NEW x \in Cents PROVE Wrap(x) = x
BY MoneyAssumption DEF Wrap, Cents


\* At most two digits, as a sequence.
LEMMA DigitsAreSequences ==
    ASSUME NEW d \in Digits
    PROVE  /\ d \in Seq(0..9) /\ Len(d) \in 0..2
           /\ d = <<>> <=> Len(d) = 0
           /\ Len(d) >= 1 => d[1] \in 0..9
           /\ Len(d) = 2 => d[2] \in 0..9
<1>1. PICK n \in 0..2 : d \in [1..n -> Digit]
  BY DEF Digits
<1>2. d \in Seq(0..9) /\ Len(d) = n
  BY <1>1 DEF Digit
<1> QED
  BY <1>2

LEMMA FractionShape ==
    ASSUME NEW f \in Fractions
    PROVE  /\ f.sign \in {"none", "plus", "minus"}
           /\ f.digits \in Digits
           /\ ~f.point => f = NoFraction
<1>1. CASE f = NoFraction
  <2>1. <<>> \in [1..0 -> Digit]
    OBVIOUS
  <2>2. <<>> \in Digits
    BY <2>1 DEF Digits
  <2> QED
    BY <1>1, <2>2 DEF NoFraction
<1>2. CASE f # NoFraction
  <2>1. PICK s \in {"none", "plus", "minus"}, d \in Digits : f = Fraction(s, d)
    BY <1>2 DEF Fractions
  <2> QED
    BY <2>1 DEF Fraction
<1> QED
  BY <1>1, <1>2

LEMMA AppendDigit ==
    ASSUME NEW d \in Seq(0..9)
    PROVE  /\ Append(d, 0) # <<>>
           /\ Len(Append(d, 0)) = Len(d) + 1
           /\ Append(d, 0)[Len(d) + 1] = 0
           /\ \A i \in 1..Len(d) : Append(d, 0)[i] = d[i]
<1>1. Len(Append(d, 0)) = Len(d) + 1 /\ Len(d) \in Nat
  OBVIOUS
<1> DEFINE e == Append(d, 0)
<1> HIDE DEF e
<1>2. e # <<>>
  <2>1. Len(e) # 0
    BY <1>1 DEF e
  <2> QED
    BY <2>1
<1> USE DEF e
<1>3. Append(d, 0)[Len(d) + 1] = 0
  OBVIOUS
<1>4. \A i \in 1..Len(d) : Append(d, 0)[i] = d[i]
  OBVIOUS
<1> QED
  BY <1>1, <1>2, <1>3, <1>4

\* The digits behind the point, once a single one is padded.
LEMMA PaddedValue ==
    ASSUME NEW d \in Digits
    PROVE  /\ DigitsValue(d) \in 0..99
           /\ Len(d) = 0 => DigitsValue(Append(d, 0)) = 0 /\ DigitsValue(d) = 0
           /\ Len(d) = 1 => DigitsValue(Append(d, 0)) = 10 * d[1] /\ d[1] \in 0..9
           /\ Len(d) = 2 => DigitsValue(d) = 10 * d[1] + d[2]
<1>0. /\ d \in Seq(0..9) /\ Len(d) \in 0..2 /\ (d = <<>> <=> Len(d) = 0)
      /\ (Len(d) >= 1 => d[1] \in 0..9) /\ (Len(d) = 2 => d[2] \in 0..9)
  BY DigitsAreSequences
<1>1. DigitsValue(d) \in 0..99
  <2>1. CASE Len(d) = 0
    BY <1>0, <2>1 DEF DigitsValue
  <2>2. CASE Len(d) = 1
    BY <1>0, <2>2 DEF DigitsValue
  <2>3. CASE Len(d) = 2
    <3>1. DigitsValue(d) = 10 * d[1] + d[2]
      BY <1>0, <2>3 DEF DigitsValue
    <3> DEFINE x == d[1]
               y == d[2]
    <3>2. x \in 0..9 /\ y \in 0..9 /\ DigitsValue(d) = 10 * x + y
      BY <1>0, <2>3, <3>1
    <3> HIDE DEF x, y
    <3> QED
      BY <3>2
  <2> QED
    BY <1>0, <2>1, <2>2, <2>3
<1>2. ASSUME Len(d) = 0 PROVE DigitsValue(Append(d, 0)) = 0 /\ DigitsValue(d) = 0
  <2>1. Len(Append(d, 0)) = 1 /\ Append(d, 0)[1] = 0 /\ Append(d, 0) # <<>>
    <3>1. /\ Append(d, 0) # <<>> /\ Len(Append(d, 0)) = Len(d) + 1
          /\ Append(d, 0)[Len(d) + 1] = 0
      BY <1>0, AppendDigit, Zenon
    <3>2. Len(d) + 1 = 1
      BY <1>2
    <3> QED
      BY <3>1, <3>2, Zenon
  <2> QED
    BY <1>0, <1>2, <2>1 DEF DigitsValue
<1>3. ASSUME Len(d) = 1 PROVE DigitsValue(Append(d, 0)) = 10 * d[1] /\ d[1] \in 0..9
  <2>1. /\ Len(Append(d, 0)) = 2 /\ Append(d, 0)[1] = d[1] /\ Append(d, 0)[2] = 0
        /\ Append(d, 0) # <<>> /\ d[1] \in 0..9
    <3>1. /\ Append(d, 0) # <<>> /\ Len(Append(d, 0)) = Len(d) + 1
          /\ Append(d, 0)[Len(d) + 1] = 0
          /\ \A i \in 1..Len(d) : Append(d, 0)[i] = d[i]
      BY <1>0, AppendDigit, Zenon
    <3>2. Len(d) + 1 = 2 /\ Len(d) >= 1 /\ 1 \in 1..Len(d)
      BY <1>3
    <3> QED
      BY <1>0, <3>1, <3>2, Zenon
  <2> QED
    BY <2>1 DEF DigitsValue
<1>4. ASSUME Len(d) = 2 PROVE DigitsValue(d) = 10 * d[1] + d[2]
  BY <1>0, <1>4 DEF DigitsValue
<1> QED
  BY <1>1, <1>2, <1>3, <1>4

LEMMA FractionRange ==
    ASSUME NEW f \in Fractions
    PROVE  FractionValue(f) \in -99..99
<1> DEFINE d == IF FractionLength(f) = 1 THEN Append(f.digits, 0) ELSE f.digits
<1>1. f.digits \in Digits /\ f.sign \in {"none", "plus", "minus"}
  BY FractionShape
<1>2. Len(f.digits) \in 0..2
  BY <1>1, DigitsAreSequences
<1>3. DigitsValue(d) \in 0..99
  <2>1. CASE FractionLength(f) = 1
    <3> DEFINE n == Len(f.digits)
    <3>0. n \in 0..2 /\ n + (IF f.sign = "none" THEN 0 ELSE 1) = 1
      BY <1>2, <2>1 DEF FractionLength
    <3> HIDE DEF n
    <3>1. n = 0 \/ n = 1
      BY <3>0
    <3> USE DEF n
    <3>2. CASE Len(f.digits) = 0
      BY <1>1, <2>1, <3>2, PaddedValue
    <3>3. CASE Len(f.digits) = 1
      <4>1. DigitsValue(Append(f.digits, 0)) = 10 * f.digits[1] /\ f.digits[1] \in 0..9
        BY <1>1, <3>3, PaddedValue
      <4> QED
        BY <2>1, <4>1
    <3> QED
      BY <3>1, <3>2, <3>3
  <2>2. CASE FractionLength(f) # 1
    BY <1>1, <2>2, PaddedValue
  <2> QED
    BY <2>1, <2>2
<1> QED
  BY <1>3 DEF FractionValue

\* What ParseString returns is a word.
LEMMA ParsedRange ==
    ASSUME NEW t, t.whole \in Int, t.fraction \in Fractions, t.neg \in BOOLEAN
    PROVE  ParseString(t) \in Cents
<1>1. FractionValue(t.fraction) \in Int
  BY FractionRange
<1>2. Wrap(t.whole * scale) \in Int
  BY WrapRange DEF scale, Cents
<1>3. Wrap(Wrap(t.whole * scale) + FractionValue(t.fraction)) \in Cents
  BY <1>1, <1>2, WrapRange
<1>4. -Wrap(Wrap(t.whole * scale) + FractionValue(t.fraction)) \in Int
  BY <1>3 DEF Cents
<1> QED
  BY <1>3, <1>4, WrapRange DEF ParseString

\* On a text whose cents fit the word, no step of ParseString wraps.
LEMMA ParsedExactly ==
    ASSUME NEW t, t.neg \in BOOLEAN, t.whole \in Nat, FractionValue(t.fraction) \in 0..99,
           100 * t.whole + FractionValue(t.fraction) < Half
    PROVE  ParseString(t) = IF t.neg THEN -(100 * t.whole + FractionValue(t.fraction))
                            ELSE 100 * t.whole + FractionValue(t.fraction)
<1> DEFINE w == t.whole
           h == FractionValue(t.fraction)
<1>0. w \in Nat /\ h \in 0..99 /\ 100 * w + h < Half
  OBVIOUS
<1>1. Half \in Nat
  BY MoneyAssumption
<1> HIDE DEF w, h
<1>2. w * scale = 100 * w /\ 100 * w \in Cents
  BY <1>0, <1>1 DEF scale, Cents
<1>3. 100 * w + h \in Cents /\ -(100 * w + h) \in Cents
  BY <1>0, <1>1 DEF Cents
<1>4. Wrap(w * scale) = 100 * w
  BY <1>2, WrapExact
<1>5. Wrap(Wrap(w * scale) + h) = 100 * w + h
  BY <1>3, <1>4, WrapExact
<1>6. Wrap(-(100 * w + h)) = -(100 * w + h)
  BY <1>3, WrapExact
<1> QED
  BY <1>5, <1>6 DEF ParseString, w, h

\* A well-formed fraction is worth what its digits denote, once it is padded.
LEMMA FractionDenotes ==
    ASSUME NEW t \in Texts, Accepts(t), WellFormed(t)
    PROVE  /\ FractionValue(t.fraction) \in 0..99
           /\ Denotes(t) = IF t.neg THEN -(100 * t.whole + FractionValue(t.fraction))
                           ELSE 100 * t.whole + FractionValue(t.fraction)
<1>1. t.whole \in Int /\ t.neg \in BOOLEAN /\ t.fraction \in Fractions
  BY WholeAssumption DEF Texts
<1> DEFINE d == t.fraction.digits
<1>2. d \in Digits /\ t.fraction.sign = "none" /\ FractionLength(t.fraction) = Len(d)
  BY <1>1, FractionShape, DigitsAreSequences DEF WellFormed, FractionLength
<1>3. CASE Len(d) = 0
  <2>1. FractionValue(t.fraction) = 0
    BY <1>2, <1>3, PaddedValue DEF FractionValue
  <2> QED
    BY <1>1, <1>2, <1>3, <2>1, DigitsAreSequences DEF Denotes
<1>4. CASE Len(d) = 1
  <2>1. FractionValue(t.fraction) = 10 * d[1] /\ d[1] \in 0..9
    BY <1>2, <1>4, PaddedValue DEF FractionValue
  <2>2. d # <<>>
    <3> HIDE DEF d
    <3> QED
      BY <1>4
  <2>3. Denotes(t) = IF t.neg THEN -(100 * t.whole + 10 * d[1]) ELSE 100 * t.whole + 10 * d[1]
    BY <1>4, <2>2 DEF Denotes
  <2> QED
    BY <2>1, <2>3
<1>5. CASE Len(d) = 2
  <2>1. FractionValue(t.fraction) = 10 * d[1] + d[2] /\ FractionValue(t.fraction) \in 0..99
    <3>1. DigitsValue(d) = 10 * d[1] + d[2] /\ DigitsValue(d) \in 0..99
      BY <1>2, <1>5, PaddedValue
    <3> QED
      BY <1>2, <1>5, <3>1 DEF FractionValue
  <2>2. d # <<>>
    BY <1>2, <1>5, DigitsAreSequences
  <2> QED
    BY <1>1, <1>5, <2>1, <2>2 DEF Denotes
<1> QED
  BY <1>2, <1>3, <1>4, <1>5, DigitsAreSequences

LEMMA TwoDigitsOf ==
    ASSUME NEW n \in 0..99
    PROVE  n \div 10 \in 0..9 /\ n % 10 \in 0..9 /\ n = 10 * (n \div 10) + (n % 10)
<1>1. n \div 10 \in 0..9 /\ n % 10 \in 0..9
  OBVIOUS
<1>2. n \in Int /\ n >= 0
  OBVIOUS
<1>3. n = 10 * (n \div 10) + (n % 10)
  BY <1>2
<1> QED
  BY <1>1, <1>3

\* What Decimal and MarshalJSON write is accepted and reads back, for every amount
\* but the one whose negation overflows.
LEMMA WrittenReadsBack ==
    ASSUME NEW c \in Cents, c # -Half
    PROVE  /\ Accepts(Decimal(c)) /\ ParseString(Decimal(c)) = c
           /\ Accepts(MarshalJSON(c)) /\ ParseString(MarshalJSON(c)) = c
<1> DEFINE a == IF c < 0 THEN -c ELSE c
           w == a \div 100
           h == a % 100
           long == [neg |-> c < 0, whole |-> w, fraction |-> Fraction("none", TwoDigits(h))]
           short == [neg |-> c < 0, whole |-> w, fraction |-> NoFraction]
<1>1. Half \in Nat \ {0} /\ c \in Int /\ a \in Nat /\ a < Half
  BY MoneyAssumption DEF Cents
<1>2. w \in Nat /\ h \in 0..99 /\ a = 100 * w + h
  BY <1>1
<1>3. w \in Cents
  BY <1>1, <1>2 DEF Cents
<1>4. (IF c < 0 THEN -a ELSE a) = c
  BY <1>1
<1> HIDE DEF w, h, a
<1>5. Accepts(long) /\ ParseString(long) = c
  <2>1. h \div 10 \in 0..9 /\ h % 10 \in 0..9 /\ h = 10 * (h \div 10) + (h % 10)
    BY <1>2, TwoDigitsOf
  <2>2. /\ TwoDigits(h) # <<>> /\ Len(TwoDigits(h)) = 2
        /\ TwoDigits(h)[1] = h \div 10 /\ TwoDigits(h)[2] = h % 10
    BY DEF TwoDigits
  <2>3. /\ long.fraction.point /\ long.fraction.sign = "none" /\ long.fraction.digits = TwoDigits(h)
        /\ long.whole = w /\ long.neg = (c < 0)
    BY DEF Fraction
  <2>4. FractionLength(long.fraction) = 2
    BY <2>2, <2>3 DEF FractionLength
  <2>5. FractionValue(long.fraction) = h
    <3>1. DigitsValue(TwoDigits(h)) = h
      <4> DEFINE d == TwoDigits(h)
      <4> HIDE DEF d
      <4>1. d # <<>> /\ Len(d) = 2 /\ d[1] = h \div 10 /\ d[2] = h % 10
        BY <2>2 DEF d
      <4>2. DigitsValue(d) = 10 * d[1] + d[2]
        BY <4>1 DEF DigitsValue
      <4>3. DigitsValue(d) = 10 * (h \div 10) + (h % 10)
        BY <4>1, <4>2
      <4> QED
        BY <2>1, <4>3 DEF d
    <3> QED
      BY <2>3, <2>4, <3>1 DEF FractionValue
  <2>6. Accepts(long)
    BY <1>3, <2>3, <2>4 DEF Accepts
  <2>7. ParseString(long) = IF long.neg THEN -(100 * w + h) ELSE 100 * w + h
    <3>1. long.neg \in BOOLEAN /\ 100 * w + h < Half
      BY <1>1, <1>2, <2>3
    <3> HIDE DEF long
    <3>2. long.whole = w /\ FractionValue(long.fraction) = h /\ w \in Nat /\ h \in 0..99
      BY <1>2, <2>3, <2>5
    <3>3. /\ long.whole \in Nat /\ FractionValue(long.fraction) \in 0..99
          /\ 100 * long.whole + FractionValue(long.fraction) < Half
      BY <3>1, <3>2
    <3>4. ParseString(long) = IF long.neg THEN -(100 * long.whole + FractionValue(long.fraction))
                              ELSE 100 * long.whole + FractionValue(long.fraction)
      BY <3>1, <3>3, ParsedExactly
    <3> QED
      BY <3>2, <3>4
  <2> HIDE DEF long
  <2>8. ParseString(long) = IF c < 0 THEN -a ELSE a
    BY <1>2, <2>3, <2>7
  <2> QED
    BY <1>4, <2>6, <2>8
<1>6. ASSUME h = 0 PROVE Accepts(short) /\ ParseString(short) = c
  <2>1. ~short.fraction.point /\ short.whole = w /\ short.neg = (c < 0)
    BY DEF NoFraction
  <2>2. FractionValue(short.fraction) = h
    BY <1>6 DEF FractionValue, FractionLength, DigitsValue, NoFraction
  <2>3. Accepts(short)
    BY <1>3, <2>1 DEF Accepts
  <2>4. ParseString(short) = IF short.neg THEN -(100 * w + h) ELSE 100 * w + h
    <3>1. short.neg \in BOOLEAN /\ 100 * w + h < Half
      BY <1>1, <1>2, <2>1
    <3> HIDE DEF short
    <3>2. short.whole = w /\ FractionValue(short.fraction) = h /\ w \in Nat /\ h \in 0..99
      BY <1>2, <2>1, <2>2
    <3>3. /\ short.whole \in Nat /\ FractionValue(short.fraction) \in 0..99
          /\ 100 * short.whole + FractionValue(short.fraction) < Half
      BY <3>1, <3>2
    <3>4. ParseString(short) = IF short.neg THEN -(100 * short.whole + FractionValue(short.fraction))
                               ELSE 100 * short.whole + FractionValue(short.fraction)
      BY <3>1, <3>3, ParsedExactly
    <3> QED
      BY <3>2, <3>4
  <2> HIDE DEF short
  <2>5. ParseString(short) = IF c < 0 THEN -a ELSE a
    BY <1>2, <2>1, <2>4
  <2> QED
    BY <1>4, <2>3, <2>5
<1>7. Decimal(c) = long
  BY DEF Decimal, scale, a, w, h
<1>8. MarshalJSON(c) = IF h = 0 THEN short ELSE long
  BY DEF MarshalJSON, scale, a, w, h
<1> QED
  BY <1>5, <1>6, <1>7, <1>8

\* The text of a behaviour never changes.
LEMMA TextStays == Spec => [](text \in Texts)
<1>1. NoText \in Texts
  BY WholeAssumption DEF Texts, Fractions, NoText
<1>2. Init => text \in Texts
  BY <1>1 DEF Init
<1>3. text \in Texts /\ [Next]_vars => (text \in Texts)'
  BY DEF Next, vars
<1> QED
  BY <1>2, <1>3, PTL DEF Spec

\* ParseString is exact for every decimal number that fits a NUMERIC(15,2) column,
\* for every width of the word that holds the column (ParseString, parseDecimal).
THEOREM ParsingIsExact == Spec => []ParseIsExact
<1>1. text \in Texts => ParseIsExact
  <2> SUFFICES ASSUME text \in Texts, Accepts(text), WellFormed(text),
                      Denotes(text) \in -NumericMax..NumericMax
               PROVE  ParseString(text) = Denotes(text)
    BY DEF ParseIsExact
  <2> DEFINE h == FractionValue(text.fraction)
  <2>1. text.whole \in Nat /\ text.neg \in BOOLEAN
    BY WholeAssumption DEF Texts, WellFormed
  <2>2. h \in 0..99 /\ Denotes(text) = IF text.neg THEN -(100 * text.whole + h)
                                       ELSE 100 * text.whole + h
    BY FractionDenotes
  <2>3. 100 * text.whole + h < Half
    BY <2>1, <2>2, MoneyAssumption
  <2>4. ParseString(text) = IF text.neg THEN -(100 * text.whole + h) ELSE 100 * text.whole + h
    BY <2>1, <2>2, <2>3, ParsedExactly
  <2> QED
    BY <2>2, <2>4
<1> QED
  BY <1>1, TextStays, PTL

\* What is written to the database or to a client reads back as the same amount
\* (Decimal, MarshalJSON, ParseString), for every amount ParseString can return.
THEOREM WritingRoundTrips == Spec => []RoundTrip
<1>1. text \in Texts => RoundTrip
  <2> SUFFICES ASSUME text \in Texts PROVE RoundTrip
    OBVIOUS
  <2>1. ParseString(text) \in Cents
    BY ParsedRange, WholeAssumption DEF Texts
  <2> QED
    BY <2>1, WrittenReadsBack DEF RoundTrip
<1> QED
  BY <1>1, TextStays, PTL

-----------------------------------------------------------------------------
(* The start-up. *)

\* Numbers read from the environment are integers.
LEMMA intOrInt == ASSUME NEW v \in Numerics, NEW f \in Int PROVE intOr(v, f) \in Int
<1>1. v.value \in Int
  BY StartupAssumption DEF Numerics, Unset, Junk, Number
<1> QED
  BY <1>1 DEF intOr

\* A configuration that loaded holds what the environment asks for.
LEMMA LoadedAsAsked ==
    ASSUME NEW e \in Environments, Loads(e)
    PROVE  /\ e.present = Required
           /\ Config(e) \in [jwtExp : Int, workers : Int, maxRetries : Int]
           /\ Asks(e.jwtExp, 120, Config(e).jwtExp)
           /\ Asks(e.workers, 3, Config(e).workers)
           /\ Asks(e.maxRetries, 3, Config(e).maxRetries)
           /\ Config(e).maxRetries >= 0
<1>1. e.jwtExp \in Numerics /\ e.workers \in Numerics /\ e.maxRetries \in Numerics
  BY DEF Environments
<1>2. \A v \in Numerics, f \in Int : ~Malformed(v) => Asks(v, f, intOr(v, f))
  BY DEF Numerics, Unset, Junk, Number, Malformed, Asks, intOr
<1> QED
  BY <1>1, <1>2, intOrInt DEF Loads, Config

-----------------------------------------------------------------------------
Unloaded == {"load", "returned", "exited"}

(* What holds along the way: a return closes all that is open, and what comes  *)
(* after a step rests on the step.                                           *)
BootInv ==
    /\ BootTypeOK
    /\ deferred = opened
    /\ at = "returned" => opened = {}
    /\ binary # "seed" /\ at \notin Unloaded =>
          /\ env.present = Required
          /\ Asks(env.jwtExp, 120, cfg.jwtExp)
          /\ Asks(env.workers, 3, cfg.workers)
          /\ Asks(env.maxRetries, 3, cfg.maxRetries) /\ cfg.maxRetries >= 0
    /\ binary = "api" /\ at \in {"seed", "redis", "serving"} =>
          /\ expiry > 0
          /\ cfg.jwtExp * Minute \in Cents => expiry = cfg.jwtExp * Minute
    /\ binary = "seed" => at \in {"load", "pool", "seed", "returned", "exited"}
    /\ binary = "api" => at # "sentinel"

LEMMA BootInvInit == BootInit => BootInv
BY MoneyAssumption DEF BootInit, BootInv, BootTypeOK, NoConfig, Unloaded, Cents

LEMMA BootInvNext == BootInv /\ [BootNext]_bootVars => BootInv'
<1> SUFFICES ASSUME BootInv, [BootNext]_bootVars PROVE BootInv'
  OBVIOUS
<1> USE DEF BootInv, BootTypeOK, Return, Goto, Unloaded
<1>1. CASE Load
  <2>1. CASE binary # "seed" /\ Loads(env) /\ cfg' = Config(env) /\ Goto("pool")
    BY <1>1, <2>1, LoadedAsAsked DEF Load
  <2>2. CASE binary = "seed" \/ Return
    BY <1>1, <2>2 DEF Load
  <2> QED
    BY <1>1, <2>1, <2>2 DEF Load
<1>2. CASE NewPostgresPool
  BY <1>2 DEF NewPostgresPool
<1>3. CASE NewTokenManager
  <2>1. cfg.jwtExp * Minute \in Int
    BY StartupAssumption
  <2>2. /\ Multiply(cfg.jwtExp, Minute) \in Cents
        /\ cfg.jwtExp * Minute \in Cents => Multiply(cfg.jwtExp, Minute) = cfg.jwtExp * Minute
    BY <2>1, WrapRange, WrapExact DEF Multiply
  <2> QED
    BY <1>3, <2>2 DEF NewTokenManager
<1>4. CASE SeedDefaultAdmin
  BY <1>4 DEF SeedDefaultAdmin
<1>5. CASE NewRedisClient
  BY <1>5 DEF NewRedisClient
<1>6. CASE ParseSentinel
  BY <1>6 DEF ParseSentinel
<1>7. CASE Stop
  BY <1>7 DEF Stop
<1>8. CASE UNCHANGED bootVars
  BY <1>8 DEF bootVars, Asks
<1> QED
  BY <1>1, <1>2, <1>3, <1>4, <1>5, <1>6, <1>7, <1>8 DEF BootNext

LEMMA BootInvHolds == BootSpec => []BootInv
BY BootInvInit, BootInvNext, PTL DEF BootSpec

\* The start-up keeps its types.
THEOREM BootTypes == BootSpec => []BootTypeOK
<1>1. BootInv => BootTypeOK
  BY DEF BootInv
<1> QED
  BY <1>1, BootInvHolds, PTL

\* Whatever step fails, a process that returns has closed what it had opened.
THEOREM EveryReturnReleases == BootSpec => []ReturnReleases
<1>1. BootInv => ReturnReleases
  BY DEF BootInv, ReturnReleases
<1> QED
  BY <1>1, BootInvHolds, PTL

\* A process never serves with a number that its environment does not ask for.
THEOREM ConfigurationIsAsAsked == BootSpec => []ServesAsAsked
<1>1. BootInv => ServesAsAsked
  BY DEF BootInv, ServesAsAsked, Unloaded
<1> QED
  BY <1>1, BootInvHolds, PTL

\* The expiry of an API that serves is positive, and the one asked for if it fits.
THEOREM TokensAreIssuedAlive == BootSpec => []ServesLiveTokens
<1>1. BootInv => ServesLiveTokens
  BY DEF BootInv, ServesLiveTokens, Unloaded
<1> QED
  BY <1>1, BootInvHolds, PTL

==============================================================================
