----------------------------- MODULE OrderIntake -----------------------------
(***************************************************************************)
(* Service.Create between its validation and the commit of the order,       *)
(* against customers and products that other requests change meanwhile.     *)
(* Customers and products are two catalogs; Create reads the customer, then *)
(* all products at once, computes the amounts and inserts the order with    *)
(* its items in one transaction.  What follows (the publish) is             *)
(* OrderProcessing's part.                                                  *)
(***************************************************************************)
EXTENDS Money, SequencesExt

CONSTANTS
    CustomerIds, Documents, CustomerClients,
    ProductIds, Skus, ProductPrices, ProductClients,
    OrderIds,      \* order ids the API may generate
    Handlers,      \* concurrent POST /api/orders requests
    Quantities,    \* quantities a client may ask for
    MaxItems,      \* bound on the lines of a request
    IntegerMax,    \* the largest value of an INTEGER column
    None           \* no row, no order

VARIABLES
    customers, customerReq,
    products, productReq,
    intake,   \* the running Create of each handler
    orders,   \* committed orders with their items
    window,   \* history: the price lists in force since a running Create began
    legal     \* history: whether all that a Create uses was active when it began

customerVars == <<customers, customerReq>>
productVars == <<products, productReq>>
history == <<window, legal>>
intakeVars == <<customerVars, productVars, intake, orders, history>>

Customers == INSTANCE Catalog WITH
    Ids <- CustomerIds, Keys <- Documents, Prices <- {0}, Clients <- CustomerClients,
    MayFail <- FALSE, rows <- customers, req <- customerReq

Products == INSTANCE Catalog WITH
    Ids <- ProductIds, Keys <- Skus, Prices <- ProductPrices, Clients <- ProductClients,
    MayFail <- FALSE, rows <- products, req <- productReq

ASSUME IntakeAssumption ==
    /\ None \notin CustomerIds \cup Documents \cup {0} \cup Customers!Row
    /\ None \notin ProductIds \cup Skus \cup ProductPrices \cup Products!Row
    /\ ProductPrices \subseteq Nat /\ Quantities \subseteq Nat
    /\ MaxItems \in Nat

-----------------------------------------------------------------------------

Item == [product : ProductIds, quantity : Quantities]
Line == [product : ProductIds, quantity : Quantities, price : ProductPrices, total : Cents]
Order == [customer : CustomerIds, lines : Seq(Line), total : Cents]

\* A Create at work: its body, and the order lines it has built.
Intake == [pc : {"idle", "products", "insert"}, customer : CustomerIds \cup {None},
           items : Seq(Item), lines : Seq(Line)]
IdleIntake == [pc |-> "idle", customer |-> None, items |-> <<>>, lines |-> <<>>]

\* The request is answered.
Ended(h) ==
    /\ intake' = [intake EXCEPT ![h] = IdleIntake]
    /\ window' = [window EXCEPT ![h] = {}]
    /\ legal' = [legal EXCEPT ![h] = FALSE]

ItemTotal(price, quantity) == Multiply(price, quantity)

\* The loop over the lines, with the sum after each.
OrderTotal(lines) ==
    LET sum[n \in 0..Len(lines)] == IF n = 0 THEN 0 ELSE Add(sum[n - 1], lines[n].total)
    IN  sum[Len(lines)]

Used(items) == {items[n].product : n \in DOMAIN items}

PriceLists == UNION {[S -> ProductPrices] : S \in SUBSET ProductIds}

PriceList(rows) == [p \in {q \in ProductIds : rows[q] # None} |-> rows[p].price]

\* Mutant: inactive customers and products are accepted.
UsableAlways(row) == TRUE

Usable(row) == row.active

\* Create up to its check of the customer.  Clients name products by the ids they
\* were given, so these exist; any other request ends here without effect.
LoadCustomer(h) ==
    /\ intake[h].pc = "idle"
    /\ \E c \in CustomerIds, items \in BoundedSeq(Item, MaxItems) :
          /\ items # <<>>
          /\ \A p \in Used(items) : products[p] # None
          /\ customers[c] # None
          /\ Usable(customers[c])
          /\ intake' = [intake EXCEPT ![h] = [pc |-> "products", customer |-> c,
                                              items |-> items, lines |-> <<>>]]
          /\ legal' = [legal EXCEPT ![h] =
                          customers[c].active /\ \A p \in Used(items) : products[p].active]
    /\ window' = [window EXCEPT ![h] = {PriceList(products)}]
    /\ UNCHANGED <<customerVars, productVars, orders>>

\* Mutant: products are loaded one at a time.
BatchOne(items) == 1

\* FindManyByID asks for all ids in one statement.
Batch(items) == Len(items)

\* The line of an order for an item, priced from the row just read.
PricedLine(item) ==
    LET price == products[item.product].price
    IN  [product |-> item.product, quantity |-> item.quantity, price |-> price,
         total |-> ItemTotal(price, item.quantity)]

\* Create reads the products, copies their prices and computes the totals; an
\* inactive product ends the request.
LoadProducts(h) ==
    LET r == intake[h]
        n == Len(r.lines) + Batch(r.items)
        batch == SubSeq(r.items, Len(r.lines) + 1, n)
    IN  /\ r.pc = "products"
        /\ IF \E p \in Used(batch) : ~Usable(products[p])
           THEN Ended(h)
           ELSE /\ intake' = [intake EXCEPT
                      ![h].pc = IF n = Len(r.items) THEN "insert" ELSE "products",
                      ![h].lines = @ \o [i \in DOMAIN batch |-> PricedLine(batch[i])]]
                /\ UNCHANGED history
        /\ UNCHANGED <<customerVars, productVars, orders>>

\* The column types and CHECK constraints of orders and order_items.
Storable(order) ==
    /\ order.total \in 0..NumericMax
    /\ \A n \in DOMAIN order.lines :
          /\ order.lines[n].total \in 1..NumericMax
          /\ order.lines[n].quantity <= IntegerMax

\* Mutant: the items take the price of the moment they are inserted.
BuiltOrderRepriced(r) ==
    [customer |-> r.customer, total |-> OrderTotal(r.lines),
     lines |-> [n \in DOMAIN r.lines |->
                   [r.lines[n] EXCEPT !.price = products[r.lines[n].product].price]]]

BuiltOrder(r) == [customer |-> r.customer, lines |-> r.lines, total |-> OrderTotal(r.lines)]

\* CreateWithItems: one transaction, which fails as a whole when a row is not storable.
InsertOrder(h) ==
    /\ intake[h].pc = "insert"
    /\ LET order == BuiltOrder(intake[h])
       IN  \E o \in OrderIds :
              /\ orders[o] = None
              /\ orders' = IF Storable(order) THEN [orders EXCEPT ![o] = order] ELSE orders
    /\ Ended(h)
    /\ UNCHANGED <<customerVars, productVars>>

\* A statement fails or the client goes away: the request ends, nothing is kept.
AbandonIntake(h) ==
    /\ intake[h].pc # "idle"
    /\ Ended(h)
    /\ UNCHANGED <<customerVars, productVars, orders>>

CustomerRequest ==
    /\ Customers!CatalogNext
    /\ UNCHANGED <<productVars, intake, orders, history>>

ProductRequest ==
    /\ Products!CatalogNext
    /\ window' = [h \in Handlers |-> IF intake[h].pc = "products"
                                   THEN window[h] \cup {PriceList(products')}
                                   ELSE window[h]]
    /\ UNCHANGED <<customerVars, intake, orders, legal>>

Init ==
    /\ Customers!CatalogInit
    /\ Products!CatalogInit
    /\ intake = [h \in Handlers |-> IdleIntake]
    /\ orders = [o \in OrderIds |-> None]
    /\ window = [h \in Handlers |-> {}]
    /\ legal = [h \in Handlers |-> FALSE]

Next ==
    \/ CustomerRequest
    \/ ProductRequest
    \/ \E h \in Handlers :
          \/ LoadCustomer(h)
          \/ LoadProducts(h)
          \/ InsertOrder(h)
          \/ AbandonIntake(h)

Spec == Init /\ [][Next]_intakeVars

-----------------------------------------------------------------------------
(* Properties. *)

\* Every variable of the intake has its type.
IntakeTypeOK ==
    /\ Customers!CatalogTypeOK
    /\ Products!CatalogTypeOK
    /\ intake \in [Handlers -> Intake]
    /\ orders \in [OrderIds -> Order \cup {None}]
    /\ window \in [Handlers -> SUBSET PriceLists]
    /\ legal \in [Handlers -> BOOLEAN]

\* The Create of handler h commits order o in this step.
Commits(h, o) ==
    /\ intake[h].pc = "insert"
    /\ intake'[h].pc = "idle"
    /\ orders[o] = None
    /\ orders'[o] # None

\* The prices of an order's items (BR-PRD-005) were all in force at one and the
\* same moment of the request, whatever Updates ran between its reads.
PricesAreOneSnapshot ==
    [][\A h \in Handlers, o \in OrderIds : Commits(h, o) =>
          \E list \in window[h] : \A n \in DOMAIN orders'[o].lines :
              orders'[o].lines[n].price = list[orders'[o].lines[n].product]]_intakeVars

\* Customer and products of a committed order were all active together at the
\* moment its Create checked the customer (BR-CUS-003, BR-PRD-004).
WasLegalAtStart ==
    [][\A h \in Handlers, o \in OrderIds : Commits(h, o) => legal[h]]_intakeVars

\* Lines as Create builds them: the total of each is its price times its quantity,
\* in the word.
LinesComputed(lines) ==
    /\ Len(lines) <= MaxItems
    /\ \A n \in DOMAIN lines : lines[n].total = Wrap(lines[n].price * lines[n].quantity)

\* A stored order has such lines and their sum, and fits its columns.
StoredAsBuilt ==
    \A o \in OrderIds : orders[o] # None =>
        /\ LinesComputed(orders[o].lines)
        /\ orders[o].total = OrderTotal(orders[o].lines)
        /\ Storable(orders[o])

\* A Create that is about to read the products has an inactive one before it if
\* not all were active when it began, and the price list in force is in its window.
BeforeProducts(h) ==
    intake[h].pc = "products" =>
        /\ intake[h].customer \in CustomerIds
        /\ intake[h].lines = <<>>
        /\ Len(intake[h].items) <= MaxItems
        /\ \A p \in Used(intake[h].items) : products[p] # None
        /\ PriceList(products) \in window[h]
        /\ ~legal[h] => \E p \in Used(intake[h].items) : ~products[p].active

\* One that is about to insert was legal when it began, and has copied all its
\* prices from one list of its window.
BeforeInsert(h) ==
    intake[h].pc = "insert" =>
        /\ intake[h].customer \in CustomerIds
        /\ legal[h]
        /\ LinesComputed(intake[h].lines)
        /\ \E list \in window[h] : \A n \in DOMAIN intake[h].lines :
              intake[h].lines[n].price = list[intake[h].lines[n].product]

\* The inductive invariant.
IntakeInv ==
    /\ IntakeTypeOK
    /\ Customers!CatalogInv /\ Products!CatalogInv
    /\ \A h \in Handlers : BeforeProducts(h) /\ BeforeInsert(h)
    /\ StoredAsBuilt

\* The sum of the lines as a number.
ExactTotal(lines) ==
    LET sum[n \in 0..Len(lines)] == IF n = 0 THEN 0 ELSE sum[n - 1] + lines[n].total
    IN  sum[Len(lines)]

\* The amounts of a stored order agree with each other (BR-ORD-004): each line's
\* total with its own price and quantity in the word that computed it, and the
\* order's total with the exact sum of its lines.
AmountsAgree ==
    \A o \in OrderIds : orders[o] # None =>
        /\ \A n \in DOMAIN orders[o].lines :
              LET l == orders[o].lines[n] IN l.total = Wrap(l.price * l.quantity)
        /\ orders[o].total = ExactTotal(orders[o].lines)

==============================================================================
