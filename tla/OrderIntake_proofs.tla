------------------------- MODULE OrderIntake_proofs -------------------------
(***************************************************************************)
(* Proofs about OrderIntake, for any number of customers, products, items   *)
(* of a request and concurrent requests.  What the two tables contribute    *)
(* is taken from the proofs about Catalog.                                  *)
(***************************************************************************)
EXTENDS OrderIntake, SequenceTheorems, WellFoundedInduction, TLAPS

CustomerFacts == INSTANCE Catalog_proofs WITH
    Ids <- CustomerIds, Keys <- Documents, Prices <- {0}, Clients <- CustomerClients,
    MayFail <- FALSE, rows <- customers, req <- customerReq

ProductFacts == INSTANCE Catalog_proofs WITH
    Ids <- ProductIds, Keys <- Skus, Prices <- ProductPrices, Clients <- ProductClients,
    MayFail <- FALSE, rows <- products, req <- productReq

-----------------------------------------------------------------------------
(* The tables. *)

\* The requests of customers keep the invariant of their table.
LEMMA CustomersKeepInv ==
    ASSUME Customers!CatalogInv, Customers!CatalogNext
    PROVE  Customers!CatalogInv'
<1>1. CustomerFacts!CatalogInv /\ CustomerFacts!CatalogNext => CustomerFacts!CatalogInv'
  <2>1. CustomerFacts!CatalogInv /\ [CustomerFacts!CatalogNext]_(CustomerFacts!catalogVars)
           => CustomerFacts!CatalogInv'
    BY CustomerFacts!NextCatalogInv, IntakeAssumption DEF Customers!Row, CustomerFacts!Row
  <2> QED
    BY <2>1
<1>2. Customers!CatalogInv <=> CustomerFacts!CatalogInv
  BY DEF Customers!CatalogInv, Customers!CatalogTypeOK, Customers!RequestsAtWork,
         Customers!KeysUnique, Customers!Exists, Customers!Row,
         Customers!Request,
         CustomerFacts!CatalogInv, CustomerFacts!CatalogTypeOK,
         CustomerFacts!RequestsAtWork, CustomerFacts!KeysUnique,
         CustomerFacts!Exists, CustomerFacts!Row, CustomerFacts!Request
<1>3. Customers!CatalogInv' <=> CustomerFacts!CatalogInv'
  BY DEF Customers!CatalogInv, Customers!CatalogTypeOK, Customers!RequestsAtWork,
         Customers!KeysUnique, Customers!Exists, Customers!Row,
         Customers!Request,
         CustomerFacts!CatalogInv, CustomerFacts!CatalogTypeOK,
         CustomerFacts!RequestsAtWork, CustomerFacts!KeysUnique,
         CustomerFacts!Exists, CustomerFacts!Row, CustomerFacts!Request
<1>4. Customers!CatalogNext <=> CustomerFacts!CatalogNext
  BY DEF Customers!CatalogNext, Customers!CatalogStep, Customers!CheckCreate,
         Customers!Insert, Customers!LoadForUpdate, Customers!CheckUpdate,
         Customers!ApplyUpdate, Customers!Deactivate, Customers!Write,
         Customers!Answered, Customers!IdleRequest, Customers!AcceptedKeys,
         Customers!KeyTaken, Customers!Rejects, Customers!Updated,
         Customers!Exists,
         CustomerFacts!CatalogNext, CustomerFacts!CatalogStep, CustomerFacts!CheckCreate,
         CustomerFacts!Insert, CustomerFacts!LoadForUpdate,
         CustomerFacts!CheckUpdate, CustomerFacts!ApplyUpdate,
         CustomerFacts!Deactivate, CustomerFacts!Write, CustomerFacts!Answered,
         CustomerFacts!IdleRequest, CustomerFacts!AcceptedKeys,
         CustomerFacts!KeyTaken, CustomerFacts!Rejects, CustomerFacts!Updated,
         CustomerFacts!Exists
<1> QED
  BY <1>1, <1>2, <1>3, <1>4

\* The requests of products keep the invariant of their table.
LEMMA ProductsKeepInv ==
    ASSUME Products!CatalogInv, Products!CatalogNext
    PROVE  Products!CatalogInv'
<1>1. ProductFacts!CatalogInv /\ ProductFacts!CatalogNext => ProductFacts!CatalogInv'
  <2>1. ProductFacts!CatalogInv /\ [ProductFacts!CatalogNext]_(ProductFacts!catalogVars)
           => ProductFacts!CatalogInv'
    BY ProductFacts!NextCatalogInv, IntakeAssumption DEF Products!Row, ProductFacts!Row
  <2> QED
    BY <2>1
<1>2. Products!CatalogInv <=> ProductFacts!CatalogInv
  BY DEF Products!CatalogInv, Products!CatalogTypeOK, Products!RequestsAtWork,
         Products!KeysUnique, Products!Exists, Products!Row, Products!Request,
         ProductFacts!CatalogInv, ProductFacts!CatalogTypeOK,
         ProductFacts!RequestsAtWork, ProductFacts!KeysUnique,
         ProductFacts!Exists, ProductFacts!Row, ProductFacts!Request
<1>3. Products!CatalogInv' <=> ProductFacts!CatalogInv'
  BY DEF Products!CatalogInv, Products!CatalogTypeOK, Products!RequestsAtWork,
         Products!KeysUnique, Products!Exists, Products!Row, Products!Request,
         ProductFacts!CatalogInv, ProductFacts!CatalogTypeOK,
         ProductFacts!RequestsAtWork, ProductFacts!KeysUnique,
         ProductFacts!Exists, ProductFacts!Row, ProductFacts!Request
<1>4. Products!CatalogNext <=> ProductFacts!CatalogNext
  BY DEF Products!CatalogNext, Products!CatalogStep, Products!CheckCreate,
         Products!Insert, Products!LoadForUpdate, Products!CheckUpdate,
         Products!ApplyUpdate, Products!Deactivate, Products!Write,
         Products!Answered, Products!IdleRequest, Products!AcceptedKeys,
         Products!KeyTaken, Products!Rejects, Products!Updated, Products!Exists,
         ProductFacts!CatalogNext, ProductFacts!CatalogStep, ProductFacts!CheckCreate,
         ProductFacts!Insert, ProductFacts!LoadForUpdate,
         ProductFacts!CheckUpdate, ProductFacts!ApplyUpdate,
         ProductFacts!Deactivate, ProductFacts!Write, ProductFacts!Answered,
         ProductFacts!IdleRequest, ProductFacts!AcceptedKeys,
         ProductFacts!KeyTaken, ProductFacts!Rejects, ProductFacts!Updated,
         ProductFacts!Exists
<1> QED
  BY <1>1, <1>2, <1>3, <1>4

\* No request deletes a product or activates one again.
LEMMA ProductsStayOff ==
    ASSUME Products!CatalogInv, Products!CatalogNext, NEW p \in ProductIds, products[p] # None
    PROVE  products'[p] # None /\ (products'[p].active => products[p].active)
<1> USE DEF Products!CatalogInv, Products!CatalogTypeOK, Products!Exists
<1>1. PICK c \in ProductClients : Products!CatalogStep(c)
  BY DEF Products!CatalogNext
<1>2. products \in [ProductIds -> Products!Row \cup {None}] /\ None \notin Products!Row
  BY IntakeAssumption
<1>3. CASE UNCHANGED products
  BY <1>3
<1>4. CASE Products!Insert(c)
  BY <1>2, <1>4 DEF Products!Insert, Products!Write
<1>5. CASE Products!ApplyUpdate(c)
  <2> DEFINE i == productReq[c].id
             new == Products!Updated(products[i], productReq[c])
  <2>1. i \in ProductIds /\ products[i] \in Products!Row
    BY <1>1, <1>2, <1>5 DEF Products!ApplyUpdate, Products!RequestsAtWork
  <2>2. new.active = products[i].active /\ new \in Products!Row
    BY <1>1, <1>5, <2>1 DEF Products!ApplyUpdate, Products!RequestsAtWork, Products!Updated, Products!Row
  <2>3. products' = products \/ products' = [products EXCEPT ![i] = new]
    BY <1>5 DEF Products!ApplyUpdate, Products!Write
  <2> QED
    BY <1>2, <2>1, <2>2, <2>3
<1>6. CASE Products!Deactivate(c)
  <2>1. PICK i \in ProductIds : products[i] # None /\ products' = [products EXCEPT ![i].active = FALSE]
    BY <1>6 DEF Products!Deactivate
  <2>2. products[i] \in Products!Row /\ [products[i] EXCEPT !.active = FALSE] \in Products!Row
    BY <1>2, <2>1 DEF Products!Row
  <2> QED
    BY <1>2, <2>1, <2>2 DEF Products!Row
<1> QED
  BY <1>1, <1>3, <1>4, <1>5, <1>6
     DEF Products!CatalogStep, Products!CheckCreate, Products!LoadForUpdate, Products!CheckUpdate

\* A price list is a function on the products that exist.
LEMMA PriceListType ==
    ASSUME NEW rows, rows \in [ProductIds -> Products!Row \cup {None}]
    PROVE  PriceList(rows) \in PriceLists
<1> DEFINE S == {q \in ProductIds : rows[q] # None}
<1>1. PriceList(rows) \in [S -> ProductPrices]
  BY DEF PriceList, Products!Row
<1>2. S \in SUBSET ProductIds
  OBVIOUS
<1> QED
  BY <1>1, <1>2 DEF PriceLists

-----------------------------------------------------------------------------
(* The lines of an order. *)

LEMMA WrapType == ASSUME NEW x \in Int PROVE Wrap(x) \in Cents
  BY MoneyAssumption DEF Wrap, Cents

\* A priced line is well typed and has the price of the list in force.
LEMMA PricedLineType ==
    ASSUME products \in [ProductIds -> Products!Row \cup {None}],
           NEW item \in Item, products[item.product] # None
    PROVE  /\ PricedLine(item) \in Line
           /\ PricedLine(item).price = PriceList(products)[PricedLine(item).product]
<1> DEFINE price == products[item.product].price
<1>1. item.product \in ProductIds /\ item.quantity \in Quantities
  BY DEF Item
<1>2. price \in ProductPrices
  BY <1>1 DEF Products!Row
<1>3. price \in Nat /\ item.quantity \in Nat
  BY <1>1, <1>2, IntakeAssumption
<1>4. price * item.quantity \in Int
  BY <1>3
<1>5. ItemTotal(price, item.quantity) \in Cents
  BY <1>4, WrapType DEF ItemTotal, Multiply
<1>6. PricedLine(item) \in Line
  BY <1>1, <1>2, <1>5 DEF PricedLine, Line
<1>7. PriceList(products)[item.product] = price
  BY <1>1 DEF PriceList
<1> QED
  BY <1>6, <1>7 DEF PricedLine

\* A request names products.
LEMMA UsedProducts == ASSUME NEW items \in Seq(Item) PROVE Used(items) \subseteq ProductIds
<1>1. \A n \in DOMAIN items : items[n] \in Item
  OBVIOUS
<1> QED
  BY <1>1 DEF Used, Item

\* All lines of a request are priced at once.
LEMMA PricedLines ==
    ASSUME products \in [ProductIds -> Products!Row \cup {None}],
           NEW items \in Seq(Item), \A p \in Used(items) : products[p] # None
    PROVE  LET lines == <<>> \o [i \in DOMAIN items |-> PricedLine(items[i])]
           IN  /\ lines \in Seq(Line)
               /\ Len(lines) = Len(items)
               /\ \A n \in DOMAIN lines : lines[n].price = PriceList(products)[lines[n].product]
               /\ \A n \in DOMAIN lines : lines[n].total = Wrap(lines[n].price * lines[n].quantity)
<1> DEFINE priced == [i \in DOMAIN items |-> PricedLine(items[i])]
<1>1. \A i \in DOMAIN items : items[i] \in Item /\ products[items[i].product] # None
  BY DEF Used
<1>2. \A i \in DOMAIN items : /\ PricedLine(items[i]) \in Line
                              /\ PricedLine(items[i]).price = PriceList(products)[PricedLine(items[i]).product]
  BY <1>1, PricedLineType
<1>3. DOMAIN items = 1..Len(items) /\ Len(items) \in Nat
  OBVIOUS
<1>4. priced \in Seq(Line) /\ Len(priced) = Len(items)
  <2>1. priced \in [1..Len(items) -> Line]
    BY <1>2, <1>3
  <2> QED
    BY <1>3, <2>1
<1>5. <<>> \o priced = priced
  BY <1>4
<1> HIDE DEF priced
<1>6. \A n \in DOMAIN priced : priced[n].price = PriceList(products)[priced[n].product]
  BY <1>2 DEF priced
<1>7. \A n \in DOMAIN priced : priced[n].total = Wrap(priced[n].price * priced[n].quantity)
  BY DEF priced, PricedLine, ItemTotal, Multiply
<1> QED
  BY <1>4, <1>5, <1>6, <1>7 DEF priced

-----------------------------------------------------------------------------
(* The sum of the lines.  What a loop computes is proved from the smallest    *)
(* round that would go wrong.                                               *)

\* A set of numbers has a smallest one.
LEMMA LeastNumber == ASSUME NEW T \in SUBSET Nat, T # {} PROVE \E x \in T : \A y \in T : x <= y
<1> DEFINE R == OpToRel(<, Nat)
<1>1. IsWellFoundedOn(R, Nat)
  BY NatLessThanWellFounded
<1>2. \E x \in T : \A y \in T : <<y, x>> \notin R
  <2> HIDE DEF R
  <2> QED
    BY <1>1, WFMin
<1>3. PICK x \in T : \A y \in T : <<y, x>> \notin R
  BY <1>2
<1>4. \A y \in T : ~(y < x)
  BY <1>3 DEF OpToRel
<1> QED
  BY <1>4

\* The running values of a loop over the lines 1..N that adds line n to v as A[<<v, n>>].
Running(f, A, N) == f = [n \in 0..N |-> IF n = 0 THEN 0 ELSE A[<<f[n - 1], n>>]]

\* Every loop has its running values.
LEMMA LoopRuns ==
    ASSUME NEW N \in Nat, NEW A \in [Int \X Nat -> Int]
    PROVE  \E f \in [0..N -> Int] : Running(f, A, N)
<1> DEFINE Bad == {k \in Nat : ~\E f \in [0..k -> Int] : Running(f, A, k)}
<1> SUFFICES ASSUME Bad # {} PROVE FALSE
  OBVIOUS
<1>1. PICK k \in Bad : \A y \in Bad : k <= y
  BY LeastNumber
<1>2. k \in Nat
  OBVIOUS
<1>3. CASE k = 0
  <2> DEFINE f == [n \in 0..0 |-> 0]
  <2>1. f \in [0..0 -> Int] /\ Running(f, A, 0)
    BY DEF Running
  <2> QED
    BY <1>3, <2>1
<1>4. CASE k # 0
  <2>1. k - 1 \in Nat /\ ~(k <= k - 1)
    BY <1>2, <1>4
  <2>2. PICK g \in [0..(k - 1) -> Int] : Running(g, A, k - 1)
    BY <1>1, <2>1
  <2> DEFINE f == [n \in 0..k |-> IF n = k THEN A[<<g[k - 1], k>>] ELSE g[n]]
  <2>3. A[<<g[k - 1], k>>] \in Int
    BY <2>1, <2>2, <1>2
  <2>4. f \in [0..k -> Int]
    <3> SUFFICES ASSUME NEW n \in 0..k PROVE f[n] \in Int
      OBVIOUS
    <3>1. n # k => n \in 0..(k - 1)
      BY <1>2
    <3> QED
      BY <2>2, <2>3, <3>1
  <2>5. ASSUME NEW n \in 0..k PROVE f[n] = IF n = 0 THEN 0 ELSE A[<<f[n - 1], n>>]
    <3>1. CASE n = k
      <4>1. k - 1 \in 0..k /\ k - 1 # k
        BY <1>2, <2>1
      <4>2. f[k - 1] = g[k - 1]
        BY <4>1
      <4> QED
        BY <1>4, <3>1, <4>2
    <3>2. CASE n # k
      <4>1. n \in 0..(k - 1)
        BY <1>2, <3>2
      <4>2. f[n] = g[n]
        BY <3>2
      <4>3. g[n] = IF n = 0 THEN 0 ELSE A[<<g[n - 1], n>>]
        BY <4>1, <2>2 DEF Running
      <4>4. n # 0 => n - 1 \in 0..k /\ n - 1 # k
        BY <1>2, <4>1
      <4>5. n # 0 => f[n - 1] = g[n - 1]
        BY <4>4
      <4> QED
        BY <4>2, <4>3, <4>5
    <3> QED
      BY <3>1, <3>2
  <2> HIDE DEF f
  <2>6. Running(f, A, k)
    BY <2>4, <2>5 DEF Running
  <2> QED
    BY <2>4, <2>6
<1> QED
  BY <1>3, <1>4

\* A word differs from the number it holds by a multiple of the modulus.
LEMMA WrapShifts ==
    ASSUME NEW x \in Int
    PROVE  Wrap(x) \in Int /\ \E k \in Int : Wrap(x) = x + k * (2 * Half)
<1>1. Half \in Nat \ {0}
  BY MoneyAssumption
<1> DEFINE m == 2 * Half
           q == (x + Half) \div m
<1>2. m \in Nat \ {0}
  BY <1>1
<1>3. Wrap(x) = ((x + Half) % m) - Half
  BY DEF Wrap
<1> HIDE DEF m
<1>4. q \in Int /\ (x + Half) % m = (x + Half) - (m * q)
  BY <1>1, <1>2
<1> HIDE DEF q
<1>5. m * q \in Int /\ -q \in Int /\ (-q) * m = -(m * q)
  BY <1>2, <1>4
<1>6. Wrap(x) = x + ((-q) * m)
  BY <1>1, <1>3, <1>4, <1>5
<1>7. Wrap(x) \in Int
  BY <1>5, <1>6
<1> QED
  BY <1>5, <1>6, <1>7 DEF m

LEMMA TotalsAreNumbers ==
    ASSUME NEW lines \in Seq(Line)
    PROVE  Len(lines) \in Nat /\ \A n \in 1..Len(lines) : lines[n].total \in Int
<1>1. \A n \in 1..Len(lines) : lines[n] \in Line
  OBVIOUS
<1>2. \A l \in Line : l.total \in Cents
  BY DEF Line
<1>3. Cents \subseteq Int
  BY MoneyAssumption DEF Cents
<1>4. \A n \in 1..Len(lines) : lines[n].total \in Cents
  BY <1>1, <1>2
<1>5. Len(lines) \in Nat
  OBVIOUS
<1> QED
  BY <1>3, <1>4, <1>5

\* OrderTotal is the last value of a loop that adds the totals in the word.
LEMMA OrderTotalLoop ==
    ASSUME NEW lines \in Seq(Line)
    PROVE  \E f : /\ OrderTotal(lines) = f[Len(lines)]
                 /\ f[0] = 0
                 /\ \A n \in 1..Len(lines) : f[n] = Add(f[n - 1], lines[n].total)
<1> DEFINE N == Len(lines)
           A == [p \in Int \X Nat |-> IF p[2] \in 1..N THEN Add(p[1], lines[p[2]].total) ELSE 0]
           F(f) == [n \in 0..N |-> IF n = 0 THEN 0 ELSE Add(f[n - 1], lines[n].total)]
<1>1. N \in Nat /\ \A n \in 1..N : lines[n].total \in Int
  BY TotalsAreNumbers
<1>2. A \in [Int \X Nat -> Int]
  <2>1. ASSUME NEW v \in Int, NEW n \in 1..N PROVE Add(v, lines[n].total) \in Int
    <3>1. v + lines[n].total \in Int
      BY <1>1
    <3> QED
      BY <3>1, WrapShifts DEF Add
  <2>2. ASSUME NEW p \in Int \X Nat PROVE A[p] \in Int
    <3>1. p[1] \in Int /\ p[2] \in Nat
      OBVIOUS
    <3>2. A[p] = IF p[2] \in 1..N THEN Add(p[1], lines[p[2]].total) ELSE 0
      OBVIOUS
    <3>3. p[2] \in 1..N => Add(p[1], lines[p[2]].total) \in Int
      BY <2>1, <3>1
    <3> HIDE DEF A
    <3> QED
      BY <3>2, <3>3
  <2> QED
    BY <2>2
<1>3. PICK g \in [0..N -> Int] : Running(g, A, N)
  BY <1>1, <1>2, LoopRuns
<1>4. g = F(g)
  <2>1. \A n \in 0..N : n # 0 => g[n] = Add(g[n - 1], lines[n].total)
    <3> SUFFICES ASSUME NEW n \in 0..N, n # 0 PROVE g[n] = Add(g[n - 1], lines[n].total)
      OBVIOUS
    <3>1. n \in 1..N /\ n \in Nat /\ n - 1 \in 0..N
      BY <1>1
    <3>2. g[n] = A[<<g[n - 1], n>>]
      BY <1>3 DEF Running
    <3>3. <<g[n - 1], n>> \in Int \X Nat
      BY <3>1
    <3> QED
      BY <3>1, <3>2, <3>3
  <2>2. g[0] = 0
    BY <1>1, <1>3 DEF Running
  <2> QED
    BY <2>1, <2>2
<1> DEFINE f == CHOOSE f : f = F(f)
<1>5. OrderTotal(lines) = f[N]
  BY DEF OrderTotal
<1>6. f = F(f)
  BY <1>4
<1> HIDE DEF f
<1>7. f[0] = 0 /\ \A n \in 1..N : f[n] = Add(f[n - 1], lines[n].total)
  BY <1>1, <1>6
<1> QED
  BY <1>5, <1>7

\* ExactTotal is the last value of a loop that adds the totals.
LEMMA ExactTotalLoop ==
    ASSUME NEW lines \in Seq(Line)
    PROVE  \E f : /\ ExactTotal(lines) = f[Len(lines)]
                 /\ f[0] = 0
                 /\ \A n \in 1..Len(lines) : f[n] = f[n - 1] + lines[n].total
<1> DEFINE N == Len(lines)
           A == [p \in Int \X Nat |-> IF p[2] \in 1..N THEN p[1] + lines[p[2]].total ELSE 0]
           F(f) == [n \in 0..N |-> IF n = 0 THEN 0 ELSE f[n - 1] + lines[n].total]
<1>1. N \in Nat /\ \A n \in 1..N : lines[n].total \in Int
  BY TotalsAreNumbers
<1>2. A \in [Int \X Nat -> Int]
  <2> SUFFICES ASSUME NEW v \in Int, NEW n \in 1..N PROVE v + lines[n].total \in Int
    OBVIOUS
  <2> QED
    BY <1>1
<1>3. PICK g \in [0..N -> Int] : Running(g, A, N)
  BY <1>1, <1>2, LoopRuns
<1>4. g = F(g)
  <2>1. \A n \in 0..N : n # 0 => g[n] = g[n - 1] + lines[n].total
    <3> SUFFICES ASSUME NEW n \in 0..N, n # 0 PROVE g[n] = g[n - 1] + lines[n].total
      OBVIOUS
    <3>1. n \in 1..N /\ n \in Nat /\ n - 1 \in 0..N
      BY <1>1
    <3>2. g[n] = A[<<g[n - 1], n>>]
      BY <1>3 DEF Running
    <3>3. <<g[n - 1], n>> \in Int \X Nat
      BY <3>1
    <3> QED
      BY <3>1, <3>2, <3>3
  <2>2. g[0] = 0
    BY <1>1, <1>3 DEF Running
  <2> QED
    BY <2>1, <2>2
<1> DEFINE f == CHOOSE f : f = F(f)
<1>5. ExactTotal(lines) = f[N]
  BY DEF ExactTotal
<1>6. f = F(f)
  BY <1>4
<1> HIDE DEF f
<1>7. f[0] = 0 /\ \A n \in 1..N : f[n] = f[n - 1] + lines[n].total
  BY <1>1, <1>6
<1> QED
  BY <1>5, <1>7

\* What Create sums up in the word is the sum, if it is storable and there are no
\* more lines than the word has room for.
LEMMA SumIsExact ==
    ASSUME NEW lines \in Seq(Line), Len(lines) <= MaxItems,
           MaxItems * NumericMax < 2 * Half,
           \A n \in DOMAIN lines : lines[n].total \in 1..NumericMax,
           OrderTotal(lines) \in 0..NumericMax
    PROVE  OrderTotal(lines) = ExactTotal(lines)
<1> DEFINE N == Len(lines)
           m == 2 * Half
<1>1. PICK f : /\ OrderTotal(lines) = f[N]
               /\ f[0] = 0
               /\ \A n \in 1..N : f[n] = Add(f[n - 1], lines[n].total)
  BY OrderTotalLoop
<1>2. PICK g : /\ ExactTotal(lines) = g[N]
               /\ g[0] = 0
               /\ \A n \in 1..N : g[n] = g[n - 1] + lines[n].total
  BY ExactTotalLoop
<1>3. N \in Nat /\ m \in Nat \ {0} /\ NumericMax \in Nat /\ NumericMax < Half
  BY MoneyAssumption
<1> DEFINE Good(n) == /\ g[n] \in 0..(n * NumericMax)
                      /\ \E k \in Int : f[n] = g[n] + (k * m)
<1>4. Good(0)
  <2>1. 0 * NumericMax = 0 /\ 0 * m = 0
    BY <1>3
  <2> QED
    BY <1>1, <1>2, <2>1
<1>5. ASSUME NEW n \in 1..N, Good(n - 1) PROVE Good(n)
  <2> DEFINE t == lines[n].total
  <2>1. t \in 1..NumericMax
    OBVIOUS
  <2>2. g[n - 1] \in 0..((n - 1) * NumericMax) /\ g[n] = g[n - 1] + t
    BY <1>2, <1>5
  <2>3. PICK k \in Int : f[n - 1] = g[n - 1] + (k * m)
    BY <1>5
  <2>4. (n - 1) * NumericMax = (n * NumericMax) - NumericMax /\ n * NumericMax \in Nat
    BY <1>3
  <2> HIDE DEF t
  <2>5. g[n - 1] \in Int /\ g[n] \in 0..(n * NumericMax)
    BY <1>3, <2>1, <2>2, <2>4
  <2>6. k * m \in Int /\ f[n - 1] + t \in Int
    BY <1>3, <2>1, <2>3, <2>5
  <2>7. PICK j \in Int : Wrap(f[n - 1] + t) = (f[n - 1] + t) + (j * m)
    BY <2>6, WrapShifts
  <2>8. f[n] = Wrap(f[n - 1] + t)
    BY <1>1 DEF Add, t
  <2>9. j * m \in Int /\ (k + j) * m = (k * m) + (j * m) /\ k + j \in Int
    BY <1>3
  <2> DEFINE a == k * m
             b == j * m
             c == (k + j) * m
             u == f[n - 1]
             v == g[n - 1]
  <2>10. f[n] = g[n] + ((k + j) * m)
    <3>1. /\ a \in Int /\ b \in Int /\ c = a + b /\ v \in Int /\ t \in Int
          /\ u = v + a /\ f[n] = (u + t) + b /\ g[n] = v + t
      BY <2>1, <2>2, <2>3, <2>5, <2>6, <2>7, <2>8, <2>9
    <3> HIDE DEF a, b, c, u, v
    <3>2. f[n] = g[n] + c
      BY <3>1
    <3> QED
      BY <3>2 DEF c
  <2> QED
    BY <2>5, <2>9, <2>10
<1> HIDE DEF Good
<1>6. Good(N)
  <2> DEFINE Bad == {n \in 0..N : ~Good(n)}
  <2> SUFFICES ASSUME Bad # {} PROVE FALSE
    BY <1>3
  <2>1. Bad \in SUBSET Nat
    BY <1>3
  <2>2. PICK n \in Bad : \A y \in Bad : n <= y
    BY <2>1, LeastNumber
  <2>3. n # 0 /\ n \in 1..N /\ n - 1 \in 0..N /\ ~(n <= n - 1)
    BY <1>3, <1>4
  <2>4. Good(n - 1)
    BY <2>2, <2>3
  <2> QED
    BY <1>5, <2>3, <2>4
<1>7. g[N] \in 0..(N * NumericMax) /\ \E k \in Int : f[N] = g[N] + (k * m)
  BY <1>6 DEF Good
<1>8. N * NumericMax \in Nat /\ N * NumericMax <= MaxItems * NumericMax
  <2>1. MaxItems \in Nat
    BY IntakeAssumption
  <2>2. \A x, y, z \in Nat : x <= y => x * z \in Nat /\ x * z <= y * z
    OBVIOUS
  <2> QED
    BY <1>3, <2>1, <2>2
<1>9. g[N] \in 0..(m - 1) /\ f[N] \in 0..(m - 1)
  <2>1. MaxItems * NumericMax \in Nat
    BY <1>3, IntakeAssumption
  <2> QED
    BY <1>1, <1>3, <1>7, <1>8, <2>1
<1>10. PICK k \in Int : f[N] = g[N] + (k * m)
  BY <1>7
<1>11. k = 0
  <2> HIDE DEF m
  <2>1. k >= 1 => k * m >= m
    BY <1>3
  <2>2. k <= -1 => k * m <= -m
    BY <1>3
  <2>3. k * m \in Int /\ k * m < m /\ k * m > -m
    <3>1. k * m \in Int
      BY <1>3
    <3> DEFINE a == k * m
               u == f[N]
               v == g[N]
    <3>2. a \in Int /\ u = v + a /\ u \in 0..(m - 1) /\ v \in 0..(m - 1)
      BY <1>9, <1>10, <3>1
    <3> HIDE DEF a, u, v
    <3>3. a < m /\ a > -m
      BY <1>3, <3>2
    <3> QED
      BY <3>2, <3>3 DEF a
  <2> QED
    BY <1>3, <2>1, <2>2, <2>3
<1> QED
  BY <1>1, <1>2, <1>3, <1>9, <1>10, <1>11

-----------------------------------------------------------------------------
(* The inductive invariant. *)

\* A step that stores nothing.
LEMMA OrdersStay ==
    ASSUME StoredAsBuilt, UNCHANGED orders
    PROVE  StoredAsBuilt'
<1>1. \A o \in OrderIds : orders'[o] # None =>
         /\ LinesComputed(orders'[o].lines)
         /\ orders'[o].total = OrderTotal(orders'[o].lines)
         /\ Storable(orders'[o])
  BY DEF StoredAsBuilt
<1> QED
  BY <1>1 DEF StoredAsBuilt, LinesComputed, Storable, OrderTotal

\* Nothing has been asked for.
LEMMA InitIntakeInv == Init => IntakeInv
<1> SUFFICES ASSUME Init PROVE IntakeInv
  OBVIOUS
<1>1. Customers!CatalogInv
  BY IntakeAssumption
     DEF Init, Customers!CatalogInit, Customers!CatalogInv, Customers!CatalogTypeOK, Customers!RequestsAtWork,
         Customers!KeysUnique, Customers!Exists, Customers!Request, Customers!IdleRequest
<1>2. Products!CatalogInv
  BY IntakeAssumption
     DEF Init, Products!CatalogInit, Products!CatalogInv, Products!CatalogTypeOK, Products!RequestsAtWork,
         Products!KeysUnique, Products!Exists, Products!Request, Products!IdleRequest
<1>3. Customers!CatalogTypeOK /\ Products!CatalogTypeOK
  BY <1>1, <1>2 DEF Customers!CatalogInv, Products!CatalogInv
<1>4. IdleIntake \in Intake
  BY DEF IdleIntake, Intake
<1>5. IntakeTypeOK
  BY <1>3, <1>4 DEF Init, IntakeTypeOK
<1>6. \A h \in Handlers : BeforeProducts(h) /\ BeforeInsert(h)
  BY DEF Init, BeforeProducts, BeforeInsert, IdleIntake
<1>7. StoredAsBuilt
  BY DEF Init, StoredAsBuilt
<1> QED
  BY <1>1, <1>2, <1>5, <1>6, <1>7 DEF IntakeInv

\* A step of one Create that leaves the tables alone.
LEMMA OneIntake ==
    ASSUME IntakeInv, NEW h \in Handlers, UNCHANGED <<customerVars, productVars>>,
           IntakeTypeOK', BeforeProducts(h)', BeforeInsert(h)', StoredAsBuilt',
           \A g \in Handlers : g # h => /\ intake'[g] = intake[g]
                                        /\ window'[g] = window[g]
                                        /\ legal'[g] = legal[g]
    PROVE  IntakeInv'
<1>1. Customers!CatalogInv' /\ Products!CatalogInv'
  BY DEF IntakeInv, customerVars, productVars, Customers!CatalogInv, Customers!CatalogTypeOK,
         Customers!RequestsAtWork, Customers!KeysUnique, Customers!Exists, Products!CatalogInv,
         Products!CatalogTypeOK, Products!RequestsAtWork, Products!KeysUnique, Products!Exists
<1>2. \A g \in Handlers : g # h => BeforeProducts(g)' /\ BeforeInsert(g)'
  <2> SUFFICES ASSUME NEW g \in Handlers, g # h PROVE BeforeProducts(g)' /\ BeforeInsert(g)'
    OBVIOUS
  <2>1. intake'[g] = intake[g] /\ window'[g] = window[g] /\ legal'[g] = legal[g] /\ products' = products
    BY DEF productVars
  <2>2. BeforeProducts(g) /\ BeforeInsert(g)
    BY DEF IntakeInv
  <2>3. BeforeProducts(g)'
    BY <2>1, <2>2 DEF BeforeProducts, Used, PriceList
  <2>4. BeforeInsert(g)'
    BY <2>1, <2>2 DEF BeforeInsert, LinesComputed
  <2> QED
    BY <2>3, <2>4
<1> QED
  BY <1>1, <1>2 DEF IntakeInv

\* The end of a request.
LEMMA EndedIntake ==
    ASSUME IntakeInv, NEW h \in Handlers, Ended(h), UNCHANGED <<customerVars, productVars>>,
           orders' \in [OrderIds -> Order \cup {None}], StoredAsBuilt'
    PROVE  IntakeInv'
<1>1. IdleIntake \in Intake
  BY DEF IdleIntake, Intake
<1>2. Customers!CatalogTypeOK' /\ Products!CatalogTypeOK'
  BY DEF IntakeInv, IntakeTypeOK, customerVars, productVars, Customers!CatalogTypeOK, Products!CatalogTypeOK
<1>3. IntakeTypeOK'
  BY <1>1, <1>2 DEF IntakeInv, IntakeTypeOK, Ended
<1>4. intake'[h] = IdleIntake
  BY DEF IntakeInv, IntakeTypeOK, Ended
<1>5. BeforeProducts(h)' /\ BeforeInsert(h)'
  BY <1>4 DEF BeforeProducts, BeforeInsert, IdleIntake
<1>6. \A g \in Handlers : g # h => /\ intake'[g] = intake[g]
                                   /\ window'[g] = window[g]
                                   /\ legal'[g] = legal[g]
  BY DEF IntakeInv, IntakeTypeOK, Ended
<1> QED
  BY <1>3, <1>5, <1>6, OneIntake

\* The request is accepted for an active customer.
LEMMA LoadCustomerInv ==
    ASSUME IntakeInv, NEW h \in Handlers, LoadCustomer(h)
    PROVE  IntakeInv'
<1>1. PICK c \in CustomerIds, items \in BoundedSeq(Item, MaxItems) :
         /\ \A p \in Used(items) : products[p] # None
         /\ customers[c].active
         /\ intake' = [intake EXCEPT ![h] = [pc |-> "products", customer |-> c,
                                             items |-> items, lines |-> <<>>]]
         /\ legal' = [legal EXCEPT ![h] =
                        customers[c].active /\ \A p \in Used(items) : products[p].active]
  BY DEF LoadCustomer, Usable
<1>2. items \in Seq(Item) /\ Len(items) <= MaxItems
  <2>1. MaxItems \in Nat
    BY IntakeAssumption
  <2>2. PICK n \in 0..MaxItems : items \in [1..n -> Item]
    BY DEF BoundedSeq, SeqOf
  <2> QED
    BY <2>1, <2>2
<1>3. [pc |-> "products", customer |-> c, items |-> items, lines |-> <<>>] \in Intake
  BY <1>2 DEF Intake
<1>4. /\ window' = [window EXCEPT ![h] = {PriceList(products)}]
      /\ UNCHANGED <<customerVars, productVars, orders>>
  BY DEF LoadCustomer
<1>5. PriceList(products) \in PriceLists
  BY PriceListType DEF IntakeInv, IntakeTypeOK, Products!CatalogTypeOK
<1>6. IntakeTypeOK'
  <2>1. Customers!CatalogTypeOK' /\ Products!CatalogTypeOK'
    BY <1>4 DEF IntakeInv, IntakeTypeOK, customerVars, productVars, Customers!CatalogTypeOK,
                Products!CatalogTypeOK
  <2>2. intake' \in [Handlers -> Intake] /\ legal' \in [Handlers -> BOOLEAN]
    BY <1>1, <1>3 DEF IntakeInv, IntakeTypeOK
  <2>3. window' \in [Handlers -> SUBSET PriceLists]
    BY <1>4, <1>5 DEF IntakeInv, IntakeTypeOK
  <2> QED
    BY <1>4, <2>1, <2>2, <2>3 DEF IntakeInv, IntakeTypeOK
<1>7. /\ intake'[h] = [pc |-> "products", customer |-> c, items |-> items, lines |-> <<>>]
      /\ window'[h] = {PriceList(products)}
      /\ legal'[h] = (customers[c].active /\ \A p \in Used(items) : products[p].active)
  BY <1>1, <1>4 DEF IntakeInv, IntakeTypeOK
<1>8. products' = products
  BY <1>4 DEF productVars
<1>9. BeforeProducts(h)' /\ BeforeInsert(h)'
  <2>1. ~legal'[h] => \E p \in Used(items) : ~products'[p].active
    BY <1>1, <1>7, <1>8
  <2>2. PriceList(products)' \in window'[h]
    BY <1>7, <1>8 DEF PriceList
  <2>3. /\ intake'[h].pc = "products" /\ intake'[h].customer = c
        /\ intake'[h].lines = <<>> /\ intake'[h].items = items
    BY <1>7
  <2>4. Used(intake[h].items)' = Used(items)
    BY <2>3 DEF Used
  <2>5. BeforeProducts(h)'
    BY <1>1, <1>2, <1>8, <2>1, <2>2, <2>3, <2>4 DEF BeforeProducts
  <2> QED
    BY <2>3, <2>5 DEF BeforeInsert
<1>10. StoredAsBuilt'
  BY <1>4, OrdersStay DEF IntakeInv
<1> QED
  BY <1>1, <1>4, <1>6, <1>9, <1>10, OneIntake DEF IntakeInv, IntakeTypeOK

\* The products are read, all at once.
LEMMA LoadProductsInv ==
    ASSUME IntakeInv, NEW h \in Handlers, LoadProducts(h)
    PROVE  IntakeInv'
<1> DEFINE r == intake[h]
           lines == <<>> \o [i \in DOMAIN r.items |-> PricedLine(r.items[i])]
<1>1. r \in Intake /\ r.items \in Seq(Item) /\ r.pc = "products"
  BY DEF IntakeInv, IntakeTypeOK, LoadProducts, Intake
<1>2. /\ r.customer \in CustomerIds
      /\ r.lines = <<>>
      /\ Len(r.items) <= MaxItems
      /\ \A p \in Used(r.items) : products[p] # None
      /\ PriceList(products) \in window[h]
      /\ ~legal[h] => \E p \in Used(r.items) : ~products[p].active
  BY <1>1 DEF IntakeInv, BeforeProducts
<1>3. Len(r.lines) + Batch(r.items) = Len(r.items)
  BY <1>1, <1>2 DEF Batch
<1>4. SubSeq(r.items, Len(r.lines) + 1, Len(r.lines) + Batch(r.items)) = r.items
  <2>1. Len(r.lines) + 1 = 1
    BY <1>2
  <2> QED
    BY <1>1, <1>3, <2>1, SubSeqFull
<1>5. UNCHANGED <<customerVars, productVars, orders>>
  BY DEF LoadProducts
<1>6. CASE Ended(h)
  <2>1. StoredAsBuilt'
    BY <1>5, OrdersStay DEF IntakeInv
  <2> QED
    BY <1>5, <1>6, <2>1, EndedIntake DEF IntakeInv, IntakeTypeOK
<1>7. CASE ~Ended(h)
  <2>1. /\ \A p \in Used(r.items) : products[p].active
        /\ intake' = [intake EXCEPT ![h].pc = "insert", ![h].lines = lines]
        /\ UNCHANGED history
    <3> DEFINE n == Len(r.lines) + Batch(r.items)
               batch == SubSeq(r.items, Len(r.lines) + 1, n)
    <3>1. /\ ~\E p \in Used(batch) : ~Usable(products[p])
          /\ intake' = [intake EXCEPT
                  ![h].pc = IF n = Len(r.items) THEN "insert" ELSE "products",
                  ![h].lines = @ \o [i \in DOMAIN batch |-> PricedLine(batch[i])]]
          /\ UNCHANGED history
      BY <1>7 DEF LoadProducts
    <3>2. batch = r.items /\ n = Len(r.items)
      BY <1>3, <1>4
    <3> HIDE DEF batch, n
    <3>3. intake' = [intake EXCEPT ![h].pc = "insert",
                                   ![h].lines = @ \o [i \in DOMAIN r.items |-> PricedLine(r.items[i])]]
      BY <3>1, <3>2
    <3>4. intake' = [intake EXCEPT ![h].pc = "insert", ![h].lines = lines]
      BY <1>2, <3>3
    <3> QED
      BY <3>1, <3>2, <3>4 DEF Usable
  <2>2. /\ lines \in Seq(Line)
        /\ Len(lines) = Len(r.items)
        /\ \A n \in DOMAIN lines : lines[n].price = PriceList(products)[lines[n].product]
        /\ \A n \in DOMAIN lines : lines[n].total = Wrap(lines[n].price * lines[n].quantity)
    BY <1>1, <1>2, PricedLines DEF IntakeInv, IntakeTypeOK, Products!CatalogTypeOK
  <2> HIDE DEF lines
  <2>3. /\ intake'[h].pc = "insert" /\ intake'[h].lines = lines
        /\ intake'[h].customer = r.customer
        /\ intake' \in [Handlers -> Intake]
        /\ \A g \in Handlers : g # h => intake'[g] = intake[g]
    BY <1>1, <2>1, <2>2 DEF IntakeInv, IntakeTypeOK, Intake
  <2>4. IntakeTypeOK'
    <3>1. Customers!CatalogTypeOK' /\ Products!CatalogTypeOK'
      BY <1>5 DEF IntakeInv, IntakeTypeOK, customerVars, productVars, Customers!CatalogTypeOK,
                  Products!CatalogTypeOK
    <3> QED
      BY <1>5, <2>1, <2>3, <3>1 DEF IntakeInv, IntakeTypeOK, history
  <2>5. legal[h]
    BY <1>2, <2>1
  <2>6. BeforeProducts(h)'
    BY <2>3 DEF BeforeProducts
  <2>7. LinesComputed(lines)
    BY <1>2, <2>2 DEF LinesComputed
  <2>8. BeforeInsert(h)'
    <3>1. LinesComputed(intake[h].lines)'
      BY <2>3, <2>7 DEF LinesComputed
    <3> QED
      BY <1>2, <2>1, <2>2, <2>3, <2>5, <3>1 DEF BeforeInsert, history
  <2>9. StoredAsBuilt'
    BY <1>5, OrdersStay DEF IntakeInv
  <2> QED
    BY <1>5, <2>1, <2>3, <2>4, <2>6, <2>8, <2>9, OneIntake DEF history
<1> QED
  BY <1>6, <1>7

\* The order is stored if its columns take it.
LEMMA InsertOrderInv ==
    ASSUME IntakeInv, NEW h \in Handlers, InsertOrder(h)
    PROVE  IntakeInv'
<1> DEFINE order == BuiltOrder(intake[h])
<1>1. PICK o \in OrderIds :
         orders' = IF Storable(order) THEN [orders EXCEPT ![o] = order] ELSE orders
  BY DEF InsertOrder
<1>2. intake[h].pc = "insert" /\ Ended(h) /\ UNCHANGED <<customerVars, productVars>>
  BY DEF InsertOrder
<1>3. /\ intake[h].customer \in CustomerIds /\ intake[h].lines \in Seq(Line)
      /\ LinesComputed(intake[h].lines)
  BY <1>2 DEF IntakeInv, IntakeTypeOK, Intake, BeforeInsert
<1>4. ASSUME Storable(order) PROVE order \in Order
  <2>1. OrderTotal(intake[h].lines) \in 0..NumericMax
    BY <1>4 DEF Storable, BuiltOrder
  <2>2. OrderTotal(intake[h].lines) \in Cents
    BY <2>1, MoneyAssumption DEF Cents
  <2> QED
    BY <1>3, <2>2 DEF BuiltOrder, Order
<1>5. orders' \in [OrderIds -> Order \cup {None}]
  BY <1>1, <1>4 DEF IntakeInv, IntakeTypeOK
<1>6. StoredAsBuilt'
  <2>1. CASE ~Storable(order)
    BY <1>1, <2>1, OrdersStay DEF IntakeInv
  <2>2. CASE Storable(order)
    <3>1. /\ LinesComputed(order.lines) /\ order.total = OrderTotal(order.lines)
          /\ Storable(order)
      BY <1>3, <2>2 DEF BuiltOrder
    <3>2. orders' = [orders EXCEPT ![o] = order]
      BY <1>1, <2>2
    <3> HIDE DEF order
    <3>3. ASSUME NEW x \in OrderIds, orders'[x] # None
          PROVE  /\ LinesComputed(orders'[x].lines)
                 /\ orders'[x].total = OrderTotal(orders'[x].lines)
                 /\ Storable(orders'[x])
      <4>1. orders'[x] = IF x = o THEN order ELSE orders[x]
        BY <3>2 DEF IntakeInv, IntakeTypeOK
      <4>2. CASE x = o
        BY <3>1, <4>1, <4>2
      <4>3. CASE x # o
        BY <3>3, <4>1, <4>3 DEF IntakeInv, StoredAsBuilt
      <4> QED
        BY <4>2, <4>3
    <3> QED
      BY <3>3 DEF StoredAsBuilt, LinesComputed, Storable, OrderTotal
  <2> QED
    BY <2>1, <2>2
<1> QED
  BY <1>2, <1>5, <1>6, EndedIntake

\* A request on the products: what was off stays off, and the new price list is
\* in the window of every Create that has yet to read.
LEMMA ProductRequestInv ==
    ASSUME IntakeInv, ProductRequest
    PROVE  IntakeInv'
<1>1. /\ Products!CatalogNext
      /\ window' = [h \in Handlers |-> IF intake[h].pc = "products"
                                     THEN window[h] \cup {PriceList(products')}
                                     ELSE window[h]]
      /\ UNCHANGED <<customerVars, intake, orders, legal>>
  BY DEF ProductRequest
<1>2. Products!CatalogInv' /\ Products!CatalogTypeOK'
  <2>1. Products!CatalogInv'
    BY <1>1, ProductsKeepInv DEF IntakeInv
  <2> QED
    BY <2>1 DEF Products!CatalogInv
<1>3. Customers!CatalogInv' /\ Customers!CatalogTypeOK'
  BY <1>1 DEF IntakeInv, customerVars, Customers!CatalogInv, Customers!CatalogTypeOK,
         Customers!RequestsAtWork, Customers!KeysUnique, Customers!Exists
<1>4. PriceList(products') \in PriceLists
  BY <1>2, PriceListType DEF Products!CatalogTypeOK
<1>5. IntakeTypeOK'
  BY <1>1, <1>2, <1>3, <1>4 DEF IntakeInv, IntakeTypeOK
<1>6. ASSUME NEW h \in Handlers PROVE BeforeProducts(h)'
  <2>1. SUFFICES ASSUME intake[h].pc = "products" PROVE BeforeProducts(h)'
    BY <1>1 DEF BeforeProducts
  <2>2. Used(intake[h].items) \subseteq ProductIds
    <3>1. intake[h].items \in Seq(Item)
      BY DEF IntakeInv, IntakeTypeOK, Intake
    <3> QED
      BY <3>1, UsedProducts
  <2>3. \A p \in Used(intake[h].items) : products[p] # None
    BY <2>1 DEF IntakeInv, BeforeProducts
  <2>4. \A p \in Used(intake[h].items) :
           products'[p] # None /\ (products'[p].active => products[p].active)
    BY <1>1, <2>2, <2>3, ProductsStayOff DEF IntakeInv
  <2>5. PriceList(products') \in window'[h]
    BY <1>1, <2>1
  <2>6. PriceList(products)' = PriceList(products')
    BY DEF PriceList
  <2> QED
    BY <1>1, <2>1, <2>4, <2>5, <2>6 DEF IntakeInv, BeforeProducts, Used
<1>7. ASSUME NEW h \in Handlers PROVE BeforeInsert(h)'
  <2>1. intake[h].pc = "insert" => window'[h] = window[h]
    BY <1>1
  <2> QED
    BY <1>1, <2>1 DEF IntakeInv, BeforeInsert, LinesComputed
<1>8. StoredAsBuilt'
  BY <1>1, OrdersStay DEF IntakeInv
<1> QED
  BY <1>2, <1>3, <1>5, <1>6, <1>7, <1>8 DEF IntakeInv

\* A request on the customers changes nothing that a Create has read.
LEMMA CustomerRequestInv ==
    ASSUME IntakeInv, CustomerRequest
    PROVE  IntakeInv'
<1>1. Customers!CatalogNext /\ UNCHANGED <<productVars, intake, orders, history>>
  BY DEF CustomerRequest
<1>2. Customers!CatalogInv' /\ Customers!CatalogTypeOK'
  <2>1. Customers!CatalogInv'
    BY <1>1, CustomersKeepInv DEF IntakeInv
  <2> QED
    BY <2>1 DEF Customers!CatalogInv
<1>3. Products!CatalogInv' /\ Products!CatalogTypeOK'
  BY <1>1 DEF IntakeInv, productVars, Products!CatalogInv, Products!CatalogTypeOK,
         Products!RequestsAtWork, Products!KeysUnique, Products!Exists
<1>4. IntakeTypeOK'
  BY <1>1, <1>2, <1>3 DEF IntakeInv, IntakeTypeOK, history
<1>5. \A h \in Handlers : BeforeProducts(h)' /\ BeforeInsert(h)'
  BY <1>1 DEF IntakeInv, productVars, history, BeforeProducts, BeforeInsert, Used, PriceList, LinesComputed
<1>6. StoredAsBuilt'
  BY <1>1, OrdersStay DEF IntakeInv
<1> QED
  BY <1>2, <1>3, <1>4, <1>5, <1>6 DEF IntakeInv

\* Every step keeps the invariant.
LEMMA NextIntakeInv == IntakeInv /\ [Next]_intakeVars => IntakeInv'
<1> SUFFICES ASSUME IntakeInv, [Next]_intakeVars PROVE IntakeInv'
  OBVIOUS
<1>1. CASE CustomerRequest
  BY <1>1, CustomerRequestInv
<1>2. CASE ProductRequest
  BY <1>2, ProductRequestInv
<1>3. ASSUME NEW h \in Handlers, LoadCustomer(h) PROVE IntakeInv'
  BY <1>3, LoadCustomerInv
<1>4. ASSUME NEW h \in Handlers, LoadProducts(h) PROVE IntakeInv'
  BY <1>4, LoadProductsInv
<1>5. ASSUME NEW h \in Handlers, InsertOrder(h) PROVE IntakeInv'
  BY <1>5, InsertOrderInv
<1>6. ASSUME NEW h \in Handlers, AbandonIntake(h) PROVE IntakeInv'
  <2>1. StoredAsBuilt'
    BY <1>6, OrdersStay DEF AbandonIntake, IntakeInv
  <2> QED
    BY <1>6, <2>1, EndedIntake DEF AbandonIntake, IntakeInv, IntakeTypeOK
<1>7. CASE UNCHANGED intakeVars
  <2>1. Customers!CatalogInv' /\ Customers!CatalogTypeOK'
    BY <1>7 DEF intakeVars, customerVars, IntakeInv, Customers!CatalogInv, Customers!CatalogTypeOK,
           Customers!RequestsAtWork, Customers!KeysUnique, Customers!Exists
  <2>2. Products!CatalogInv' /\ Products!CatalogTypeOK'
    BY <1>7 DEF intakeVars, productVars, IntakeInv, Products!CatalogInv, Products!CatalogTypeOK,
           Products!RequestsAtWork, Products!KeysUnique, Products!Exists
  <2>3. IntakeTypeOK'
    BY <1>7, <2>1, <2>2 DEF intakeVars, history, IntakeInv, IntakeTypeOK
  <2>4. \A h \in Handlers : BeforeProducts(h)' /\ BeforeInsert(h)'
    BY <1>7 DEF intakeVars, productVars, history, IntakeInv, BeforeProducts, BeforeInsert, Used, PriceList,
                LinesComputed
  <2>5. StoredAsBuilt'
    BY <1>7, OrdersStay DEF intakeVars, IntakeInv
  <2> QED
    BY <2>1, <2>2, <2>3, <2>4, <2>5 DEF IntakeInv
<1> QED
  BY <1>1, <1>2, <1>3, <1>4, <1>5, <1>6, <1>7 DEF Next

LEMMA IntakeInvariant == Spec => []IntakeInv
  BY InitIntakeInv, NextIntakeInv, PTL DEF Spec

-----------------------------------------------------------------------------
(* The theorems. *)

\* Every reachable state is well typed: in particular what Create stores fits its
\* columns, also when the word wraps.
THEOREM IntakeTypes == Spec => []IntakeTypeOK
<1>1. IntakeInv => IntakeTypeOK
  BY DEF IntakeInv
<1> QED
  BY <1>1, IntakeInvariant, PTL

\* The amounts of every stored order agree, for as many lines as the word has room
\* for when each holds the largest storable amount: with 64 bits and NUMERIC(15,2),
\* 18 446 lines.  The sum in the word then cannot come round to a storable amount
\* (ItemTotal, OrderTotal, and the CHECK constraints of orders and order_items).
THEOREM StoredAmountsAgree ==
    ASSUME MaxItems * NumericMax < 2 * Half
    PROVE  Spec => []AmountsAgree
<1>1. IntakeInv => AmountsAgree
  <2> SUFFICES ASSUME IntakeInv, NEW o \in OrderIds, orders[o] # None
               PROVE  /\ \A n \in DOMAIN orders[o].lines :
                            LET l == orders[o].lines[n] IN l.total = Wrap(l.price * l.quantity)
                      /\ orders[o].total = ExactTotal(orders[o].lines)
    BY DEF AmountsAgree
  <2>1. orders[o] \in Order
    BY DEF IntakeInv, IntakeTypeOK
  <2> DEFINE lines == orders[o].lines
  <2>2. lines \in Seq(Line)
    BY <2>1 DEF Order
  <2>3. LinesComputed(lines) /\ orders[o].total = OrderTotal(lines) /\ Storable(orders[o])
    BY DEF IntakeInv, StoredAsBuilt
  <2>4. /\ OrderTotal(lines) \in 0..NumericMax
        /\ \A n \in DOMAIN lines : lines[n].total \in 1..NumericMax
    BY <2>3 DEF Storable
  <2>5. Len(lines) <= MaxItems
    BY <2>3 DEF LinesComputed
  <2>6. OrderTotal(lines) = ExactTotal(lines)
    BY <2>2, <2>4, <2>5, SumIsExact
  <2> QED
    BY <2>3, <2>6 DEF LinesComputed
<1> QED
  BY <1>1, IntakeInvariant, PTL

\* The step that commits an order is the last one of its Create, and stores the
\* lines that were built.
LEMMA CommitIsInsert ==
    ASSUME IntakeInv, Next, NEW h \in Handlers, NEW o \in OrderIds, Commits(h, o)
    PROVE  /\ intake[h].pc = "insert"
           /\ orders'[o] = BuiltOrder(intake[h])
<1>1. intake[h].pc = "insert" /\ orders' # orders /\ intake' # intake /\ intake'[h] # intake[h]
  BY DEF Commits
<1>2. PICK g \in Handlers : InsertOrder(g)
  BY <1>1 DEF Next, CustomerRequest, ProductRequest, LoadCustomer, LoadProducts, AbandonIntake
<1>3. g = h
  BY <1>1, <1>2 DEF InsertOrder, Ended, IntakeInv, IntakeTypeOK
<1>4. PICK x \in OrderIds :
         orders' = IF Storable(BuiltOrder(intake[h]))
                   THEN [orders EXCEPT ![x] = BuiltOrder(intake[h])] ELSE orders
  BY <1>2, <1>3 DEF InsertOrder
<1>5. orders' = [orders EXCEPT ![x] = BuiltOrder(intake[h])]
  BY <1>1, <1>4
<1> QED
  BY <1>1, <1>5 DEF Commits, IntakeInv, IntakeTypeOK

\* The prices of an order were in force together at one moment of its Create,
\* whatever Updates of the products run meanwhile (Service.Create, FindManyByID).
THEOREM OrdersHaveOnePriceList == Spec => PricesAreOneSnapshot
<1>1. IntakeInv /\ [Next]_intakeVars =>
         [\A h \in Handlers, o \in OrderIds : Commits(h, o) =>
             \E list \in window[h] : \A n \in DOMAIN orders'[o].lines :
                 orders'[o].lines[n].price = list[orders'[o].lines[n].product]]_intakeVars
  <2> SUFFICES ASSUME IntakeInv, Next, NEW h \in Handlers, NEW o \in OrderIds, Commits(h, o)
               PROVE  \E list \in window[h] : \A n \in DOMAIN orders'[o].lines :
                         orders'[o].lines[n].price = list[orders'[o].lines[n].product]
    OBVIOUS
  <2>1. intake[h].pc = "insert" /\ orders'[o] = BuiltOrder(intake[h])
    BY CommitIsInsert
  <2>2. orders'[o].lines = intake[h].lines
    BY <2>1 DEF BuiltOrder
  <2> QED
    BY <2>1, <2>2 DEF IntakeInv, BeforeInsert
<1> QED
  BY <1>1, IntakeInvariant, PTL DEF Spec, PricesAreOneSnapshot

\* Customer and products of an order were all active when its Create checked the
\* customer: a product that is active when it is read was active before, because no
\* request activates one (Service.Create).
THEOREM OrdersWereLegal == Spec => WasLegalAtStart
<1>1. IntakeInv /\ [Next]_intakeVars =>
         [\A h \in Handlers, o \in OrderIds : Commits(h, o) => legal[h]]_intakeVars
  <2> SUFFICES ASSUME IntakeInv, Next, NEW h \in Handlers, NEW o \in OrderIds, Commits(h, o)
               PROVE  legal[h]
    OBVIOUS
  <2> QED
    BY CommitIsInsert DEF IntakeInv, BeforeInsert
<1> QED
  BY <1>1, IntakeInvariant, PTL DEF Spec, WasLegalAtStart

=============================================================================
