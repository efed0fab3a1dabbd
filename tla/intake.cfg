SPECIFICATION Spec
CONSTANTS
    p1 = p1
    p2 = p2
    s1 = s1
    s2 = s2
    Width = 6
    NumericMax = 20
    IntegerMax = 8
    CustomerIds = {c1}
    Documents = {d1}
    CustomerClients = {x1}
    ProductIds = {p1, p2}
    Skus = {s1, s2}
    ProductPrices = {1, 10}
    ProductClients = {x2}
    OrderIds = {o1}
    Handlers = {h1}
    Quantities = {7}
    MaxItems = 2
    None = None
SYMMETRY Interchangeable
 
PROPERTIES PricesAreOneSnapshot WasLegalAtStart
