--------------------------- MODULE Catalog_proofs ---------------------------
(***************************************************************************)
(* Proofs about Catalog, for any number of rows, keys, prices and clients. *)
(***************************************************************************)
EXTENDS Catalog, TLAPS

\* The empty catalog satisfies the invariant.
LEMMA InitCatalogInv == CatalogInit => CatalogInv
  BY CatalogAssumption, RowAssumption
     DEF CatalogInit, CatalogInv, CatalogTypeOK, RequestsAtWork, KeysUnique, Exists,
         Request, IdleRequest

\* A request that ends is well typed and holds no row.
LEMMA AnsweredType ==
    ASSUME CatalogTypeOK, NEW c \in Clients, Answered(c)
    PROVE  /\ req' \in [Clients -> Request]
           /\ req'[c] = IdleRequest
           /\ \A d \in Clients : d # c => req'[d] = req[d]
  BY DEF CatalogTypeOK, Answered, Request, IdleRequest

\* A write of a row keeps the invariant: the UNIQUE constraint rejects a key that
\* another row has, whatever the request's own check found earlier.
LEMMA WriteCatalogInv ==
    ASSUME CatalogInv, NEW c \in Clients, NEW i \in Ids, NEW new \in Row,
           Write(c, i, new)
    PROVE  CatalogInv'
<1>1. /\ req' \in [Clients -> Request]
      /\ req'[c] = IdleRequest
      /\ \A d \in Clients : d # c => req'[d] = req[d]
  BY AnsweredType DEF CatalogInv, Write
<1>2. \/ ~Rejects(new.key, i) /\ rows' = [rows EXCEPT ![i] = new]
      \/ UNCHANGED rows
  BY DEF Write
<1>3. CatalogTypeOK'
  BY <1>1, <1>2 DEF CatalogInv, CatalogTypeOK
<1>4. \A j \in Ids : Exists(j) => Exists(j)'
  BY <1>2, RowAssumption DEF Exists, CatalogInv, CatalogTypeOK
<1>5. RequestsAtWork'
  BY <1>1, <1>4 DEF RequestsAtWork, CatalogInv, IdleRequest
<1>6. KeysUnique'
  <2>1. CASE ~Rejects(new.key, i) /\ rows' = [rows EXCEPT ![i] = new]
    BY <2>1 DEF KeysUnique, CatalogInv, CatalogTypeOK, Rejects, KeyTaken, Exists
  <2>2. CASE UNCHANGED rows
    BY <2>2 DEF KeysUnique, CatalogInv, Exists
  <2> QED
    BY <1>2, <2>1, <2>2
<1> QED
  BY <1>3, <1>5, <1>6 DEF CatalogInv

\* The row that Update writes.
LEMMA UpdatedRow ==
    ASSUME CatalogInv, NEW c \in Clients, req[c].pc = "update"
    PROVE  /\ req[c].id \in Ids
           /\ rows[req[c].id] \in Row
           /\ Updated(rows[req[c].id], req[c]) \in Row
           /\ Updated(rows[req[c].id], req[c]).active = rows[req[c].id].active
           /\ Updated(rows[req[c].id], req[c]).key = req[c].key
           /\ Updated(rows[req[c].id], req[c]).price = req[c].price
  BY DEF CatalogInv, CatalogTypeOK, RequestsAtWork, Updated, Row, Exists

\* Every step keeps the invariant.
LEMMA NextCatalogInv == CatalogInv /\ [CatalogNext]_catalogVars => CatalogInv'
<1> SUFFICES ASSUME CatalogInv, [CatalogNext]_catalogVars
             PROVE  CatalogInv'
  OBVIOUS
<1> USE DEF CatalogInv
<1>1. CASE UNCHANGED catalogVars
  BY <1>1 DEF catalogVars, CatalogTypeOK, RequestsAtWork, KeysUnique, Exists
<1>2. ASSUME NEW c \in Clients, CatalogStep(c)
      PROVE  CatalogInv'
  <2>1. CASE CheckCreate(c)
    BY <2>1, CatalogAssumption
       DEF CheckCreate, CatalogTypeOK, RequestsAtWork, KeysUnique, Exists, Request, AcceptedKeys
  <2>2. CASE Insert(c)
    <3>1. PICK i \in Ids :
             Write(c, i, [key |-> req[c].key, price |-> req[c].price, active |-> TRUE])
      BY <2>2 DEF Insert
    <3>2. [key |-> req[c].key, price |-> req[c].price, active |-> TRUE] \in Row
      BY <2>2 DEF Insert, RequestsAtWork, Row
    <3> QED
      BY <3>1, <3>2, WriteCatalogInv
  <2>3. CASE LoadForUpdate(c)
    <3>1. PICK i \in Ids, k \in Keys, p \in Prices :
             /\ Exists(i)
             /\ req' = [req EXCEPT ![c] =
                   [pc |-> IF k = rows[i].key THEN "update" ELSE "check",
                    id |-> i, seen |-> rows[i], key |-> k, price |-> p]]
      BY <2>3 DEF LoadForUpdate, AcceptedKeys
    <3>2. rows[i] \in Row /\ UNCHANGED rows
      BY <2>3, <3>1 DEF LoadForUpdate, Exists, CatalogTypeOK
    <3>3. CatalogTypeOK' /\ KeysUnique'
      BY <3>1, <3>2 DEF CatalogTypeOK, KeysUnique, Exists, Request
    <3>4. RequestsAtWork'
      BY <3>1, <3>2 DEF CatalogTypeOK, RequestsAtWork, Exists
    <3> QED
      BY <3>3, <3>4
  <2>4. CASE CheckUpdate(c)
    <3>1. UNCHANGED rows
      BY <2>4 DEF CheckUpdate
    <3>2. CASE req' = [req EXCEPT ![c].pc = "update"]
      BY <2>4, <3>1, <3>2 DEF CheckUpdate, CatalogTypeOK, RequestsAtWork, KeysUnique, Exists, Request
    <3>3. CASE Answered(c)
      BY <3>1, <3>3, AnsweredType
         DEF CatalogTypeOK, RequestsAtWork, KeysUnique, Exists, IdleRequest
    <3> QED
      BY <2>4, <3>2, <3>3 DEF CheckUpdate
  <2>5. CASE ApplyUpdate(c)
    BY <2>5, UpdatedRow, WriteCatalogInv DEF ApplyUpdate
  <2>6. CASE Deactivate(c)
    <3>1. PICK i \in Ids : Exists(i) /\ rows' = [rows EXCEPT ![i].active = FALSE]
      BY <2>6 DEF Deactivate
    <3>2. rows[i] \in Row /\ UNCHANGED req
      BY <2>6, <3>1 DEF Deactivate, Exists, CatalogTypeOK
    <3>3. rows'[i] \in Row /\ rows'[i].key = rows[i].key
      BY <3>1, <3>2 DEF CatalogTypeOK, Row
    <3>4. \A j \in Ids : j # i => rows'[j] = rows[j]
      BY <3>1 DEF CatalogTypeOK
    <3>5. CatalogTypeOK'
      BY <3>1, <3>2, <3>3 DEF CatalogTypeOK
    <3>6. \A j \in Ids : (rows'[j] # None <=> rows[j] # None) /\ rows'[j].key = rows[j].key
      BY <3>2, <3>3, <3>4, RowAssumption
    <3>7. RequestsAtWork'
      BY <3>2, <3>6 DEF RequestsAtWork, Exists
    <3>8. KeysUnique'
      BY <3>6 DEF KeysUnique, Exists
    <3> QED
      BY <3>5, <3>7, <3>8
  <2> QED
    BY <1>2, <2>1, <2>2, <2>3, <2>4, <2>5, <2>6 DEF CatalogStep
<1> QED
  BY <1>1, <1>2 DEF CatalogNext

\* The invariant holds in every reachable state.
THEOREM CatalogInvariant == CatalogSpec => []CatalogInv
  BY InitCatalogInv, NextCatalogInv, PTL DEF CatalogSpec

\* Every reachable state is well typed.
THEOREM CatalogTypeCorrect == CatalogSpec => []CatalogTypeOK
<1>1. CatalogInv => CatalogTypeOK
  BY DEF CatalogInv
<1> QED
  BY <1>1, CatalogInvariant, PTL

\* Documents and SKUs are unique, however checks and writes of the requests
\* interleave.
THEOREM KeysAreUnique == CatalogSpec => []KeysUnique
<1>1. CatalogInv => KeysUnique
  BY DEF CatalogInv
<1> QED
  BY <1>1, CatalogInvariant, PTL

\* A deactivated row stays deactivated and no row disappears: no Update, however
\* old the row it loaded, brings a row back.
THEOREM DeactivationIsFinal == CatalogSpec => DeactivatedForGood
<1> DEFINE Final == \A i \in Ids : Exists(i) =>
                       rows'[i] # None /\ (rows'[i].active => rows[i].active)
<1>1. CatalogInv /\ CatalogNext => Final
  <2> SUFFICES ASSUME CatalogInv, NEW c \in Clients, CatalogStep(c),
                      NEW j \in Ids, Exists(j)
               PROVE  rows'[j] # None /\ (rows'[j].active => rows[j].active)
    BY DEF CatalogNext
  <2> USE DEF CatalogInv
  <2>1. CASE UNCHANGED rows
    BY <2>1 DEF Exists
  <2>2. CASE Insert(c)
    BY <2>2 DEF Insert, Write, Exists, CatalogTypeOK
  <2>3. CASE ApplyUpdate(c)
    BY <2>3, UpdatedRow, RowAssumption DEF ApplyUpdate, Write, Exists, CatalogTypeOK
  <2>4. CASE Deactivate(c)
    <3>1. PICK i \in Ids : Exists(i) /\ rows' = [rows EXCEPT ![i].active = FALSE]
      BY <2>4 DEF Deactivate
    <3>2. rows[i] \in Row
      BY <3>1 DEF Exists, CatalogTypeOK
    <3>3. rows'[i] \in Row /\ ~rows'[i].active
      BY <3>1, <3>2 DEF CatalogTypeOK, Row
    <3>4. j # i => rows'[j] = rows[j]
      BY <3>1 DEF CatalogTypeOK
    <3> QED
      BY <3>3, <3>4, RowAssumption DEF Exists
  <2> QED
    BY <2>1, <2>2, <2>3, <2>4 DEF CatalogStep, CheckCreate, LoadForUpdate, CheckUpdate
<1>2. CatalogInv /\ [CatalogNext]_catalogVars => [Final]_catalogVars
  BY <1>1
<1> QED
  BY <1>2, CatalogInvariant, PTL DEF CatalogSpec, DeactivatedForGood

\* Whatever was written since an Update loaded its row, what it writes is the key
\* and the price of its own body.
THEOREM UpdatesDoNotMix == CatalogSpec => WritesAreWhole
<1> DEFINE Moves(i) == IF rows[i] = None THEN rows'[i] # None
                       ELSE <<rows[i].key, rows[i].price>> # <<rows'[i].key, rows'[i].price>>
           Whole == \A i \in Ids : Moves(i) =>
                       \E c \in Clients : req[c].key = rows'[i].key /\ req[c].price = rows'[i].price
<1>1. CatalogInv /\ CatalogNext => Whole
  <2> SUFFICES ASSUME CatalogInv, NEW c \in Clients, CatalogStep(c),
                      NEW j \in Ids, Moves(j)
               PROVE  req[c].key = rows'[j].key /\ req[c].price = rows'[j].price
    BY DEF CatalogNext
  <2> USE DEF CatalogInv
  <2>1. CASE UNCHANGED rows
    BY <2>1
  <2>2. CASE Insert(c)
    BY <2>2 DEF Insert, Write, CatalogTypeOK
  <2>3. CASE ApplyUpdate(c)
    BY <2>3, UpdatedRow DEF ApplyUpdate, Write, CatalogTypeOK
  <2>4. CASE Deactivate(c)
    <3>1. PICK i \in Ids : Exists(i) /\ rows' = [rows EXCEPT ![i].active = FALSE]
      BY <2>4 DEF Deactivate
    <3>2. rows[i] \in Row
      BY <3>1 DEF Exists, CatalogTypeOK
    <3>3. rows'[i].key = rows[i].key /\ rows'[i].price = rows[i].price
      BY <3>1, <3>2 DEF CatalogTypeOK, Row
    <3>4. j # i => rows'[j] = rows[j]
      BY <3>1 DEF CatalogTypeOK
    <3> QED
      BY <3>1, <3>3, <3>4 DEF Exists
  <2> QED
    BY <2>1, <2>2, <2>3, <2>4 DEF CatalogStep, CheckCreate, LoadForUpdate, CheckUpdate
<1>2. CatalogInv /\ [CatalogNext]_catalogVars => [Whole]_catalogVars
  BY <1>1
<1> QED
  BY <1>2, CatalogInvariant, PTL DEF CatalogSpec, WritesAreWhole

=============================================================================
