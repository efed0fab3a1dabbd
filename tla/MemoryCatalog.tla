--------------------------- MODULE MemoryCatalog ---------------------------
(***************************************************************************)
(* The customer and product services of dev/phase-3-customer and            *)
(* dev/phase-4-product over the InMemoryRepository that internal/customer    *)
(* and internal/product still ship: a map behind a mutex.  It differs from   *)
(* the table of Catalog in two ways: nothing rejects a key that is taken,     *)
(* and Update stores the whole record that the service loaded.  Each call of  *)
(* the repository is one step, so that requests interleave between them.      *)
(***************************************************************************)

CONSTANTS
    Records,    \* ids of records
    Documents,  \* customers.document, products.sku: non-blank texts, trimmed
    Callers,    \* concurrent request goroutines
    Nothing     \* no record, no id, a blank text

ASSUME MemoryAssumption == Nothing \notin Records \cup Documents

VARIABLES
    kind,      \* which of the two services runs: "customer" or "product"
    items,     \* the map
    call,      \* the running request of each caller
    off,       \* history: the records that a Deactivate has been made of
    raced,     \* history: the keys stored by a request that missed another's store
    revived    \* history: the records stored by an Update that missed a Deactivate

memoryHistory == <<off, raced, revived>>
memoryVars == <<kind, items, call, memoryHistory>>

-----------------------------------------------------------------------------
\* A name is blank or not; a price is positive, or it is not, or there is none.
Blank == ""
Filled == "filled"
NoPrice == "none"
Positive == "positive"

\* What a client sends, trimmed.
Bodies == [name : {Blank, Filled}, key : Documents \cup {Nothing}, price : {NoPrice, Positive}]

\* Validation of a customer: name and document required.
ValidCustomer(b) == b.name # Blank /\ b.key # Nothing /\ b.price = NoPrice

\* Validation of a product: name and SKU required, and a positive price.
ValidProduct(b) == b.name # Blank /\ b.key # Nothing /\ b.price = Positive

ValidBody(b) ==
    \/ kind = "customer" /\ ValidCustomer(b)
    \/ kind = "product" /\ ValidProduct(b)

Item == [key : Documents, price : {NoPrice, Positive}, active : BOOLEAN]

ASSUME ItemAssumption == Nothing \notin Item

Stored(i) == items[i] # Nothing

\* A request: the record it loaded, its body, whether another has stored its key
\* since it looked (missed), and whether its record was deactivated since it
\* loaded it (late).
IdleCall == [pc |-> "idle", id |-> Nothing, seen |-> Nothing, key |-> Nothing,
             price |-> NoPrice, missed |-> "no", late |-> "no"]

Calls == [pc : {"idle", "put", "check", "store"}, id : Records \cup {Nothing},
          seen : Item \cup {Nothing}, key : Documents \cup {Nothing},
          price : {NoPrice, Positive}, missed : {"no", "yes"}, late : {"no", "yes"}]

\* The records that FindByDocument or FindBySKU may return: the first one that the
\* iteration over the map meets, in no particular order.
FindByKey(k) == {i \in Records : Stored(i) /\ items[i].key = k}

\* Mutant: nobody looks whether the key is taken.
FoundFreeAlways(k, i) == TRUE

\* ensureDocumentUnique, excluding record i: none is found, or the record itself is.
FoundFree(k, i) == FindByKey(k) = {} \/ i \in FindByKey(k)

\* ensureSKUUnique, likewise: another record is found, and reported as a duplicate.
FoundTaken(k, i) == \E j \in FindByKey(k) : j # i

-----------------------------------------------------------------------------
\* Create up to the uniqueness check and the new id, which nobody else has.  A
\* request that is refused changes nothing.
BeginCreate(c) ==
    /\ call[c].pc = "idle"
    /\ \E i \in Records, b \in Bodies :
          /\ ValidBody(b)
          /\ FoundFree(b.key, Nothing)
          /\ ~Stored(i) /\ \A d \in Callers : call[d].id # i
          /\ call' = [call EXCEPT ![c] = [IdleCall EXCEPT
                        !.pc = "put", !.id = i, !.key = b.key, !.price = b.price]]
    /\ UNCHANGED <<kind, items, memoryHistory>>

\* The requests that have looked for key k before it was stored.
Misses(r, k) == IF r.pc # "idle" /\ r.key = k THEN [r EXCEPT !.missed = "yes"] ELSE r

\* A store of its record by request c, which is answered.
Store(c, active) ==
    LET r == call[c]
    IN  /\ items' = [items EXCEPT ![r.id] = [key |-> r.key, price |-> r.price, active |-> active]]
        /\ call' = [d \in Callers |-> IF d = c THEN IdleCall ELSE Misses(call[d], r.key)]
        /\ raced' = IF r.missed = "yes" THEN raced \cup {r.key} ELSE raced
        /\ revived' = IF r.late = "yes" THEN revived \cup {r.id} ELSE revived
        /\ UNCHANGED <<kind, off>>

\* The rest of Create: the record is put under its id.
Put(c) == call[c].pc = "put" /\ Store(c, TRUE)

\* Update loads the record; a body that keeps the key skips the check.
LoadItem(c) ==
    /\ call[c].pc = "idle"
    /\ \E i \in Records, b \in Bodies :
          /\ Stored(i)
          /\ ValidBody(b)
          /\ call' = [call EXCEPT ![c] = [IdleCall EXCEPT
                        !.pc = IF b.key = items[i].key THEN "store" ELSE "check",
                        !.id = i, !.seen = items[i], !.key = b.key, !.price = b.price]]
    /\ UNCHANGED <<kind, items, memoryHistory>>

\* The check of a new key, which a duplicate answers 409.
CheckKey(c) ==
    /\ call[c].pc = "check"
    /\ \/ /\ FoundFree(call[c].key, call[c].id)
          /\ call' = [call EXCEPT ![c].pc = "store", ![c].missed = "no"]
       \/ /\ FoundTaken(call[c].key, call[c].id)
          /\ call' = [call EXCEPT ![c] = IdleCall]
    /\ UNCHANGED <<kind, items, memoryHistory>>

\* Mutant: an Update makes its record active.
StoreItemActive(c) == call[c].pc = "store" /\ Store(c, TRUE)

\* The rest of Update: the loaded record, with the fields of the body, is stored
\* as a whole, active as it was when it was loaded.
StoreItem(c) == call[c].pc = "store" /\ Store(c, call[c].seen.active)

\* Deactivate, in one critical section.
TurnOff(c) ==
    /\ call[c].pc = "idle"
    /\ \E i \in Records :
          /\ Stored(i)
          /\ items' = [items EXCEPT ![i].active = FALSE]
          /\ off' = off \cup {i}
          /\ revived' = revived \ {i}
          /\ call' = [d \in Callers |->
                         IF call[d].id = i THEN [call[d] EXCEPT !.late = "yes"] ELSE call[d]]
    /\ UNCHANGED <<kind, raced>>

MemoryInit ==
    /\ kind \in {"customer", "product"}
    /\ items = [i \in Records |-> Nothing]
    /\ call = [c \in Callers |-> IdleCall]
    /\ off = {} /\ raced = {} /\ revived = {}

MemoryStep(c) ==
    \/ BeginCreate(c)
    \/ Put(c)
    \/ LoadItem(c)
    \/ CheckKey(c)
    \/ StoreItem(c)
    \/ TurnOff(c)

MemoryNext == \E c \in Callers : MemoryStep(c)

MemorySpec == MemoryInit /\ [][MemoryNext]_memoryVars

-----------------------------------------------------------------------------
\* Every variable has its type, and a product that is stored a positive price.
MemoryTypeOK ==
    /\ kind \in {"customer", "product"}
    /\ items \in [Records -> Item \cup {Nothing}]
    /\ \A i \in Records : Stored(i) /\ kind = "product" => items[i].price = Positive
    /\ call \in [Callers -> Calls]
    /\ off \subseteq Records /\ raced \subseteq Documents /\ revived \subseteq Records

(* Two records share a document or a SKU only if a request stored that key        *)
(* without having seen that another had stored it since it looked: requests that  *)
(* do not overlap never make a duplicate (Service.Create, Service.Update).        *)
DuplicatesNeedOverlap ==
    \A i, j \in Records : i # j /\ Stored(i) /\ Stored(j) /\ items[i].key = items[j].key =>
        items[i].key \in raced

(* A record that was deactivated is active again only if an Update that had loaded *)
(* it before the Deactivate stored it afterwards (Service.Update, Deactivate).     *)
RevivalNeedsOverlap ==
    \A i \in off : Stored(i) /\ items[i].active => i \in revived

=============================================================================
