------------------------------- MODULE Catalog -------------------------------
(***************************************************************************)
(* A table of the catalog: customers with their documents, or products     *)
(* with their SKUs and prices.  The two services are line for line the     *)
(* same: check that the key is free, then insert; load, check, then        *)
(* update; deactivate and never delete.  Every statement is one step, so   *)
(* the requests of several clients interleave between them, and only the   *)
(* UNIQUE constraint of the table is atomic.                               *)
(***************************************************************************)
EXTENDS Naturals

CONSTANTS
    Ids,         \* row ids the service may generate
    Keys,        \* customers.document, products.sku
    Prices,      \* products.price; one value for customers
    Clients,     \* concurrent request goroutines
    MayFail,     \* whether statements may fail
    None         \* no row, no id, no key

ASSUME CatalogAssumption ==
    /\ None \notin Ids \cup Keys \cup Prices
    /\ MayFail \in BOOLEAN

VARIABLES
    rows,    \* the table
    req      \* the running request of each client

catalogVars == <<rows, req>>

-----------------------------------------------------------------------------

Row == [key : Keys, price : Prices, active : BOOLEAN]

ASSUME RowAssumption == None \notin Row

Exists(i) == rows[i] # None

\* A request at work: the row it loaded, and the key and price of its body.
Request == [pc : {"idle", "insert", "check", "update"}, id : Ids \cup {None},
            seen : Row \cup {None}, key : Keys \cup {None}, price : Prices \cup {None}]
IdleRequest == [pc |-> "idle", id |-> None, seen |-> None, key |-> None, price |-> None]

\* SELECT ... WHERE key = k: whether a row other than i has the key.
KeyTaken(k, i) == \E j \in Ids : Exists(j) /\ rows[j].key = k /\ j # i

\* Mutant: the column has no UNIQUE constraint.
RejectsNothing(k, i) == FALSE

\* The UNIQUE constraint, on an INSERT or UPDATE of row i.
Rejects(k, i) == KeyTaken(k, i)

\* The keys that validation lets through: Keys are the non-blank ones, trimmed.
AcceptedKeys == Keys

\* The client is answered and its request is over.
Answered(c) == req' = [req EXCEPT ![c] = IdleRequest]

\* Create up to ensureDocumentUnique / ensureSKUUnique.  A request that is
\* refused here (400, 409, 500) has no effect and its client stays idle.
CheckCreate(c) ==
    /\ req[c].pc = "idle"
    /\ \E k \in AcceptedKeys, p \in Prices :
          /\ ~KeyTaken(k, None)
          /\ req' = [req EXCEPT ![c] = [pc |-> "insert", id |-> None, seen |-> None,
                                        key |-> k, price |-> p]]
    /\ UNCHANGED rows

\* A write of row i: the row becomes new, unless the statement fails or the
\* constraint rejects it, both answered 500.  A reply that is lost after the
\* write is answered 500 too, and differs in nothing else.
Write(c, i, new) ==
    /\ \/ ~Rejects(new.key, i) /\ rows' = [rows EXCEPT ![i] = new]
       \/ Rejects(new.key, i) /\ UNCHANGED rows
       \/ MayFail /\ UNCHANGED rows
    /\ Answered(c)

\* The rest of Create: INSERT under a fresh id.
Insert(c) ==
    /\ req[c].pc = "insert"
    /\ \E i \in Ids :
          /\ ~Exists(i)
          /\ Write(c, i, [key |-> req[c].key, price |-> req[c].price, active |-> TRUE])

\* Update loads the row; a body that keeps the key skips the check.
LoadForUpdate(c) ==
    /\ req[c].pc = "idle"
    /\ \E i \in Ids, k \in AcceptedKeys, p \in Prices :
          /\ Exists(i)
          /\ req' = [req EXCEPT ![c] =
                [pc |-> IF k = rows[i].key THEN "update" ELSE "check",
                 id |-> i, seen |-> rows[i], key |-> k, price |-> p]]
    /\ UNCHANGED rows

\* ensureDocumentUnique / ensureSKUUnique, excluding the row itself: a taken key
\* is answered 409, a failing SELECT 500.
CheckUpdate(c) ==
    /\ req[c].pc = "check"
    /\ \/ ~KeyTaken(req[c].key, req[c].id) /\ req' = [req EXCEPT ![c].pc = "update"]
       \/ (KeyTaken(req[c].key, req[c].id) \/ MayFail) /\ Answered(c)
    /\ UNCHANGED rows

\* Mutants: the UPDATE writes the loaded record back as a whole, or only the
\* columns that the body changes.
UpdatedWhole(row, r) == [key |-> r.key, price |-> r.price, active |-> r.seen.active]
UpdatedChanges(row, r) ==
    [row EXCEPT !.key = IF r.key = r.seen.key THEN @ ELSE r.key,
                !.price = IF r.price = r.seen.price THEN @ ELSE r.price]

\* UPDATE ... SET: every mutable column, and not active.
Updated(row, r) == [row EXCEPT !.key = r.key, !.price = r.price]

\* The rest of Update.
ApplyUpdate(c) ==
    /\ req[c].pc = "update"
    /\ Write(c, req[c].id, Updated(rows[req[c].id], req[c]))

\* Deactivate is one statement; the row stays.  One that fails has no effect.
Deactivate(c) ==
    /\ req[c].pc = "idle"
    /\ \E i \in Ids :
          /\ Exists(i)
          /\ rows' = [rows EXCEPT ![i].active = FALSE]
    /\ UNCHANGED req

CatalogInit ==
    /\ rows = [i \in Ids |-> None]
    /\ req = [c \in Clients |-> IdleRequest]

CatalogStep(c) ==
    \/ CheckCreate(c)
    \/ Insert(c)
    \/ LoadForUpdate(c)
    \/ CheckUpdate(c)
    \/ ApplyUpdate(c)
    \/ Deactivate(c)

CatalogNext == \E c \in Clients : CatalogStep(c)

CatalogSpec == CatalogInit /\ [][CatalogNext]_catalogVars

-----------------------------------------------------------------------------
(* Properties. *)

\* Every variable has its type.
CatalogTypeOK ==
    /\ rows \in [Ids -> Row \cup {None}]
    /\ req \in [Clients -> Request]

\* No two customers share a document and no two products a SKU (BR-CUS-002,
\* BR-PRD-002), although two requests may both have found the key free.
KeysUnique ==
    \A i, j \in Ids : Exists(i) /\ Exists(j) /\ rows[i].key = rows[j].key => i = j

\* A running request carries a valid body, and an Update an existing row.
RequestsAtWork ==
    \A c \in Clients :
        /\ req[c].pc # "idle" => req[c].key \in Keys /\ req[c].price \in Prices
        /\ req[c].pc \in {"check", "update"} => req[c].id \in Ids /\ Exists(req[c].id)

\* The inductive invariant.
CatalogInv == CatalogTypeOK /\ RequestsAtWork /\ KeysUnique

\* A deactivated row stays deactivated and no row is ever deleted (BR-CUS-004),
\* in particular when an Update loaded the row before it was deactivated.
DeactivatedForGood ==
    [][\A i \in Ids : Exists(i) =>
          rows'[i] # None /\ (rows'[i].active => rows[i].active)]_catalogVars

\* Concurrent Updates of one row do not mix: a write leaves in the row the key
\* and the price of one request, whatever was written since it loaded the row.
WritesAreWhole ==
    [][\A i \in Ids :
          LET old == rows[i]
              new == rows'[i]
          IN  (IF old = None THEN new # None ELSE <<old.key, old.price>> # <<new.key, new.price>>)
                 => \E c \in Clients : req[c].key = new.key /\ req[c].price = new.price]_catalogVars

==============================================================================
