------------------------------ MODULE Listing ------------------------------
(***************************************************************************)
(* The list endpoints: GET /api/customers, /api/products and /api/orders.  *)
(* A request counts the matching rows, then reads one page of them in the   *)
(* order of created_at and id, then (orders only) reads each row again for  *)
(* its items, in separate statements.  A client walks through the pages     *)
(* while other requests insert rows.  created_at is the API's clock when a  *)
(* Create begins, so rows may be inserted out of their order.               *)
(***************************************************************************)
EXTENDS Integers, FiniteSets, SequencesExt

CONSTANTS
    Ids,        \* row ids, ordered as the database orders UUIDs
    Writers,    \* concurrent Create requests
    MaxTime,    \* bound on the API's clock
    Sizes,      \* values of page_size a client may send, 0 when it omits it
    DefaultPageSize,
    MaxPageSize,
    None        \* no row, no running Create

ASSUME ListingAssumption ==
    /\ Ids \subseteq Nat
    /\ Sizes \subseteq Int
    /\ MaxTime \in Nat
    /\ DefaultPageSize \in Nat \ {0}
    /\ MaxPageSize \in Nat \ {0}
    /\ None \notin Nat

VARIABLES
    table,    \* created_at of each row
    matches,  \* the rows that satisfy the client's filter
    clock,    \* time.Now of the API process
    writer,   \* the created_at that each running Create has taken
    list,     \* the client and its request at work
    before,   \* history: the rows selected when the client began, in order
    seen,     \* history: the rows the client was sent, in order
    meanwhile \* history: what happened to the selected rows since the client began

vars == <<table, matches, clock, writer, list, before, seen, meanwhile>>
store == <<table, matches, clock, writer>>
history == <<before, seen, meanwhile>>

-----------------------------------------------------------------------------

\* The client and its request: at "ready" it is about to ask for a page, at
\* "page" and "items" the request has counted, and has read its page.
ListState == [pc : {"ready", "page", "items", "done"}, page : Nat, size : Nat,
              total : Nat, rows : Seq(Ids), read : Nat]

Present == {i \in Ids : table[i] # None}

\* SELECT count(*) ... WHERE, and the rows of SELECT ... WHERE.
Selected == Present \cap matches

\* List's defaults and limits; a request that is refused (400) reads nothing.
Page(p) == IF p = 0 THEN 1 ELSE p
PageSize(s) == IF s = 0 THEN DefaultPageSize ELSE s

\* Mutant: the limits are not checked.
ValidAlways(p, s) == TRUE

Valid(p, s) == Page(p) >= 1 /\ PageSize(s) \in 1..MaxPageSize

\* ORDER BY created_at, id.
Before(i, j) == table[i] < table[j] \/ (table[i] = table[j] /\ i < j)
InOrder(S) ==
    CHOOSE s \in [1..Cardinality(S) -> S] :
        \A i, j \in 1..Cardinality(S) : i < j => Before(s[i], s[j])
Sorted == InOrder(Selected)

\* Mutant: pages are numbered from zero.
OffsetFromZero(p, s) == p * s

Offset(p, s) == (p - 1) * s

\* LIMIT size OFFSET offset.
PageRows(p, s) ==
    LET from == Offset(p, s)
        n == Len(Sorted)
    IN  SubSeq(Sorted, from + 1, IF from + s < n THEN from + s ELSE n)

\* Mutant: a last page that is not full is not counted.
TotalPagesFull(total, s) == total \div s

TotalPages(total, s) == (total + s - 1) \div s

-----------------------------------------------------------------------------
(* The in-memory repositories of customers, products and orders: List takes   *)
(* one look at its map, sorts what matches and cuts a slice of it, whose      *)
(* bounds it has to clamp where SQL would return fewer rows.                 *)

\* The loop over the map, and the sort by created_at and then id.
Matched == InOrder({i \in Ids : table[i] # None /\ i \in matches})

\* Mutant: only the end is clamped.
MemoryStartUnclamped(p, s) == (p - 1) * s

MemoryStart(p, s) == Min({(p - 1) * s, Len(Matched)})
MemoryEnd(p, s) == Min({MemoryStart(p, s) + s, Len(Matched)})

\* matched[start:end] panics unless start <= end.  The double of the orders alone
\* guards the division against a page size of zero, which no service passes on:
\* each replaces it by the default.
MemoryPage(p, s) ==
    [ok |-> MemoryStart(p, s) <= MemoryEnd(p, s),
     rows |-> SubSeq(Matched, MemoryStart(p, s) + 1, MemoryEnd(p, s)),
     pages |-> IF s > 0 THEN (Len(Matched) + s - 1) \div s ELSE 0]

-----------------------------------------------------------------------------

Asking(page, size) ==
    [pc |-> "ready", page |-> page, size |-> size, total |-> 0, rows |-> <<>>, read |-> 0]

\* A client begins to walk: it fixes a page size and asks for the first page,
\* which it may leave to the default.
Begin ==
    /\ list.pc = "done"
    /\ \E s \in Sizes, p \in {-1, 0, 1} :
          /\ Valid(p, s)
          /\ list' = Asking(Page(p), PageSize(s))
    /\ before' = Sorted
    /\ seen' = <<>>
    /\ meanwhile' = {}
    /\ UNCHANGED store

\* PostgresRepository.List up to its count.
Count ==
    /\ list.pc = "ready"
    /\ list' = [list EXCEPT !.pc = "page", !.total = Cardinality(Selected)]
    /\ UNCHANGED <<store, history>>

\* The rest of PostgresRepository.List: the page.
ReadPage ==
    /\ list.pc = "page"
    /\ list' = [list EXCEPT !.pc = "items", !.rows = PageRows(list.page, list.size)]
    /\ UNCHANGED <<store, history>>

\* Service.List for orders: FindByID of each row of the page, for its items.  The
\* row is there, for none is ever deleted.
ReadItems ==
    /\ list.pc = "items"
    /\ list.read < Len(list.rows)
    /\ list' = [list EXCEPT !.read = @ + 1]
    /\ UNCHANGED <<store, history>>

\* The page is answered; the client asks for the next one until it gets one
\* that is not full.
Answer ==
    /\ list.pc = "items"
    /\ list.read = Len(list.rows)
    /\ seen' = seen \o list.rows
    /\ list' = IF Len(list.rows) < list.size
               THEN [list EXCEPT !.pc = "done"]
               ELSE Asking(list.page + 1, list.size)
    /\ UNCHANGED <<store, before, meanwhile>>

\* A statement fails and the request is answered 500: the client asks again.
ListFails ==
    /\ list.pc \in {"page", "items"}
    /\ list' = Asking(list.page, list.size)
    /\ UNCHANGED <<store, history>>

\* A Create takes created_at from its clock.
Stamp(w) ==
    /\ writer[w] = None
    /\ \E t \in {clock, clock + 1} :
          /\ t <= MaxTime
          /\ clock' = t
          /\ writer' = [writer EXCEPT ![w] = t]
    /\ UNCHANGED <<table, matches, list, history>>

\* Its INSERT commits, under a fresh id.
InsertRow(w) ==
    /\ writer[w] # None
    /\ \E i \in Ids \ Present :
          /\ table' = [table EXCEPT ![i] = writer[w]]
          /\ meanwhile' = IF i \in matches THEN meanwhile \cup {"insert"} ELSE meanwhile
    /\ writer' = [writer EXCEPT ![w] = None]
    /\ UNCHANGED <<matches, clock, list, before, seen>>

\* An Update, a Deactivate or a status change makes a row enter or leave the filter.
ChangeRow(i) ==
    /\ i \in Present
    /\ matches' = IF i \in matches THEN matches \ {i} ELSE matches \cup {i}
    /\ meanwhile' = meanwhile \cup {"change"}
    /\ UNCHANGED <<table, clock, writer, list, before, seen>>

Init ==
    /\ table = [i \in Ids |-> None]
    /\ matches \in SUBSET Ids
    /\ clock = 0
    /\ writer = [w \in Writers |-> None]
    /\ list = [Asking(1, DefaultPageSize) EXCEPT !.pc = "done"]
    /\ before = <<>>
    /\ seen = <<>>
    /\ meanwhile = {}

Next ==
    \/ Begin
    \/ Count
    \/ ReadPage
    \/ ReadItems
    \/ Answer
    \/ ListFails
    \/ \E w \in Writers : Stamp(w) \/ InsertRow(w)
    \/ \E i \in Ids : ChangeRow(i)

Spec == Init /\ [][Next]_vars

-----------------------------------------------------------------------------
(* Properties. *)

\* Every variable has its type, and List's limits bound what a page returns.
ListingTypeOK ==
    /\ table \in [Ids -> 0..MaxTime \cup {None}]
    /\ matches \subseteq Ids
    /\ clock \in 0..MaxTime
    /\ writer \in [Writers -> 0..MaxTime \cup {None}]
    /\ list \in ListState
    /\ Len(list.rows) <= MaxPageSize
    /\ before \in Seq(Ids)
    /\ seen \in Seq(Ids)
    /\ meanwhile \subseteq {"insert", "change"}

\* A client that walks to the first page that is not full was sent every row that
\* was there when it began, however many rows are inserted meanwhile and wherever
\* they sort, as long as no row enters or leaves the filter.
WalkMissesNothing ==
    list.pc = "done" /\ "change" \notin meanwhile => Range(before) \subseteq Range(seen)

\* If nothing changes meanwhile, the walk is exact: every row once and in order,
\* and total and total_pages tell where it ends.
QuietWalkIsExact ==
    list.pc = "done" /\ meanwhile = {} /\ list.total > 0 =>
        /\ seen = before
        /\ list.total = Len(seen)
        /\ list.page - TotalPages(list.total, list.size) \in {0, 1}
        /\ list.page = TotalPages(list.total, list.size) <=> list.rows # <<>>

\* The in-memory repositories, on which every unit test of the services rests, give
\* for the page a client is about to ask for what the database gives: no slice out
\* of range, the rows of LIMIT and OFFSET, and as many pages as the total needs, also
\* when rows have left the filter and the page is beyond the last one
\* (InMemoryRepository.List).
DoublesListAlike ==
    list.pc = "ready" =>
        LET page == MemoryPage(list.page, list.size)
        IN  /\ page.ok
            /\ page.rows = PageRows(list.page, list.size)
            /\ page.pages = TotalPages(Cardinality(Selected), list.size)
            /\ page.rows = <<>> <=> list.page > page.pages
=============================================================================
