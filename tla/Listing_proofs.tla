---------------------------- MODULE Listing_proofs ----------------------------
(***************************************************************************)
(* The properties of the list endpoints, for every set of ids, every clock   *)
(* and all limits of a page.                                                *)
(***************************************************************************)
EXTENDS Listing, FiniteSetTheorems, SequenceTheorems, TLAPS

-----------------------------------------------------------------------------
(* Enumerations of a set of rows S in the order of their times t and their    *)
(* ids.                                                                     *)

Lt(t, i, j) == t[i] < t[j] \/ (t[i] = t[j] /\ i < j)

Below(t, S, x) == {y \in S : Lt(t, y, x)}

Ordered(t, S, s) ==
    /\ s \in [1..Cardinality(S) -> S]
    /\ \A i, j \in 1..Cardinality(S) : i < j => Lt(t, s[i], s[j])

\* Rows with a time, finitely many.
Rows(t, S) == IsFiniteSet(S) /\ \A x \in S : x \in Nat /\ t[x] \in Nat

LEMMA LtOrder ==
    ASSUME NEW t, NEW S, Rows(t, S)
    PROVE  /\ \A x \in S : ~Lt(t, x, x)
           /\ \A x, y \in S : x # y => Lt(t, x, y) \/ Lt(t, y, x)
           /\ \A x, y \in S : Lt(t, x, y) => ~Lt(t, y, x)
           /\ \A x, y, z \in S : Lt(t, x, y) /\ Lt(t, y, z) => Lt(t, x, z)
BY DEF Rows, Lt

\* The rows before a row, counted, tell the rows apart.
LEMMA RankStrict ==
    ASSUME NEW t, NEW S, Rows(t, S), NEW x \in S, NEW y \in S, Lt(t, x, y)
    PROVE  /\ Cardinality(Below(t, S, x)) \in Nat
           /\ Cardinality(Below(t, S, y)) \in Nat
           /\ Cardinality(Below(t, S, x)) < Cardinality(Below(t, S, y))
<1>1. IsFiniteSet(S)
  BY DEF Rows
<1>2. /\ Below(t, S, x) \in SUBSET Below(t, S, y)
      /\ x \in Below(t, S, y) /\ x \notin Below(t, S, x)
  BY LtOrder DEF Below
<1>3. Below(t, S, x) \in SUBSET S /\ Below(t, S, y) \in SUBSET S
  BY DEF Below
<1>4. /\ IsFiniteSet(Below(t, S, x)) /\ Cardinality(Below(t, S, x)) \in Nat
      /\ IsFiniteSet(Below(t, S, y)) /\ Cardinality(Below(t, S, y)) \in Nat
  BY <1>1, <1>3, FS_Subset, FS_CardinalityType
<1>5. Below(t, S, x) # Below(t, S, y)
  BY <1>2
<1> QED
  BY <1>2, <1>4, <1>5, FS_Subset

\* Every finite set of rows can be put in order: number each row by the rows
\* before it.
LEMMA OrderedExists ==
    ASSUME NEW t, NEW S, Rows(t, S)
    PROVE  \E s : Ordered(t, S, s)
<1> DEFINE n == Cardinality(S)
           r == [x \in S |-> Cardinality(Below(t, S, x)) + 1]
<1>1. IsFiniteSet(S) /\ n \in Nat
  BY FS_CardinalityType DEF Rows
<1>2. \A x \in S : r[x] \in 1..n
  <2> SUFFICES ASSUME NEW x \in S PROVE r[x] \in 1..n
    OBVIOUS
  <2>1. Below(t, S, x) \in SUBSET S /\ x \notin Below(t, S, x)
    BY LtOrder DEF Below
  <2>2. /\ Cardinality(Below(t, S, x)) \in Nat /\ Cardinality(Below(t, S, x)) <= n
        /\ Cardinality(Below(t, S, x)) # n
    BY <1>1, <2>1, FS_Subset, FS_CardinalityType
  <2> QED
    BY <1>1, <2>2
<1>3. \A x, y \in S : Lt(t, x, y) => r[x] < r[y]
  BY RankStrict
<1>4. \A x, y \in S : r[x] = r[y] => x = y
  <2> SUFFICES ASSUME NEW x \in S, NEW y \in S, r[x] = r[y], x # y PROVE FALSE
    OBVIOUS
  <2>1. r[x] < r[y] \/ r[y] < r[x]
    BY <1>3, LtOrder
  <2> QED
    BY <1>2, <2>1
<1> HIDE DEF r
<1>5. r \in [S -> 1..n]
  BY <1>2 DEF r
<1>6. r \in Injection(S, 1..n)
  BY <1>4, <1>5 DEF Injection, IsInjective
<1>7. IsFiniteSet(1..n) /\ Cardinality(1..n) = n
  BY <1>1, FS_Interval
<1>8. r \in Surjection(S, 1..n)
  BY <1>6, <1>7, FS_Injection
<1>9. \A k \in 1..n : \E x \in S : r[x] = k
  BY <1>8 DEF Surjection
<1> DEFINE s == [k \in 1..n |-> CHOOSE x \in S : r[x] = k]
<1>10. \A k \in 1..n : s[k] \in S /\ r[s[k]] = k
  BY <1>9
<1> HIDE DEF s
<1>11. s \in [1..n -> S]
  BY <1>10 DEF s
<1>12. \A i, j \in 1..n : i < j => Lt(t, s[i], s[j])
  <2> SUFFICES ASSUME NEW i \in 1..n, NEW j \in 1..n, i < j PROVE Lt(t, s[i], s[j])
    OBVIOUS
  <2>1. s[i] \in S /\ s[j] \in S /\ r[s[i]] = i /\ r[s[j]] = j
    BY <1>10
  <2>2. s[i] # s[j] /\ ~Lt(t, s[j], s[i])
    <3>1. ~(j < i) /\ i # j
      BY <1>1
    <3> QED
      BY <1>3, <2>1, <3>1
  <2> QED
    BY <2>1, <2>2, LtOrder
<1> QED
  BY <1>11, <1>12 DEF Ordered

\* In an ordered enumeration a row stands behind as many rows as are before it, and
\* every row has its place.
LEMMA OrderedRank ==
    ASSUME NEW t, NEW S, Rows(t, S), NEW s, Ordered(t, S, s)
    PROVE  /\ \A k \in 1..Cardinality(S) : Cardinality(Below(t, S, s[k])) = k - 1
           /\ \A x \in S : \E k \in 1..Cardinality(S) : s[k] = x
<1> DEFINE n == Cardinality(S)
<1>1. IsFiniteSet(S) /\ n \in Nat
  BY FS_CardinalityType DEF Rows
<1>2. s \in [1..n -> S] /\ \A i, j \in 1..n : i < j => Lt(t, s[i], s[j])
  BY DEF Ordered
<1>3. \A i, j \in 1..n : s[i] = s[j] => i = j
  <2> SUFFICES ASSUME NEW i \in 1..n, NEW j \in 1..n, s[i] = s[j], i # j PROVE FALSE
    OBVIOUS
  <2>1. i < j \/ j < i
    BY <1>1
  <2> QED
    BY <1>2, <2>1, LtOrder
<1>4. s \in Injection(1..n, S)
  BY <1>2, <1>3 DEF Injection, IsInjective
<1>5. IsFiniteSet(1..n) /\ Cardinality(1..n) = n
  BY <1>1, FS_Interval
<1>6. s \in Surjection(1..n, S)
  BY <1>1, <1>4, <1>5, FS_Injection
<1>7. \A x \in S : \E k \in 1..n : s[k] = x
  BY <1>6 DEF Surjection
<1>8. ASSUME NEW k \in 1..n PROVE Cardinality(Below(t, S, s[k])) = k - 1
  <2> DEFINE B == Below(t, S, s[k])
             f == [i \in 1..(k - 1) |-> s[i]]
  <2>1. \A i \in 1..(k - 1) : i \in 1..n /\ i < k
    BY <1>1
  <2>2. \A i \in 1..(k - 1) : s[i] \in B
    BY <1>2, <2>1 DEF Below
  <2>3. \A y \in B : \E i \in 1..(k - 1) : s[i] = y
    <3> SUFFICES ASSUME NEW y \in B PROVE \E i \in 1..(k - 1) : s[i] = y
      OBVIOUS
    <3>1. y \in S /\ Lt(t, y, s[k])
      BY DEF Below
    <3>2. PICK i \in 1..n : s[i] = y
      BY <1>7, <3>1
    <3>3. ~(k < i) /\ i # k
      BY <1>2, <3>1, <3>2, LtOrder
    <3>4. i \in 1..(k - 1)
      BY <1>1, <3>3
    <3> QED
      BY <3>2, <3>4
  <2>4. f \in Bijection(1..(k - 1), B)
    <3> HIDE DEF B
    <3>1. f \in [1..(k - 1) -> B]
      BY <2>2
    <3>2. \A i, j \in 1..(k - 1) : f[i] = f[j] => i = j
      BY <1>3, <2>1
    <3>3. \A y \in B : \E i \in 1..(k - 1) : f[i] = y
      BY <2>3
    <3> QED
      BY <3>1, <3>2, <3>3 DEF Bijection, Injection, Surjection, IsInjective
  <2>5. IsFiniteSet(1..(k - 1)) /\ Cardinality(1..(k - 1)) = k - 1
    <3>1. k \in Nat /\ k >= 1 /\ k - 1 \in Int
      BY <1>1
    <3>2. /\ IsFiniteSet(1..(k - 1))
          /\ Cardinality(1..(k - 1)) = IF 1 > k - 1 THEN 0 ELSE (k - 1) - 1 + 1
      BY <3>1, FS_Interval
    <3> QED
      BY <3>1, <3>2
  <2> QED
    BY <2>4, <2>5, FS_Bijection DEF ExistsBijection
<1> QED
  BY <1>7, <1>8

\* There is one ordered enumeration, and it depends only on the rows in it.
LEMMA OrderedUnique ==
    ASSUME NEW t, NEW u, NEW S, Rows(t, S), Rows(u, S), \A x \in S : t[x] = u[x],
           NEW s, Ordered(t, S, s), NEW r, Ordered(u, S, r)
    PROVE  s = r
<1> DEFINE n == Cardinality(S)
<1>1. s \in [1..n -> S] /\ r \in [1..n -> S]
  BY DEF Ordered
<1>2. \A x \in S : Below(t, S, x) = Below(u, S, x)
  BY DEF Below, Lt
<1>3. ASSUME NEW k \in 1..n PROVE s[k] = r[k]
  <2>1. s[k] \in S /\ r[k] \in S
    BY <1>1
  <2>2. Cardinality(Below(t, S, s[k])) = k - 1 /\ Cardinality(Below(t, S, r[k])) = k - 1
    BY <1>2, <2>1, OrderedRank
  <2>3. ~Lt(t, s[k], r[k]) /\ ~Lt(t, r[k], s[k])
    BY <2>1, <2>2, RankStrict
  <2> QED
    BY <2>1, <2>3, LtOrder
<1>4. \A k \in 1..n : s[k] = r[k]
  BY <1>3
<1> HIDE DEF n
<1>5. s = [k \in 1..n |-> s[k]] /\ r = [k \in 1..n |-> r[k]]
  BY <1>1
<1> QED
  BY <1>4, <1>5

-----------------------------------------------------------------------------
(* The inductive invariant, in three parts: LimitsOK, NothingMissed and         *)
(* QuietSoFar.  The last two rest on the first.                              *)

\* The number of selected rows before a row.
Rank(x) == Cardinality({y \in Selected : Before(y, x)})

\* What the client has been sent, and will be sent by the request at work.
Sent == Range(seen) \cup Range(list.rows)

\* While rows are only inserted, a row of the walk only moves back.  So the rows
\* that stand on the pages already asked for now have stood there then.
NothingMissed ==
    "change" \notin meanwhile =>
        /\ Range(before) \subseteq Selected
        /\ list.pc # "done" =>
              \A x \in Range(before) : Rank(x) < Offset(list.page, list.size) => x \in Range(seen)
        /\ list.pc = "items" =>
              /\ \A x \in Range(before) : Rank(x) < Offset(list.page + 1, list.size) => x \in Sent
              /\ Len(list.rows) < list.size => Range(before) \subseteq Sent
        /\ list.pc = "done" => Range(before) \subseteq Range(seen)

\* While nothing happens, the client has been sent the pages before this one.
QuietSoFar ==
    meanwhile = {} =>
        /\ before = Sorted
        /\ list.pc # "done" =>
              /\ Offset(list.page, list.size) <= Len(before)
              /\ seen = SubSeq(before, 1, Offset(list.page, list.size))
        /\ list.pc \in {"page", "items"} => list.total = Len(before)
        /\ list.pc = "items" => list.rows = PageRows(list.page, list.size)
        /\ list.pc = "done" /\ list.total > 0 =>
              /\ seen = before
              /\ list.total = Len(before)
              /\ list.page \in Nat \ {0} /\ list.size \in Nat \ {0}
              /\ Offset(list.page, list.size) <= Len(before)
              /\ Len(before) < Offset(list.page, list.size) + list.size
              /\ Len(list.rows) = Len(before) - Offset(list.page, list.size)

\* The types, finitely many rows, and the limits that List has checked.
LimitsOK ==
    /\ ListingTypeOK
    /\ IsFiniteSet(Present)
    /\ list.pc # "done" => list.page \in Nat \ {0} /\ list.size \in 1..MaxPageSize

-----------------------------------------------------------------------------
(* What the invariant says about the rows in order and about a page of them. *)

Enumeration(t, S) ==
    CHOOSE s \in [1..Cardinality(S) -> S] :
        \A i, j \in 1..Cardinality(S) : i < j => Lt(t, s[i], s[j])

LEMMA EnumerationOrdered ==
    ASSUME NEW t, NEW S, Rows(t, S)
    PROVE  Ordered(t, S, Enumeration(t, S))
<1>1. \E s \in [1..Cardinality(S) -> S] :
          \A i, j \in 1..Cardinality(S) : i < j => Lt(t, s[i], s[j])
  BY OrderedExists DEF Ordered
<1> QED
  BY <1>1 DEF Enumeration, Ordered

LEMMA SortedIs == Sorted = Enumeration(table, Selected)
BY DEF Sorted, InOrder, Enumeration, Before, Lt

LEMMA RankIs == \A x : Rank(x) = Cardinality(Below(table, Selected, x))
BY DEF Rank, Below, Before, Lt

LEMMA SelectedRows ==
    ASSUME ListingTypeOK, IsFiniteSet(Present)
    PROVE  Rows(table, Selected) /\ Selected \subseteq Ids
<1>1. Selected \in SUBSET Present
  BY DEF Selected
<1>2. IsFiniteSet(Selected)
  BY <1>1, FS_Subset
<1>3. \A x \in Present : x \in Nat /\ table[x] \in Nat
  BY ListingAssumption DEF Present, ListingTypeOK
<1> QED
  BY <1>1, <1>2, <1>3 DEF Rows, Present

LEMMA SortedFacts ==
    ASSUME ListingTypeOK, IsFiniteSet(Present)
    PROVE  /\ Cardinality(Selected) \in Nat
           /\ Sorted \in [1..Cardinality(Selected) -> Selected]
           /\ Sorted \in Seq(Ids)
           /\ Len(Sorted) = Cardinality(Selected)
           /\ \A k \in 1..Len(Sorted) : Sorted[k] \in Selected /\ Rank(Sorted[k]) = k - 1
           /\ \A x \in Selected : \E k \in 1..Len(Sorted) : Sorted[k] = x
<1> DEFINE n == Cardinality(Selected)
<1>1. Rows(table, Selected) /\ Selected \subseteq Ids
  BY SelectedRows
<1>2. n \in Nat
  BY <1>1, FS_CardinalityType DEF Rows
<1>3. Ordered(table, Selected, Sorted)
  BY <1>1, SortedIs, EnumerationOrdered
<1>4. Sorted \in [1..n -> Selected]
  BY <1>3 DEF Ordered
<1>5. Sorted \in Seq(Ids) /\ Len(Sorted) = n
  <2> HIDE DEF n
  <2>1. Sorted \in [1..n -> Ids]
    BY <1>1, <1>4
  <2> QED
    BY <1>2, <2>1
<1>6. \A k \in 1..n : Rank(Sorted[k]) = k - 1
  BY <1>1, <1>3, OrderedRank, RankIs
<1>7. \A x \in Selected : \E k \in 1..n : Sorted[k] = x
  BY <1>1, <1>3, OrderedRank
<1> HIDE DEF n
<1> QED
  BY <1>2, <1>4, <1>5, <1>6, <1>7 DEF n

\* A page: at most so many rows, from its offset on.
LEMMA PageFacts ==
    ASSUME ListingTypeOK, IsFiniteSet(Present),
           NEW p \in Nat \ {0}, NEW z \in Nat \ {0}
    PROVE  /\ Offset(p, z) \in Nat
           /\ PageRows(p, z) \in Seq(Ids)
           /\ Len(PageRows(p, z)) = IF Offset(p, z) >= Len(Sorted) THEN 0
                                    ELSE IF Offset(p, z) + z < Len(Sorted) THEN z
                                    ELSE Len(Sorted) - Offset(p, z)
           /\ Len(PageRows(p, z)) <= z
           /\ \A k \in 1..Len(PageRows(p, z)) : PageRows(p, z)[k] = Sorted[Offset(p, z) + k]
<1> DEFINE from == Offset(p, z)
           n == Len(Sorted)
           to == IF from + z < n THEN from + z ELSE n
<1>1. from \in Nat
  <2>1. p - 1 \in Nat
    OBVIOUS
  <2> QED
    BY <2>1 DEF Offset
<1> HIDE DEF from
<1>2. Sorted \in Seq(Ids) /\ n \in Nat
  BY SortedFacts
<1>3. PageRows(p, z) = SubSeq(Sorted, from + 1, to)
  BY DEF PageRows, from
<1>5. to \in Nat /\ to <= n /\ to <= from + z
  BY <1>1, <1>2
<1> HIDE DEF to, n
<1>6. /\ SubSeq(Sorted, from + 1, to) \in Seq(Ids)
      /\ Len(SubSeq(Sorted, from + 1, to)) = IF from + 1 <= to THEN to - from ELSE 0
      /\ \A k \in 1..(to - from) : SubSeq(Sorted, from + 1, to)[k] = Sorted[from + k]
  <2>1. from + 1 \in Nat \ {0} /\ to \in Nat /\ to <= Len(Sorted)
    BY <1>1, <1>5 DEF n
  <2>2. SubSeq(Sorted, from + 1, to) = [i \in 1..(to - from) |-> Sorted[from + i]]
    BY <1>1, <1>5
  <2>3. \A i \in 1..(to - from) : Sorted[from + i] \in Ids
    BY <1>1, <1>2, <1>5 DEF n
  <2> DEFINE m == IF from + 1 <= to THEN to - from ELSE 0
             q == SubSeq(Sorted, from + 1, to)
  <2>4. m \in Nat /\ 1..(to - from) = 1..m
    BY <1>1, <1>5
  <2> HIDE DEF m, q
  <2>5. q = [i \in 1..m |-> Sorted[from + i]] /\ \A i \in 1..m : Sorted[from + i] \in Ids
    BY <2>2, <2>3, <2>4 DEF q
  <2>6. q \in [1..m -> Ids]
    BY <2>5
  <2>7. q \in Seq(Ids) /\ Len(q) = m
    BY <2>4, <2>6
  <2>8. \A k \in 1..m : q[k] = Sorted[from + k]
    BY <2>5
  <2> QED
    BY <2>4, <2>7, <2>8 DEF m, q
<1> DEFINE q == PageRows(p, z)
<1>7. /\ q \in Seq(Ids)
      /\ Len(q) = IF from + 1 <= to THEN to - from ELSE 0
      /\ \A k \in 1..(to - from) : q[k] = Sorted[from + k]
  BY <1>3, <1>6
<1> HIDE DEF q
<1>8. /\ Len(q) = IF from >= n THEN 0 ELSE IF from + z < n THEN z ELSE n - from
      /\ Len(q) <= z
  BY <1>1, <1>2, <1>7 DEF to
<1>9. \A k \in 1..Len(q) : q[k] = Sorted[from + k]
  <2>1. 1..Len(q) \subseteq 1..(to - from)
    BY <1>1, <1>5, <1>7
  <2> QED
    BY <1>7, <2>1
<1> QED
  BY <1>1, <1>7, <1>8, <1>9 DEF n, q, from

-----------------------------------------------------------------------------
(* Types and limits. *)

LEMMA AskingState ==
    ASSUME NEW p \in Nat, NEW z \in Nat
    PROVE  /\ Asking(p, z) \in ListState
           /\ Asking(p, z).pc = "ready" /\ Asking(p, z).page = p /\ Asking(p, z).size = z
           /\ Asking(p, z).rows = <<>> /\ Len(Asking(p, z).rows) = 0
BY DEF Asking, ListState

LEMMA LimitsInit == Init => LimitsOK
<1> SUFFICES ASSUME Init PROVE LimitsOK
  OBVIOUS
<1>1. Present = {} /\ IsFiniteSet({})
  BY FS_EmptySet DEF Init, Present
<1>2. list \in ListState /\ Len(list.rows) = 0 /\ list.pc = "done"
  <2>1. /\ Asking(1, DefaultPageSize) \in ListState
        /\ Len(Asking(1, DefaultPageSize).rows) = 0
    BY ListingAssumption, AskingState
  <2> QED
    BY <2>1 DEF Init, ListState
<1>3. /\ table \in [Ids -> 0..MaxTime \cup {None}] /\ matches \subseteq Ids /\ clock \in 0..MaxTime
      /\ writer \in [Writers -> 0..MaxTime \cup {None}]
      /\ before \in Seq(Ids) /\ seen \in Seq(Ids) /\ meanwhile \subseteq {"insert", "change"}
  BY ListingAssumption DEF Init
<1> QED
  BY <1>1, <1>2, <1>3, ListingAssumption DEF LimitsOK, ListingTypeOK

\* A step that leaves the table alone, and gives the client a legal state.
LEMMA LimitsOfClient ==
    ASSUME LimitsOK, UNCHANGED store, list' \in ListState, Len(list'.rows) <= MaxPageSize,
           before' \in Seq(Ids), seen' \in Seq(Ids), meanwhile' \subseteq {"insert", "change"},
           list'.pc # "done" => list'.page \in Nat \ {0} /\ list'.size \in 1..MaxPageSize
    PROVE  LimitsOK'
<1>1. Present' = Present
  BY DEF Present, store
<1> QED
  BY <1>1 DEF LimitsOK, ListingTypeOK, store

LEMMA LimitsNext == LimitsOK /\ [Next]_vars => LimitsOK'
<1> SUFFICES ASSUME LimitsOK, [Next]_vars PROVE LimitsOK'
  OBVIOUS
<1>0. /\ list \in ListState /\ Len(list.rows) <= MaxPageSize /\ MaxPageSize \in Nat \ {0}
      /\ before \in Seq(Ids) /\ seen \in Seq(Ids) /\ meanwhile \subseteq {"insert", "change"}
      /\ list.pc # "done" => list.page \in Nat \ {0} /\ list.size \in 1..MaxPageSize
  BY ListingAssumption DEF LimitsOK, ListingTypeOK
<1>1. CASE Begin
  <2>1. PICK z \in Sizes, p \in {-1, 0, 1} :
            Valid(p, z) /\ list' = Asking(Page(p), PageSize(z))
    BY <1>1 DEF Begin
  <2>2. Page(p) \in Nat \ {0} /\ PageSize(z) \in 1..MaxPageSize
    BY <2>1, ListingAssumption DEF Valid, Page
  <2>3. PageSize(z) \in Nat
    BY <1>0, <2>2
  <2>4. Sorted \in Seq(Ids)
    BY SortedFacts DEF LimitsOK
  <2>5. /\ list' \in ListState /\ Len(list'.rows) = 0 /\ list'.page = Page(p)
        /\ list'.size = PageSize(z)
    BY <2>1, <2>2, <2>3, AskingState
  <2>6. /\ before' \in Seq(Ids) /\ seen' \in Seq(Ids) /\ meanwhile' = {} /\ UNCHANGED store
    BY <1>1, <2>4 DEF Begin
  <2> QED
    BY <1>0, <2>2, <2>5, <2>6, LimitsOfClient
<1>2. CASE Count
  <2>1. Cardinality(Selected) \in Nat
    BY SortedFacts DEF LimitsOK
  <2>2. /\ list' \in ListState /\ list'.rows = list.rows /\ list'.page = list.page
        /\ list'.size = list.size
    BY <1>0, <1>2, <2>1 DEF Count, ListState
  <2> QED
    BY <1>0, <1>2, <2>2, LimitsOfClient DEF Count, history
<1>3. CASE ReadPage
  <2>1. list.page \in Nat \ {0} /\ list.size \in Nat \ {0} /\ list.size <= MaxPageSize
    BY <1>0, <1>3 DEF ReadPage
  <2>2. PageRows(list.page, list.size) \in Seq(Ids) /\ Len(PageRows(list.page, list.size)) <= list.size
    BY <2>1, PageFacts DEF LimitsOK
  <2>3. /\ list' \in ListState /\ list'.rows = PageRows(list.page, list.size)
        /\ list'.page = list.page /\ list'.size = list.size
    BY <1>0, <1>3, <2>2 DEF ReadPage, ListState
  <2>4. Len(list'.rows) <= MaxPageSize
    <3>1. Len(PageRows(list.page, list.size)) \in Nat
      BY <2>2
    <3> QED
      BY <1>0, <2>1, <2>2, <2>3, <3>1
  <2> QED
    BY <1>0, <1>3, <2>1, <2>3, <2>4, LimitsOfClient DEF ReadPage, history
<1>4. CASE ReadItems
  <2>1. /\ list' \in ListState /\ list'.rows = list.rows /\ list'.page = list.page
        /\ list'.size = list.size /\ list.pc # "done"
    <3>1. list.read + 1 \in Nat
      BY <1>0 DEF ListState
    <3>2. list' = [list EXCEPT !.read = list.read + 1] /\ list.pc = "items"
      BY <1>4 DEF ReadItems
    <3> QED
      BY <1>0, <3>1, <3>2 DEF ListState
  <2> QED
    BY <1>0, <1>4, <2>1, LimitsOfClient DEF ReadItems, history
<1>5. CASE Answer
  <2>1. list.pc # "done" /\ list.rows \in Seq(Ids)
    BY <1>0, <1>5 DEF Answer, ListState
  <2>2. seen' \in Seq(Ids)
    BY <1>0, <1>5, <2>1 DEF Answer
  <2>3. CASE Len(list.rows) < list.size
    <3>1. list' \in ListState /\ list'.pc = "done" /\ list'.rows = list.rows
      BY <1>0, <1>5, <2>3 DEF Answer, ListState
    <3> QED
      BY <1>0, <1>5, <2>2, <3>1, LimitsOfClient DEF Answer
  <2>4. CASE ~(Len(list.rows) < list.size)
    <3>1. list' = Asking(list.page + 1, list.size)
      BY <1>5, <2>4 DEF Answer
    <3>2. list.page + 1 \in Nat \ {0} /\ list.size \in Nat /\ list.size \in 1..MaxPageSize
      BY <1>0, <2>1
    <3>3. /\ list' \in ListState /\ Len(list'.rows) = 0 /\ list'.page = list.page + 1
          /\ list'.size = list.size
      BY <3>1, <3>2, AskingState
    <3> QED
      BY <1>0, <1>5, <2>2, <3>2, <3>3, LimitsOfClient DEF Answer
  <2> QED
    BY <2>3, <2>4
<1>6. CASE ListFails
  <2>1. list' = Asking(list.page, list.size) /\ list.pc # "done"
    BY <1>6 DEF ListFails
  <2>2. list.page \in Nat \ {0} /\ list.size \in Nat /\ list.size \in 1..MaxPageSize
    BY <1>0, <2>1
  <2>3. /\ list' \in ListState /\ Len(list'.rows) = 0 /\ list'.page = list.page
        /\ list'.size = list.size
    BY <2>1, <2>2, AskingState
  <2> QED
    BY <1>0, <1>6, <2>2, <2>3, LimitsOfClient DEF ListFails, history
<1>7. ASSUME NEW w \in Writers, Stamp(w) PROVE LimitsOK'
  <2>1. PICK t \in {clock, clock + 1} :
            t <= MaxTime /\ clock' = t /\ writer' = [writer EXCEPT ![w] = t]
    BY <1>7 DEF Stamp
  <2>2. t \in 0..MaxTime
    BY <2>1, ListingAssumption DEF LimitsOK, ListingTypeOK
  <2>3. clock' \in 0..MaxTime /\ writer' \in [Writers -> 0..MaxTime \cup {None}]
    BY <2>1, <2>2 DEF LimitsOK, ListingTypeOK
  <2>4. UNCHANGED <<table, matches, list, before, seen, meanwhile>> /\ Present' = Present
    BY <1>7 DEF Stamp, history, Present
  <2> QED
    BY <2>3, <2>4 DEF LimitsOK, ListingTypeOK
<1>8. ASSUME NEW w \in Writers, InsertRow(w) PROVE LimitsOK'
  <2>1. PICK i \in Ids \ Present :
            /\ table' = [table EXCEPT ![i] = writer[w]]
            /\ meanwhile' = IF i \in matches THEN meanwhile \cup {"insert"} ELSE meanwhile
    BY <1>8 DEF InsertRow
  <2>2. writer[w] # None /\ writer[w] \in 0..MaxTime
    BY <1>8 DEF InsertRow, LimitsOK, ListingTypeOK
  <2>3. table' \in [Ids -> 0..MaxTime \cup {None}] /\ Present' = Present \cup {i}
    BY <2>1, <2>2 DEF LimitsOK, ListingTypeOK, Present
  <2>4. IsFiniteSet(Present')
    BY <2>3, FS_AddElement DEF LimitsOK
  <2>5. writer' \in [Writers -> 0..MaxTime \cup {None}]
    BY <1>8 DEF InsertRow, LimitsOK, ListingTypeOK
  <2>6. meanwhile' \subseteq {"insert", "change"}
    BY <1>0, <2>1
  <2> QED
    BY <1>8, <2>3, <2>4, <2>5, <2>6 DEF InsertRow, LimitsOK, ListingTypeOK
<1>9. ASSUME NEW i \in Ids, ChangeRow(i) PROVE LimitsOK'
  <2>1. matches' \subseteq Ids /\ meanwhile' \subseteq {"insert", "change"}
    BY <1>9, <1>0 DEF ChangeRow, LimitsOK, ListingTypeOK
  <2>2. Present' = Present
    BY <1>9 DEF ChangeRow, Present
  <2> QED
    BY <1>9, <2>1, <2>2 DEF ChangeRow, LimitsOK, ListingTypeOK
<1>10. CASE UNCHANGED vars
  <2>1. Present' = Present
    BY <1>10 DEF vars, Present
  <2> QED
    BY <1>10, <2>1 DEF vars, LimitsOK, ListingTypeOK
<1> QED
  BY <1>1, <1>2, <1>3, <1>4, <1>5, <1>6, <1>7, <1>8, <1>9, <1>10 DEF Next

LEMMA LimitsHold == Spec => []LimitsOK
BY LimitsInit, LimitsNext, PTL DEF Spec

\* The variables keep their types, and no page is longer than the limit.
THEOREM ListingTypes == Spec => []ListingTypeOK
<1>1. LimitsOK => ListingTypeOK
  BY DEF LimitsOK
<1> QED
  BY <1>1, LimitsHold, PTL

-----------------------------------------------------------------------------
(* The number of pages, and the in-memory repositories. *)

LEMMA Division ==
    ASSUME NEW x \in Nat, NEW z \in Nat \ {0}
    PROVE  x \div z \in Nat /\ (x \div z) * z <= x /\ x < (x \div z) * z + z
OBVIOUS

LEMMA Product ==
    ASSUME NEW a \in Nat, NEW b \in Nat, NEW z \in Nat, a <= b
    PROVE  a * z \in Nat /\ b * z \in Nat /\ a * z <= b * z
OBVIOUS

LEMMA ProductNext ==
    ASSUME NEW a \in Nat, NEW z \in Nat
    PROVE  (a + 1) * z = a * z + z
OBVIOUS

\* So many pages hold all rows exactly if there are as many as TotalPages says.
LEMMA PagesNeeded ==
    ASSUME NEW n \in Nat, NEW z \in Nat \ {0}, NEW k \in Nat
    PROVE  TotalPages(n, z) \in Nat /\ (k * z >= n <=> k >= TotalPages(n, z))
<1> DEFINE q == TotalPages(n, z)
<1>1. n + z - 1 \in Nat
  OBVIOUS
<1>2. q \in Nat /\ q * z <= n + z - 1 /\ n + z - 1 < q * z + z
  BY <1>1, Division DEF TotalPages
<1> HIDE DEF q
<1>3. q * z \in Nat /\ k * z \in Nat
  BY <1>2, Product
<1>4. q * z >= n
  BY <1>2, <1>3
<1>5. ASSUME k >= q PROVE k * z >= n
  <2>1. q * z <= k * z
    BY <1>2, <1>5, Product
  <2> QED
    BY <1>3, <1>4, <2>1
<1>6. ASSUME ~(k >= q) PROVE ~(k * z >= n)
  <2>1. k + 1 <= q /\ k + 1 \in Nat
    BY <1>2, <1>6
  <2>2. (k + 1) * z <= q * z
    BY <1>2, <2>1, Product
  <2>3. (k + 1) * z = k * z + z
    BY ProductNext
  <2> QED
    BY <1>2, <1>3, <2>2, <2>3
<1> QED
  BY <1>2, <1>5, <1>6 DEF q

LEMMA MinOfTwo ==
    ASSUME NEW a \in Nat, NEW b \in Nat
    PROVE  Min({a, b}) = IF a <= b THEN a ELSE b
<1>1. \E x \in {a, b} : \A y \in {a, b} : x =< y
  OBVIOUS
<1>2. Min({a, b}) \in {a, b} /\ \A y \in {a, b} : Min({a, b}) =< y
  BY <1>1 DEF Min
<1> QED
  BY <1>2

LEMMA DoublesAlike == LimitsOK => DoublesListAlike
<1> SUFFICES ASSUME LimitsOK, list.pc = "ready"
             PROVE  /\ MemoryPage(list.page, list.size).ok
                    /\ MemoryPage(list.page, list.size).rows = PageRows(list.page, list.size)
                    /\ MemoryPage(list.page, list.size).pages
                          = TotalPages(Cardinality(Selected), list.size)
                    /\ MemoryPage(list.page, list.size).rows = <<>>
                          <=> list.page > MemoryPage(list.page, list.size).pages
  BY DEF DoublesListAlike
<1> DEFINE p == list.page
           z == list.size
           n == Len(Sorted)
           from == Offset(p, z)
           start == IF from <= n THEN from ELSE n
           end == IF start + z <= n THEN start + z ELSE n
<1>1. p \in Nat \ {0} /\ z \in Nat \ {0} /\ p - 1 \in Nat
  BY ListingAssumption DEF LimitsOK
<1>2. ListingTypeOK /\ IsFiniteSet(Present)
  BY DEF LimitsOK
<1>3. Sorted \in Seq(Ids) /\ n \in Nat /\ Cardinality(Selected) = n
  BY <1>2, SortedFacts
<1>4. Matched = Sorted
  <2>1. {i \in Ids : table[i] # None /\ i \in matches} = Selected
    BY DEF Selected, Present
  <2> QED
    BY <2>1 DEF Matched, Sorted
<1>5. from \in Nat
  BY <1>1, <1>2, PageFacts
<1>6. MemoryStart(p, z) = start
  BY <1>3, <1>4, <1>5, MinOfTwo DEF MemoryStart, Offset
<1>7. start \in Nat /\ start + z \in Nat
  BY <1>1, <1>3, <1>5
<1>8. MemoryEnd(p, z) = end
  BY <1>3, <1>4, <1>6, <1>7, MinOfTwo DEF MemoryEnd
<1>9. start <= end
  BY <1>1, <1>3, <1>5
<1>10. SubSeq(Sorted, start + 1, end) = PageRows(p, z)
  <2>1. PageRows(p, z) = SubSeq(Sorted, from + 1, IF from + z < n THEN from + z ELSE n)
    BY DEF PageRows
  <2>2. CASE from <= n
    <3>1. start = from /\ end = IF from + z < n THEN from + z ELSE n
      BY <1>1, <1>3, <1>5, <2>2
    <3> QED
      BY <2>1, <3>1
  <2>3. CASE from > n
    <3>1. start = n /\ end = n /\ ~(from + z < n)
      BY <1>1, <1>3, <1>5, <2>3
    <3>2. SubSeq(Sorted, n + 1, n) = <<>> /\ SubSeq(Sorted, from + 1, n) = <<>>
      BY <1>3, <1>5, <2>3, SubSeqEmpty
    <3> QED
      BY <2>1, <3>1, <3>2
  <2> QED
    BY <1>3, <1>5, <2>2, <2>3
<1>11. /\ TotalPages(n, z) \in Nat
       /\ from >= n <=> p - 1 >= TotalPages(n, z)
  BY <1>1, <1>3, PagesNeeded DEF Offset
<1>12. PageRows(p, z) = <<>> <=> from >= n
  <2>2. /\ PageRows(p, z) \in Seq(Ids)
        /\ Len(PageRows(p, z)) = IF from >= n THEN 0 ELSE IF from + z < n THEN z ELSE n - from
    BY <1>1, <1>2, PageFacts
  <2>3. Len(PageRows(p, z)) = 0 <=> from >= n
    BY <1>1, <1>3, <1>5, <2>2
  <2>4. PageRows(p, z) = <<>> <=> Len(PageRows(p, z)) = 0
    BY <2>2
  <2> QED
    BY <2>3, <2>4
<1> HIDE DEF p, z, n, from, start, end
<1>13. /\ MemoryPage(p, z).ok = (start <= end)
       /\ MemoryPage(p, z).rows = SubSeq(Sorted, start + 1, end)
       /\ MemoryPage(p, z).pages = IF z > 0 THEN (n + z - 1) \div z ELSE 0
  BY <1>4, <1>6, <1>8 DEF MemoryPage, n
<1>14. MemoryPage(p, z).pages = TotalPages(n, z)
  BY <1>1, <1>13 DEF TotalPages
<1>15. p - 1 >= TotalPages(n, z) <=> p > TotalPages(n, z)
  BY <1>1, <1>11
<1> QED
  BY <1>3, <1>9, <1>10, <1>11, <1>12, <1>13, <1>14, <1>15 DEF p, z

\* The in-memory List agrees with LIMIT and OFFSET on every page a client can ask for.
THEOREM DoublesAgree == Spec => []DoublesListAlike
BY DoublesAlike, LimitsHold, PTL

-----------------------------------------------------------------------------
(* The walk. *)

LEMMA RowsStay ==
    ASSUME table' = table, matches' = matches
    PROVE  /\ Selected' = Selected /\ Sorted' = Sorted /\ Present' = Present
           /\ \A x : Rank(x)' = Rank(x)
           /\ \A p, z : PageRows(p, z)' = PageRows(p, z)
<1>1. Selected' = Selected /\ Present' = Present
  BY DEF Selected, Present
<1>2. Sorted' = Sorted
  BY <1>1 DEF Sorted, InOrder, Before
<1>3. \A x : Rank(x)' = Rank(x)
  BY <1>1 DEF Rank, Before
<1>4. \A p, z : PageRows(p, z)' = PageRows(p, z)
  BY <1>2 DEF PageRows, Offset
<1> QED
  BY <1>1, <1>2, <1>3, <1>4

LEMMA OffsetNext ==
    ASSUME NEW p \in Nat \ {0}, NEW z \in Nat \ {0}
    PROVE  Offset(p, z) \in Nat /\ Offset(p + 1, z) = Offset(p, z) + z
<1>1. p - 1 \in Nat /\ (p + 1) - 1 = (p - 1) + 1
  OBVIOUS
<1>2. ((p - 1) + 1) * z = (p - 1) * z + z /\ (p - 1) * z \in Nat
  BY <1>1, ProductNext, Product
<1> QED
  BY <1>1, <1>2 DEF Offset

\* What a client is sent by a page: the rows whose rank is on the page, and all of
\* the rest if the page is not full.
LEMMA PageRanks ==
    ASSUME ListingTypeOK, IsFiniteSet(Present), NEW p \in Nat \ {0}, NEW z \in Nat \ {0},
           NEW x \in Selected, Offset(p, z) <= Rank(x),
           Rank(x) < Offset(p, z) + z \/ Len(PageRows(p, z)) < z
    PROVE  x \in Range(PageRows(p, z))
<1> DEFINE n == Len(Sorted)
           from == Offset(p, z)
           q == PageRows(p, z)
<1>1. /\ from \in Nat /\ q \in Seq(Ids)
      /\ Len(q) = IF from >= n THEN 0 ELSE IF from + z < n THEN z ELSE n - from
      /\ \A k \in 1..Len(q) : q[k] = Sorted[from + k]
  BY PageFacts
<1>2. PICK k \in 1..n : Sorted[k] = x
  BY SortedFacts
<1>3. n \in Nat /\ Rank(x) = k - 1
  BY <1>2, SortedFacts
<1> HIDE DEF n, from, q
<1>4. from <= k - 1 /\ (k - 1 < from + z \/ Len(q) < z)
  BY <1>3 DEF from, q
<1>5. k - from \in 1..Len(q) /\ from + (k - from) = k
  BY <1>1, <1>2, <1>3, <1>4
<1>6. q[k - from] = x /\ DOMAIN q = 1..Len(q)
  BY <1>1, <1>2, <1>5
<1> QED
  BY <1>5, <1>6 DEF Range, q

LEMMA RangeConcat ==
    ASSUME NEW S, NEW a \in Seq(S), NEW b \in Seq(S)
    PROVE  Range(a \o b) = Range(a) \cup Range(b)
<1>1. /\ DOMAIN a = 1..Len(a) /\ DOMAIN b = 1..Len(b) /\ DOMAIN (a \o b) = 1..(Len(a) + Len(b))
      /\ Len(a) \in Nat /\ Len(b) \in Nat
  OBVIOUS
<1>2. \A i \in 1..Len(a) : i \in 1..(Len(a) + Len(b)) /\ (a \o b)[i] = a[i]
  BY <1>1
<1>3. \A i \in 1..Len(b) : Len(a) + i \in 1..(Len(a) + Len(b)) /\ (a \o b)[Len(a) + i] = b[i]
  BY <1>1
<1>4. \A i \in 1..(Len(a) + Len(b)) : i \in 1..Len(a) \/ \E j \in 1..Len(b) : i = Len(a) + j
  <2> SUFFICES ASSUME NEW i \in 1..(Len(a) + Len(b)), i \notin 1..Len(a)
               PROVE  \E j \in 1..Len(b) : i = Len(a) + j
    OBVIOUS
  <2>1. i - Len(a) \in 1..Len(b) /\ i = Len(a) + (i - Len(a))
    BY <1>1
  <2> QED
    BY <2>1
<1>5. ASSUME NEW x \in Range(a \o b) PROVE x \in Range(a) \cup Range(b)
  <2>1. PICK i \in 1..(Len(a) + Len(b)) : x = (a \o b)[i]
    BY <1>1 DEF Range
  <2>2. CASE i \in 1..Len(a)
    BY <1>1, <1>2, <2>1, <2>2 DEF Range
  <2>3. CASE i \notin 1..Len(a)
    <3>1. PICK j \in 1..Len(b) : i = Len(a) + j
      BY <1>4, <2>3
    <3>2. x = b[j]
      BY <1>3, <2>1, <3>1
    <3> QED
      BY <1>1, <3>2 DEF Range
  <2> QED
    BY <2>2, <2>3
<1>6. ASSUME NEW x \in Range(a) PROVE x \in Range(a \o b)
  <2>1. PICK i \in 1..Len(a) : x = a[i]
    BY <1>1 DEF Range
  <2> QED
    BY <1>1, <1>2, <2>1 DEF Range
<1>7. ASSUME NEW x \in Range(b) PROVE x \in Range(a \o b)
  <2>1. PICK j \in 1..Len(b) : x = b[j]
    BY <1>1 DEF Range
  <2>2. x = (a \o b)[Len(a) + j] /\ Len(a) + j \in DOMAIN (a \o b)
    BY <1>1, <1>3, <2>1
  <2> QED
    BY <2>2 DEF Range
<1> QED
  BY <1>5, <1>6, <1>7

LEMMA MissedInit == Init => NothingMissed
<1> SUFFICES ASSUME Init PROVE NothingMissed
  OBVIOUS
<1>1. Range(before) = {}
  BY DEF Init, Range
<1>2. list.pc = "done"
  BY DEF Init, Asking
<1> QED
  BY <1>1, <1>2 DEF NothingMissed

LEMMA MissedNext == LimitsOK /\ LimitsOK' /\ NothingMissed /\ [Next]_vars => NothingMissed'
<1> SUFFICES ASSUME LimitsOK, LimitsOK', NothingMissed, [Next]_vars, "change" \notin meanwhile'
             PROVE  NothingMissed'
  BY DEF NothingMissed
<1>0. /\ ListingTypeOK /\ IsFiniteSet(Present) /\ list \in ListState
      /\ list.pc # "done" => list.page \in Nat \ {0} /\ list.size \in Nat \ {0}
  BY ListingAssumption DEF LimitsOK, ListingTypeOK
<1>1. CASE Begin
  <2>1. PICK z \in Sizes, p \in {-1, 0, 1} :
            Valid(p, z) /\ list' = Asking(Page(p), PageSize(z))
    BY <1>1 DEF Begin
  <2>2. Page(p) = 1
    BY <2>1 DEF Valid, Page
  <2>3. /\ before' = Sorted /\ list'.pc = "ready" /\ list'.page = 1
        /\ table' = table /\ matches' = matches
    BY <1>1, <2>1, <2>2 DEF Begin, Asking, store
  <2>4. \A x \in Range(Sorted) : x \in Selected /\ Rank(x) \in Nat
    <3>1. /\ DOMAIN Sorted = 1..Len(Sorted) /\ Len(Sorted) \in Nat
          /\ \A k \in 1..Len(Sorted) : Sorted[k] \in Selected /\ Rank(Sorted[k]) = k - 1
      BY <1>0, SortedFacts
    <3> SUFFICES ASSUME NEW x \in Range(Sorted) PROVE x \in Selected /\ Rank(x) \in Nat
      OBVIOUS
    <3>2. PICK k \in 1..Len(Sorted) : x = Sorted[k]
      BY <3>1 DEF Range
    <3>3. k - 1 \in Nat
      BY <3>1
    <3> QED
      BY <3>1, <3>2, <3>3
  <2>5. Offset(1, list'.size) = 0
    <3>1. list'.size \in Nat
      BY <2>3, ListingAssumption DEF LimitsOK
    <3> QED
      BY <3>1 DEF Offset
  <2>6. \A x \in Range(before') : x \in Selected' /\ ~(Rank(x)' < Offset(1, list'.size))
    BY <2>3, <2>4, <2>5, RowsStay
  <2> QED
    BY <2>3, <2>6 DEF NothingMissed, Offset
<1>2. CASE Count
  <2>1. /\ table' = table /\ matches' = matches /\ before' = before /\ seen' = seen
        /\ meanwhile' = meanwhile
    BY <1>2 DEF Count, store, history
  <2>2. /\ list.pc = "ready" /\ list'.pc = "page" /\ list'.page = list.page
        /\ list'.size = list.size
    BY <1>0, <1>2 DEF Count, ListState
  <2> QED
    BY <2>1, <2>2, RowsStay DEF NothingMissed, Offset
<1>3. CASE ReadPage
  <2>1. /\ table' = table /\ matches' = matches /\ before' = before /\ seen' = seen
        /\ meanwhile' = meanwhile
    BY <1>3 DEF ReadPage, store, history
  <2>2. /\ list.pc = "page" /\ list'.pc = "items" /\ list'.page = list.page
        /\ list'.size = list.size /\ list'.rows = PageRows(list.page, list.size)
    BY <1>0, <1>3 DEF ReadPage, ListState
  <2>3. list.page \in Nat \ {0} /\ list.size \in Nat \ {0}
    BY <1>0, <2>2
  <2>4. /\ Offset(list.page, list.size) \in Nat
        /\ Offset(list.page + 1, list.size) = Offset(list.page, list.size) + list.size
    BY <2>3, OffsetNext
  <2>5. \A x \in Range(before) :
            Rank(x) < Offset(list.page + 1, list.size) \/ Len(PageRows(list.page, list.size)) < list.size
                => x \in Range(seen) \cup Range(PageRows(list.page, list.size))
    <3> SUFFICES ASSUME NEW x \in Range(before),
                        \/ Rank(x) < Offset(list.page + 1, list.size)
                        \/ Len(PageRows(list.page, list.size)) < list.size,
                        x \notin Range(seen)
                 PROVE  x \in Range(PageRows(list.page, list.size))
      OBVIOUS
    <3>1. x \in Selected /\ ~(Rank(x) < Offset(list.page, list.size))
      BY <2>1, <2>2 DEF NothingMissed
    <3>2. Rank(x) \in Nat
      <4>1. PICK k \in 1..Len(Sorted) : Sorted[k] = x
        BY <1>0, <3>1, SortedFacts
      <4>2. Rank(x) = k - 1 /\ Len(Sorted) \in Nat
        BY <1>0, <4>1, SortedFacts
      <4> QED
        BY <4>2
    <3>3. Offset(list.page, list.size) <= Rank(x)
      BY <2>4, <3>1, <3>2
    <3> QED
      BY <1>0, <2>3, <2>4, <3>1, <3>3, PageRanks
  <2> QED
    BY <2>1, <2>2, <2>5, RowsStay DEF NothingMissed, Sent, Offset
<1>4. CASE ReadItems
  <2>1. /\ table' = table /\ matches' = matches /\ before' = before /\ seen' = seen
        /\ meanwhile' = meanwhile
    BY <1>4 DEF ReadItems, store, history
  <2>2. /\ list.pc = "items" /\ list'.pc = "items" /\ list'.page = list.page
        /\ list'.size = list.size /\ list'.rows = list.rows
    BY <1>0, <1>4 DEF ReadItems, ListState
  <2> QED
    BY <2>1, <2>2, RowsStay DEF NothingMissed, Sent, Offset
<1>5. CASE Answer
  <2>1. /\ table' = table /\ matches' = matches /\ before' = before /\ seen' = seen \o list.rows
        /\ meanwhile' = meanwhile /\ list.pc = "items"
    BY <1>5 DEF Answer, store
  <2>2. Range(seen') = Sent
    <3>1. seen \in Seq(Ids) /\ list.rows \in Seq(Ids)
      BY <1>0 DEF ListingTypeOK, ListState
    <3> QED
      BY <2>1, <3>1, RangeConcat DEF Sent
  <2>3. CASE Len(list.rows) < list.size
    <3>1. list'.pc = "done"
      BY <1>0, <1>5, <2>3 DEF Answer, ListState
    <3> QED
      BY <2>1, <2>2, <2>3, <3>1, RowsStay DEF NothingMissed
  <2>4. CASE ~(Len(list.rows) < list.size)
    <3>1. list'.pc = "ready" /\ list'.page = list.page + 1 /\ list'.size = list.size
      BY <1>5, <2>4 DEF Answer, Asking
    <3> QED
      BY <2>1, <2>2, <3>1, RowsStay DEF NothingMissed, Offset
  <2> QED
    BY <2>3, <2>4
<1>6. CASE ListFails
  <2>1. /\ table' = table /\ matches' = matches /\ before' = before /\ seen' = seen
        /\ meanwhile' = meanwhile
    BY <1>6 DEF ListFails, store, history
  <2>2. /\ list.pc # "done" /\ list'.pc = "ready" /\ list'.page = list.page
        /\ list'.size = list.size
    BY <1>6 DEF ListFails, Asking
  <2> QED
    BY <2>1, <2>2, RowsStay DEF NothingMissed, Offset
<1>7. ASSUME NEW w \in Writers, Stamp(w) PROVE NothingMissed'
  <2>1. UNCHANGED <<table, matches, list, before, seen, meanwhile>>
    BY <1>7 DEF Stamp, history
  <2> QED
    BY <2>1, RowsStay DEF NothingMissed, Sent, Offset
<1>8. ASSUME NEW w \in Writers, InsertRow(w) PROVE NothingMissed'
  <2>1. PICK i \in Ids \ Present :
            /\ table' = [table EXCEPT ![i] = writer[w]]
            /\ meanwhile' = IF i \in matches THEN meanwhile \cup {"insert"} ELSE meanwhile
    BY <1>8 DEF InsertRow
  <2>2. UNCHANGED <<matches, list, before, seen>> /\ "change" \notin meanwhile
    BY <1>8, <2>1 DEF InsertRow
  <2>3. table \in [Ids -> 0..MaxTime \cup {None}]
    BY <1>0 DEF ListingTypeOK
  <2>4. \A x \in Present : x \in Present' /\ table'[x] = table[x]
    BY <1>8, <2>1, <2>3 DEF Present, InsertRow
  <2>5. \A x \in Selected : x \in Selected' /\ table'[x] = table[x]
    BY <2>2, <2>4 DEF Selected
  <2>6. \A x \in Selected : Below(table, Selected, x) \subseteq Below(table', Selected', x)
    BY <2>5 DEF Below, Lt
  <2>7. \A x \in Selected : Rank(x) \in Nat /\ Rank(x)' \in Nat /\ Rank(x) <= Rank(x)'
    <3> SUFFICES ASSUME NEW x \in Selected
                 PROVE  Rank(x) \in Nat /\ Rank(x)' \in Nat /\ Rank(x) <= Rank(x)'
      OBVIOUS
    <3>1. IsFiniteSet(Selected')
      <4>1. Selected' \in SUBSET Present' /\ IsFiniteSet(Present')
        BY DEF Selected, LimitsOK
      <4> QED
        BY <4>1, FS_Subset
    <3>2. Below(table', Selected', x) \in SUBSET Selected'
      BY DEF Below
    <3>3. IsFiniteSet(Below(table', Selected', x))
      BY <3>1, <3>2, FS_Subset
    <3>4. Below(table, Selected, x) \in SUBSET Below(table', Selected', x)
      BY <2>6
    <3>5. /\ IsFiniteSet(Below(table, Selected, x))
          /\ Cardinality(Below(table, Selected, x)) <= Cardinality(Below(table', Selected', x))
      BY <3>3, <3>4, FS_Subset
    <3>6. /\ Cardinality(Below(table, Selected, x)) \in Nat
          /\ Cardinality(Below(table', Selected', x)) \in Nat
      BY <3>3, <3>5, FS_CardinalityType
    <3>7. /\ Rank(x) = Cardinality(Below(table, Selected, x))
          /\ Rank(x)' = Cardinality(Below(table', Selected', x))
      BY DEF Rank, Below, Before, Lt
    <3> QED
      BY <3>5, <3>6, <3>7
  <2>8. Range(before) \subseteq Selected
    BY <2>2 DEF NothingMissed
  <2>9. \A x \in Range(before), c \in Nat : Rank(x)' < c => Rank(x) < c
    BY <2>7, <2>8
  <2>10. list.pc # "done" => /\ Offset(list.page, list.size) \in Nat
                             /\ Offset(list.page + 1, list.size) \in Nat
    <3> SUFFICES ASSUME list.pc # "done" PROVE /\ Offset(list.page, list.size) \in Nat
                                               /\ Offset(list.page + 1, list.size) \in Nat
      OBVIOUS
    <3>1. /\ Offset(list.page, list.size) \in Nat
          /\ Offset(list.page + 1, list.size) = Offset(list.page, list.size) + list.size
      BY <1>0, OffsetNext
    <3> QED
      BY <1>0, <3>1
  <2> QED
    BY <2>2, <2>5, <2>8, <2>9, <2>10 DEF NothingMissed, Sent, Offset
<1>9. ASSUME NEW i \in Ids, ChangeRow(i) PROVE NothingMissed'
  BY <1>9 DEF ChangeRow
<1>10. CASE UNCHANGED vars
  <2>1. UNCHANGED <<table, matches, list, before, seen, meanwhile>>
    BY <1>10 DEF vars
  <2> QED
    BY <2>1, RowsStay DEF NothingMissed, Sent, Offset
<1> QED
  BY <1>1, <1>2, <1>3, <1>4, <1>5, <1>6, <1>7, <1>8, <1>9, <1>10 DEF Next

LEMMA MissedHolds == Spec => []NothingMissed
BY LimitsHold, MissedInit, MissedNext, PTL DEF Spec

\* A client that walks to the end misses no row that was there when it began, however
\* many rows are inserted meanwhile (Service.List and the repositories' List).
THEOREM WalksMissNothing == Spec => []WalkMissesNothing
<1>1. NothingMissed => WalkMissesNothing
  BY DEF NothingMissed, WalkMissesNothing
<1> QED
  BY <1>1, MissedHolds, PTL

-----------------------------------------------------------------------------
(* The quiet walk. *)

\* The pages so far and this page are the rows up to its end.
LEMMA PagesJoin ==
    ASSUME ListingTypeOK, IsFiniteSet(Present), NEW p \in Nat \ {0}, NEW z \in Nat \ {0},
           Offset(p, z) <= Len(Sorted)
    PROVE  /\ Len(PageRows(p, z)) < z =>
                 /\ SubSeq(Sorted, 1, Offset(p, z)) \o PageRows(p, z) = Sorted
                 /\ Len(Sorted) < Offset(p, z) + z
                 /\ Len(PageRows(p, z)) = Len(Sorted) - Offset(p, z)
           /\ ~(Len(PageRows(p, z)) < z) =>
                 /\ SubSeq(Sorted, 1, Offset(p, z)) \o PageRows(p, z)
                       = SubSeq(Sorted, 1, Offset(p, z) + z)
                 /\ Offset(p, z) + z <= Len(Sorted)
<1> DEFINE n == Len(Sorted)
           from == Offset(p, z)
           to == IF from + z < n THEN from + z ELSE n
           q == PageRows(p, z)
<1>1. /\ from \in Nat
      /\ Len(q) = IF from >= n THEN 0 ELSE IF from + z < n THEN z ELSE n - from
  BY PageFacts
<1>2. Sorted \in Seq(Ids) /\ n \in Nat
  BY SortedFacts
<1>3. q = SubSeq(Sorted, from + 1, to)
  BY DEF PageRows
<1> HIDE DEF n, from, q
<1>4. 1 \in 1..(n + 1) /\ from \in (1 - 1)..n /\ to \in from..n
  BY <1>1, <1>2 DEF n, from
<1>5. SubSeq(Sorted, 1, from) \o q = SubSeq(Sorted, 1, to)
  BY <1>2, <1>3, <1>4, ConcatAdjacentSubSeq DEF n
<1>6. SubSeq(Sorted, 1, n) = Sorted
  BY <1>2, SubSeqFull DEF n
<1>7. /\ Len(q) < z => to = n /\ n < from + z /\ Len(q) = n - from
      /\ ~(Len(q) < z) => to = from + z /\ from + z <= n
  BY <1>1, <1>2, <1>4
<1> QED
  BY <1>5, <1>6, <1>7 DEF n, from, q

LEMMA QuietInit == Init => QuietSoFar
<1> SUFFICES ASSUME Init PROVE QuietSoFar
  OBVIOUS
<1>1. Selected = {} /\ list.pc = "done" /\ list.total = 0
  BY DEF Init, Selected, Present, Asking
<1>2. LimitsOK
  BY LimitsInit
<1>3. Sorted \in Seq(Ids) /\ Len(Sorted) = 0
  BY <1>1, <1>2, SortedFacts, FS_EmptySet DEF LimitsOK
<1>4. before = Sorted
  BY <1>3 DEF Init
<1> QED
  BY <1>1, <1>4 DEF QuietSoFar

LEMMA QuietNext == LimitsOK /\ LimitsOK' /\ QuietSoFar /\ [Next]_vars => QuietSoFar'
<1> SUFFICES ASSUME LimitsOK, LimitsOK', QuietSoFar, [Next]_vars, meanwhile' = {}
             PROVE  QuietSoFar'
  BY DEF QuietSoFar
<1>0. /\ ListingTypeOK /\ IsFiniteSet(Present) /\ list \in ListState
      /\ list.pc # "done" => list.page \in Nat \ {0} /\ list.size \in Nat \ {0}
  BY ListingAssumption DEF LimitsOK, ListingTypeOK
<1>1. CASE Begin
  <2>1. PICK z \in Sizes, p \in {-1, 0, 1} :
            Valid(p, z) /\ list' = Asking(Page(p), PageSize(z))
    BY <1>1 DEF Begin
  <2>2. Page(p) = 1
    BY <2>1 DEF Valid, Page
  <2>3. /\ before' = Sorted /\ seen' = <<>> /\ list'.pc = "ready" /\ list'.page = 1
        /\ table' = table /\ matches' = matches
    BY <1>1, <2>1, <2>2 DEF Begin, Asking, store
  <2>4. Offset(1, list'.size) = 0
    <3>1. list'.size \in Nat
      BY <2>3, ListingAssumption DEF LimitsOK
    <3> QED
      BY <3>1 DEF Offset
  <2>5. Len(Sorted) \in Nat /\ SubSeq(Sorted, 1, 0) = <<>>
    BY <1>0, SortedFacts, SubSeqEmpty
  <2>6. 0 <= Len(Sorted)
    BY <2>5
  <2> QED
    BY <2>3, <2>4, <2>5, <2>6, RowsStay DEF QuietSoFar, Offset
<1>2. CASE Count
  <2>1. /\ table' = table /\ matches' = matches /\ before' = before /\ seen' = seen
        /\ meanwhile' = meanwhile
    BY <1>2 DEF Count, store, history
  <2>2. /\ list.pc = "ready" /\ list'.pc = "page" /\ list'.page = list.page
        /\ list'.size = list.size /\ list'.total = Cardinality(Selected)
    BY <1>0, <1>2 DEF Count, ListState
  <2>3. Cardinality(Selected) = Len(Sorted)
    BY <1>0, SortedFacts
  <2> QED
    BY <2>1, <2>2, <2>3, RowsStay DEF QuietSoFar, Offset
<1>3. CASE ReadPage
  <2>1. /\ table' = table /\ matches' = matches /\ before' = before /\ seen' = seen
        /\ meanwhile' = meanwhile
    BY <1>3 DEF ReadPage, store, history
  <2>2. /\ list.pc = "page" /\ list'.pc = "items" /\ list'.page = list.page
        /\ list'.size = list.size /\ list'.total = list.total
        /\ list'.rows = PageRows(list.page, list.size)
    BY <1>0, <1>3 DEF ReadPage, ListState
  <2>3. Sorted' = Sorted /\ PageRows(list.page, list.size)' = PageRows(list.page, list.size)
    BY <2>1, <2>2, RowsStay DEF PageRows, Offset
  <2> QED
    BY <2>1, <2>2, <2>3 DEF QuietSoFar, Offset
<1>4. CASE ReadItems
  <2>1. /\ table' = table /\ matches' = matches /\ before' = before /\ seen' = seen
        /\ meanwhile' = meanwhile
    BY <1>4 DEF ReadItems, store, history
  <2>2. /\ list.pc = "items" /\ list'.pc = "items" /\ list'.page = list.page
        /\ list'.size = list.size /\ list'.total = list.total /\ list'.rows = list.rows
    BY <1>0, <1>4 DEF ReadItems, ListState
  <2> QED
    BY <2>1, <2>2, RowsStay DEF QuietSoFar, PageRows, Offset
<1>5. CASE Answer
  <2>1. /\ table' = table /\ matches' = matches /\ before' = before /\ seen' = seen \o list.rows
        /\ meanwhile' = meanwhile /\ list.pc = "items"
    BY <1>5 DEF Answer, store
  <2>2. list.page \in Nat \ {0} /\ list.size \in Nat \ {0}
    BY <1>0, <2>1
  <2>3. /\ before = Sorted /\ Offset(list.page, list.size) <= Len(Sorted)
        /\ seen = SubSeq(Sorted, 1, Offset(list.page, list.size))
        /\ list.rows = PageRows(list.page, list.size) /\ list.total = Len(Sorted)
    BY <2>1 DEF QuietSoFar
  <2>4. Sorted' = Sorted
    BY <2>1, RowsStay
  <2>5. CASE Len(list.rows) < list.size
    <3>1. /\ list'.pc = "done" /\ list'.page = list.page /\ list'.size = list.size
          /\ list'.total = list.total /\ list'.rows = list.rows
      BY <1>0, <1>5, <2>5 DEF Answer, ListState
    <3>2. /\ seen' = Sorted
          /\ Len(Sorted) < Offset(list.page, list.size) + list.size
          /\ Len(list.rows) = Len(Sorted) - Offset(list.page, list.size)
      BY <1>0, <2>1, <2>2, <2>3, <2>5, PagesJoin
    <3> QED
      BY <2>1, <2>2, <2>3, <2>4, <3>1, <3>2 DEF QuietSoFar, Offset
  <2>6. CASE ~(Len(list.rows) < list.size)
    <3>1. list'.pc = "ready" /\ list'.page = list.page + 1 /\ list'.size = list.size
      BY <1>5, <2>6 DEF Answer, Asking
    <3>2. /\ seen' = SubSeq(Sorted, 1, Offset(list.page, list.size) + list.size)
          /\ Offset(list.page, list.size) + list.size <= Len(Sorted)
      BY <1>0, <2>1, <2>2, <2>3, <2>6, PagesJoin
    <3>3. Offset(list.page + 1, list.size) = Offset(list.page, list.size) + list.size
      BY <2>2, OffsetNext
    <3> QED
      BY <2>1, <2>3, <2>4, <3>1, <3>2, <3>3 DEF QuietSoFar, Offset
  <2> QED
    BY <2>5, <2>6
<1>6. CASE ListFails
  <2>1. /\ table' = table /\ matches' = matches /\ before' = before /\ seen' = seen
        /\ meanwhile' = meanwhile
    BY <1>6 DEF ListFails, store, history
  <2>2. /\ list.pc # "done" /\ list'.pc = "ready" /\ list'.page = list.page
        /\ list'.size = list.size
    BY <1>6 DEF ListFails, Asking
  <2> QED
    BY <2>1, <2>2, RowsStay DEF QuietSoFar, Offset
<1>7. ASSUME NEW w \in Writers, Stamp(w) PROVE QuietSoFar'
  <2>1. UNCHANGED <<table, matches, list, before, seen, meanwhile>>
    BY <1>7 DEF Stamp, history
  <2> QED
    BY <2>1, RowsStay DEF QuietSoFar, PageRows, Offset
<1>8. ASSUME NEW w \in Writers, InsertRow(w) PROVE QuietSoFar'
  <2>1. PICK i \in Ids \ Present :
            /\ table' = [table EXCEPT ![i] = writer[w]]
            /\ meanwhile' = IF i \in matches THEN meanwhile \cup {"insert"} ELSE meanwhile
    BY <1>8 DEF InsertRow
  <2>2. UNCHANGED <<matches, list, before, seen>> /\ meanwhile = {} /\ i \notin matches
    BY <1>8, <2>1 DEF InsertRow
  <2>3. table \in [Ids -> 0..MaxTime \cup {None}] /\ writer[w] # None
    BY <1>0, <1>8 DEF ListingTypeOK, InsertRow
  <2>4. Selected' = Selected /\ \A x \in Selected : table'[x] = table[x]
    BY <2>1, <2>2, <2>3 DEF Selected, Present
  <2>5. Rows(table, Selected)
    BY <1>0, SelectedRows
  <2>6. Rows(table', Selected) /\ \A x \in Selected : table[x] = table'[x]
    BY <2>4, <2>5 DEF Rows
  <2>7. /\ Sorted = Enumeration(table, Selected)
        /\ Sorted' = Enumeration(table', Selected)
    BY <2>4, SortedIs DEF Sorted, InOrder, Enumeration, Before, Lt
  <2>8. Ordered(table, Selected, Sorted) /\ Ordered(table', Selected, Sorted')
    BY <2>5, <2>6, <2>7, EnumerationOrdered
  <2>9. Sorted' = Sorted
    BY <2>5, <2>6, <2>8, OrderedUnique
  <2> QED
    BY <2>2, <2>9 DEF QuietSoFar, PageRows, Offset
<1>9. ASSUME NEW i \in Ids, ChangeRow(i) PROVE QuietSoFar'
  BY <1>9 DEF ChangeRow
<1>10. CASE UNCHANGED vars
  <2>1. UNCHANGED <<table, matches, list, before, seen, meanwhile>>
    BY <1>10 DEF vars
  <2> QED
    BY <2>1, RowsStay DEF QuietSoFar, PageRows, Offset
<1> QED
  BY <1>1, <1>2, <1>3, <1>4, <1>5, <1>6, <1>7, <1>8, <1>9, <1>10 DEF Next

LEMMA QuietExact == LimitsOK /\ QuietSoFar => QuietWalkIsExact
<1> SUFFICES ASSUME LimitsOK, QuietSoFar, list.pc = "done", meanwhile = {}, list.total > 0
             PROVE  /\ seen = before
                    /\ list.total = Len(seen)
                    /\ list.page - TotalPages(list.total, list.size) \in {0, 1}
                    /\ list.page = TotalPages(list.total, list.size) <=> list.rows # <<>>
  BY DEF QuietWalkIsExact
<1> DEFINE p == list.page
           z == list.size
           n == list.total
           from == Offset(p, z)
           q == TotalPages(n, z)
<1>1. /\ seen = before /\ n = Len(before) /\ p \in Nat \ {0} /\ z \in Nat \ {0}
      /\ from <= n /\ n < from + z /\ Len(list.rows) = n - from
  BY DEF QuietSoFar
<1>2. n \in Nat /\ (list.rows = <<>> <=> Len(list.rows) = 0)
  BY DEF LimitsOK, ListingTypeOK, ListState
<1>3. from \in Nat /\ p * z = from + z /\ from = (p - 1) * z
  <2>1. from \in Nat /\ Offset(p + 1, z) = from + z
    BY <1>1, OffsetNext
  <2>2. Offset(p + 1, z) = p * z
    <3>1. (p + 1) - 1 = p
      BY <1>1
    <3> QED
      BY <3>1 DEF Offset
  <2> QED
    BY <2>1, <2>2 DEF Offset
<1>4. p - 1 \in Nat /\ q \in Nat
  <2>1. p - 1 \in Nat
    BY <1>1
  <2>2. p \in Nat /\ n \in Nat /\ z \in Nat \ {0}
    BY <1>1, <1>2
  <2>3. q \in Nat
    BY <2>2, PagesNeeded
  <2> QED
    BY <2>1, <2>3
<1>5. p * z >= n <=> p >= q
  BY <1>1, <1>2, PagesNeeded
<1>6. (p - 1) * z >= n <=> p - 1 >= q
  BY <1>1, <1>2, <1>4, PagesNeeded
<1>7. q >= p - 1
  <2>1. CASE p = 1
    BY <1>4, <2>1
  <2>2. CASE p # 1
    <3>1. p - 2 \in Nat /\ (p - 2) + 1 = p - 1
      BY <1>1, <2>2
    <3>2. (p - 2) * z >= n <=> p - 2 >= q
      BY <1>1, <1>2, <3>1, PagesNeeded
    <3>3. ((p - 2) + 1) * z = (p - 2) * z + z /\ (p - 2) * z \in Nat
      BY <1>1, <3>1, ProductNext, Product
    <3> HIDE DEF p, z, n, from, q
    <3>4. (p - 2) * z < n
      BY <1>1, <1>2, <1>3, <3>1, <3>3
    <3> QED
      BY <1>1, <1>2, <1>4, <3>1, <3>2, <3>3, <3>4
  <2> QED
    BY <2>1, <2>2
<1> HIDE DEF p, z, n, from, q
<1>8. p >= q
  BY <1>1, <1>2, <1>3, <1>5
<1>9. p - q \in {0, 1}
  BY <1>1, <1>4, <1>7, <1>8
<1>10. p = q <=> from < n
  BY <1>1, <1>2, <1>3, <1>4, <1>6, <1>9
<1>11. from < n <=> Len(list.rows) # 0
  BY <1>1, <1>2, <1>3
<1> QED
  BY <1>1, <1>2, <1>9, <1>10, <1>11 DEF p, z, n, q

LEMMA QuietHolds == Spec => []QuietSoFar
BY LimitsHold, QuietInit, QuietNext, PTL DEF Spec

\* If nothing changes meanwhile, a walk sends every row once and in order, and total
\* and total_pages tell where it ends (the repositories' List).
THEOREM QuietWalksAreExact == Spec => []QuietWalkIsExact
BY QuietExact, LimitsHold, QuietHolds, PTL

==============================================================================
