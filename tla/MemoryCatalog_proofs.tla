------------------------ MODULE MemoryCatalog_proofs ------------------------
(***************************************************************************)
(* The properties of MemoryCatalog, for any records, keys and callers.      *)
(* The inductive invariant says what a request knows while it is at work:    *)
(* unless it has missed a store (Looked) or a Deactivate (Loaded), what it    *)
(* found still holds.                                                      *)
(***************************************************************************)
EXTENDS MemoryCatalog, TLAPS

\* A request at work has a valid body and a record: a new one of its own, or one
\* that is stored.
AtWork ==
    \A c \in Callers :
        /\ call[c].pc = "idle" => call[c].id = Nothing
        /\ call[c].pc # "idle" => call[c].id \in Records /\ call[c].key \in Documents
        /\ call[c].pc # "idle" /\ kind = "product" => call[c].price = Positive
        /\ call[c].pc = "put" => ~Stored(call[c].id)
        /\ call[c].pc \in {"check", "store"} => call[c].seen \in Item /\ Stored(call[c].id)

NewIdsDiffer ==
    \A c, d \in Callers : c # d /\ call[c].pc = "put" => call[d].id # call[c].id

OffIsStored == \A i \in off : Stored(i)

\* The key that a request has found free is still free.
Looked ==
    \A c \in Callers :
        call[c].pc \in {"put", "store"} /\ call[c].missed = "no" /\ call[c].key \notin raced =>
            \A j \in Records : j # call[c].id /\ Stored(j) => items[j].key # call[c].key

\* A record that a request has loaded as active has not been deactivated, or has
\* been revived since.
Loaded ==
    \A c \in Callers :
        /\ call[c].pc \in {"check", "store"}
        /\ call[c].late = "no"
        /\ call[c].id \in off
        /\ call[c].seen.active
        => call[c].id \in revived

MemoryInv ==
    /\ MemoryTypeOK /\ AtWork /\ NewIdsDiffer /\ OffIsStored
    /\ Looked /\ DuplicatesNeedOverlap
    /\ Loaded /\ RevivalNeedsOverlap

LEMMA InitMemory == MemoryInit => MemoryInv
  BY MemoryAssumption
     DEF MemoryInit, MemoryInv, MemoryTypeOK, AtWork, NewIdsDiffer, OffIsStored, Looked,
         DuplicatesNeedOverlap, Loaded, RevivalNeedsOverlap, Stored, IdleCall, Calls, NoPrice, Positive

\* A request that begins, or moves on, without touching the map.
LEMMA BeginCreateKeeps ==
  ASSUME MemoryInv, NEW c \in Callers, BeginCreate(c)
  PROVE  MemoryInv'
<1> USE MemoryAssumption, ItemAssumption
<1>1. PICK i \in Records, b \in Bodies :
         /\ ValidBody(b)
         /\ FoundFree(b.key, Nothing)
         /\ ~Stored(i) /\ \A d \in Callers : call[d].id # i
         /\ call' = [call EXCEPT ![c] = [IdleCall EXCEPT
                       !.pc = "put", !.id = i, !.key = b.key, !.price = b.price]]
  BY DEF BeginCreate
<1>2. UNCHANGED <<kind, items, off, raced, revived>>
  BY DEF BeginCreate, memoryHistory
<1>3. b.key \in Documents /\ b.price \in {NoPrice, Positive} /\ (kind = "product" => b.price = Positive)
  BY <1>1 DEF Bodies, ValidBody, ValidCustomer, ValidProduct
<1>4. call'[c] = [pc |-> "put", id |-> i, seen |-> Nothing, key |-> b.key,
                  price |-> b.price, missed |-> "no", late |-> "no"]
  BY <1>1 DEF IdleCall, MemoryInv, MemoryTypeOK
<1>5. \A d \in Callers : d # c => call'[d] = call[d]
  BY <1>1 DEF MemoryInv, MemoryTypeOK
<1>6. MemoryTypeOK'
  BY <1>1, <1>2, <1>3, <1>4, <1>5 DEF MemoryInv, MemoryTypeOK, Calls, Stored, IdleCall
<1>7. \A j \in Records : Stored(j) => items[j].key # b.key
  BY <1>1 DEF FoundFree, FindByKey
<1>8. AtWork' /\ NewIdsDiffer' /\ OffIsStored'
  BY <1>1, <1>2, <1>3, <1>4, <1>5 DEF MemoryInv, AtWork, NewIdsDiffer, OffIsStored, Stored
<1>9. Looked' /\ DuplicatesNeedOverlap'
  BY <1>2, <1>4, <1>5, <1>7 DEF MemoryInv, Looked, DuplicatesNeedOverlap, Stored
<1>10. Loaded' /\ RevivalNeedsOverlap'
  BY <1>2, <1>4, <1>5 DEF MemoryInv, Loaded, RevivalNeedsOverlap, Stored
<1> QED BY <1>6, <1>8, <1>9, <1>10 DEF MemoryInv

LEMMA LoadItemKeeps ==
  ASSUME MemoryInv, NEW c \in Callers, LoadItem(c)
  PROVE  MemoryInv'
<1> USE MemoryAssumption, ItemAssumption
<1>1. PICK i \in Records, b \in Bodies :
         /\ Stored(i)
         /\ ValidBody(b)
         /\ call' = [call EXCEPT ![c] = [IdleCall EXCEPT
                       !.pc = IF b.key = items[i].key THEN "store" ELSE "check",
                       !.id = i, !.seen = items[i], !.key = b.key, !.price = b.price]]
  BY DEF LoadItem
<1>2. UNCHANGED <<kind, items, off, raced, revived>> /\ call[c].pc = "idle"
  BY DEF LoadItem, memoryHistory
<1>3. b.key \in Documents /\ b.price \in {NoPrice, Positive} /\ (kind = "product" => b.price = Positive)
  BY <1>1 DEF Bodies, ValidBody, ValidCustomer, ValidProduct
<1>4. call'[c] = [pc |-> IF b.key = items[i].key THEN "store" ELSE "check", id |-> i,
                  seen |-> items[i], key |-> b.key, price |-> b.price,
                  missed |-> "no", late |-> "no"]
  BY <1>1 DEF IdleCall, MemoryInv, MemoryTypeOK
<1>5. \A d \in Callers : d # c => call'[d] = call[d]
  BY <1>1 DEF MemoryInv, MemoryTypeOK
<1>6. items[i] \in Item
  BY <1>1 DEF MemoryInv, MemoryTypeOK, Stored
<1>7. MemoryTypeOK'
  BY <1>1, <1>2, <1>3, <1>4, <1>5, <1>6 DEF MemoryInv, MemoryTypeOK, Calls, Stored, IdleCall
<1>8. AtWork' /\ NewIdsDiffer' /\ OffIsStored'
  BY <1>1, <1>2, <1>3, <1>4, <1>5, <1>6 DEF MemoryInv, AtWork, NewIdsDiffer, OffIsStored, Stored
<1>9. b.key = items[i].key /\ b.key \notin raced =>
         \A j \in Records : j # i /\ Stored(j) => items[j].key # b.key
  BY <1>1 DEF MemoryInv, DuplicatesNeedOverlap
<1>10. Looked' /\ DuplicatesNeedOverlap'
  BY <1>2, <1>4, <1>5, <1>9 DEF MemoryInv, Looked, DuplicatesNeedOverlap, Stored
<1>11. i \in off /\ items[i].active => i \in revived
  BY <1>1 DEF MemoryInv, RevivalNeedsOverlap
<1>12. Loaded' /\ RevivalNeedsOverlap'
  BY <1>2, <1>4, <1>5, <1>11 DEF MemoryInv, Loaded, RevivalNeedsOverlap, Stored
<1> QED BY <1>7, <1>8, <1>10, <1>12 DEF MemoryInv

LEMMA CheckKeyKeeps ==
  ASSUME MemoryInv, NEW c \in Callers, CheckKey(c)
  PROVE  MemoryInv'
<1> USE MemoryAssumption, ItemAssumption
<1>1. UNCHANGED <<kind, items, off, raced, revived>> /\ call[c].pc = "check"
  BY DEF CheckKey, memoryHistory
<1>2. CASE /\ FoundFree(call[c].key, call[c].id)
           /\ call' = [call EXCEPT ![c].pc = "store", ![c].missed = "no"]
  <2>1. call'[c] = [call[c] EXCEPT !.pc = "store", !.missed = "no"] /\ call[c] \in Calls
    BY <1>2 DEF MemoryInv, MemoryTypeOK
  <2>2. call'[c] \in Calls /\ call'[c].pc = "store" /\ call'[c].missed = "no"
        /\ call'[c].id = call[c].id /\ call'[c].key = call[c].key /\ call'[c].seen = call[c].seen
        /\ call'[c].price = call[c].price /\ call'[c].late = call[c].late
    BY <2>1 DEF Calls
  <2>3. \A d \in Callers : d # c => call'[d] = call[d]
    BY <1>2 DEF MemoryInv, MemoryTypeOK
  <2>4. MemoryTypeOK'
    BY <1>1, <1>2, <2>2, <2>3 DEF MemoryInv, MemoryTypeOK, Stored
  <2>5. AtWork' /\ NewIdsDiffer' /\ OffIsStored'
    BY <1>1, <2>2, <2>3 DEF MemoryInv, AtWork, NewIdsDiffer, OffIsStored, Stored
  <2>6. call[c].key \notin raced =>
           \A j \in Records : j # call[c].id /\ Stored(j) => items[j].key # call[c].key
    BY <1>2 DEF MemoryInv, DuplicatesNeedOverlap, FoundFree, FindByKey
  <2>7. Looked' /\ DuplicatesNeedOverlap'
    BY <1>1, <2>2, <2>3, <2>6 DEF MemoryInv, Looked, DuplicatesNeedOverlap, Stored
  <2>8. Loaded' /\ RevivalNeedsOverlap'
    BY <1>1, <2>2, <2>3 DEF MemoryInv, Loaded, RevivalNeedsOverlap, Stored
  <2> QED BY <2>4, <2>5, <2>7, <2>8 DEF MemoryInv
<1>3. CASE call' = [call EXCEPT ![c] = IdleCall]
  <2>1. call'[c] = IdleCall /\ \A d \in Callers : d # c => call'[d] = call[d]
    BY <1>3 DEF MemoryInv, MemoryTypeOK
  <2>2. IdleCall \in Calls /\ IdleCall.pc = "idle" /\ IdleCall.id = Nothing
    BY DEF IdleCall, Calls
  <2>3. MemoryTypeOK'
    BY <1>1, <1>3, <2>1, <2>2 DEF MemoryInv, MemoryTypeOK, Stored
  <2>4. AtWork' /\ NewIdsDiffer' /\ OffIsStored'
    BY <1>1, <2>1, <2>2 DEF MemoryInv, AtWork, NewIdsDiffer, OffIsStored, Stored
  <2>5. Looked' /\ DuplicatesNeedOverlap'
    BY <1>1, <2>1, <2>2 DEF MemoryInv, Looked, DuplicatesNeedOverlap, Stored
  <2>6. Loaded' /\ RevivalNeedsOverlap'
    BY <1>1, <2>1, <2>2 DEF MemoryInv, Loaded, RevivalNeedsOverlap, Stored
  <2> QED BY <2>3, <2>4, <2>5, <2>6 DEF MemoryInv
<1> QED BY <1>2, <1>3 DEF CheckKey

\* A store by request c: of a new record, active, or of the one it loaded, active as
\* it was.
LEMMA StoreKeeps ==
  ASSUME MemoryInv, NEW c \in Callers, NEW active \in BOOLEAN,
         call[c].pc \in {"put", "store"},
         call[c].pc = "store" => active = call[c].seen.active,
         Store(c, active)
  PROVE  MemoryInv'
<1> DEFINE r == call[c]
<1> DEFINE row == [key |-> r.key, price |-> r.price, active |-> active]
<1> USE MemoryAssumption, ItemAssumption
<1>1. /\ items' = [items EXCEPT ![r.id] = row]
      /\ call' = [d \in Callers |-> IF d = c THEN IdleCall ELSE Misses(call[d], r.key)]
      /\ raced' = IF r.missed = "yes" THEN raced \cup {r.key} ELSE raced
      /\ revived' = IF r.late = "yes" THEN revived \cup {r.id} ELSE revived
      /\ kind' = kind /\ off' = off
  BY DEF Store
<1>2. r \in Calls /\ r.id \in Records /\ r.key \in Documents
  BY DEF MemoryInv, MemoryTypeOK, AtWork
<1>3. row \in Item /\ row # Nothing /\ row.key = r.key /\ row.active = active
  BY <1>2 DEF Item, Calls
<1>4. items'[r.id] = row /\ \A j \in Records : j # r.id => items'[j] = items[j]
  BY <1>1, <1>2 DEF MemoryInv, MemoryTypeOK
<1>5. call'[c] = IdleCall /\ IdleCall \in Calls /\ IdleCall.pc = "idle" /\ IdleCall.id = Nothing
  BY <1>1 DEF IdleCall, Calls
<1>6. ASSUME NEW d \in Callers, d # c
      PROVE  /\ call'[d] \in Calls
             /\ call'[d].pc = call[d].pc /\ call'[d].id = call[d].id /\ call'[d].key = call[d].key
             /\ call'[d].seen = call[d].seen /\ call'[d].price = call[d].price
             /\ call'[d].late = call[d].late
             /\ call[d].missed = "yes" => call'[d].missed = "yes"
             /\ call[d].pc # "idle" /\ call[d].key = r.key => call'[d].missed = "yes"
  <2>1. call'[d] = Misses(call[d], r.key) /\ call[d] \in Calls
    BY <1>1, <1>6 DEF MemoryInv, MemoryTypeOK
  <2>2. CASE call[d].pc # "idle" /\ call[d].key = r.key
    <3>1. call'[d] = [call[d] EXCEPT !.missed = "yes"]
      BY <2>1, <2>2 DEF Misses
    <3> QED BY <2>1, <3>1 DEF Calls
  <2>3. CASE ~(call[d].pc # "idle" /\ call[d].key = r.key)
    BY <2>1, <2>3 DEF Misses
  <2> QED BY <2>2, <2>3
<1>7. MemoryTypeOK'
  <2>1. call' \in [Callers -> Calls]
    <3>1. \A d \in Callers : call'[d] \in Calls
      BY <1>5, <1>6
    <3> QED BY <1>1, <3>1
  <2>2. items' \in [Records -> Item \cup {Nothing}]
    BY <1>1, <1>3 DEF MemoryInv, MemoryTypeOK
  <2>3. \A i \in Records : Stored(i)' /\ kind' = "product" => items'[i].price = Positive
    BY <1>1, <1>2, <1>3, <1>4 DEF MemoryInv, MemoryTypeOK, AtWork, Stored
  <2>4. kind' \in {"customer", "product"} /\ off' \subseteq Records
        /\ raced' \subseteq Documents /\ revived' \subseteq Records
    BY <1>1, <1>2 DEF MemoryInv, MemoryTypeOK
  <2> QED BY <2>1, <2>2, <2>3, <2>4 DEF MemoryTypeOK
<1>8. \A i \in Records : Stored(i) => Stored(i)'
  BY <1>2, <1>3, <1>4 DEF Stored
<1>9. AtWork'
  <2>1. \A d \in Callers : d # c /\ call[d].pc = "put" => call[d].id # r.id
    BY <1>2 DEF MemoryInv, NewIdsDiffer, AtWork
  <2>2. SUFFICES ASSUME NEW d \in Callers, d # c
                 PROVE  /\ call'[d].pc = "idle" => call'[d].id = Nothing
                        /\ call'[d].pc # "idle" =>
                              call'[d].id \in Records /\ call'[d].key \in Documents
                        /\ call'[d].pc # "idle" /\ kind' = "product" => call'[d].price = Positive
                        /\ call'[d].pc = "put" => items'[call[d].id] = Nothing
                        /\ call'[d].pc \in {"check", "store"} =>
                              call'[d].seen \in Item /\ items'[call[d].id] # Nothing
    BY <1>5, <1>6 DEF AtWork, Stored
  <2>3. call[d].pc = "put" => items'[call[d].id] = Nothing
    BY <1>4, <2>1, <2>2 DEF MemoryInv, AtWork, Stored
  <2>4. call[d].pc \in {"check", "store"} => call[d].id \in Records /\ Stored(call[d].id)
    BY DEF MemoryInv, AtWork
  <2> QED BY <1>1, <1>6, <1>8, <2>2, <2>3, <2>4 DEF MemoryInv, AtWork, Stored
<1>10. NewIdsDiffer'
  BY <1>2, <1>5, <1>6 DEF MemoryInv, NewIdsDiffer, AtWork
<1>11. OffIsStored'
  BY <1>1, <1>8 DEF MemoryInv, MemoryTypeOK, OffIsStored
<1>12. Looked'
  <2> SUFFICES ASSUME NEW d \in Callers, call'[d].pc \in {"put", "store"},
                      call'[d].missed = "no", call'[d].key \notin raced',
                      NEW j \in Records, j # call'[d].id, Stored(j)'
               PROVE  items'[j].key # call'[d].key
    BY DEF Looked
  <2>1. d # c
    BY <1>5
  <2>2. call[d].missed = "no" /\ call[d].key # r.key /\ call[d].key \notin raced
    BY <1>1, <1>6, <2>1 DEF MemoryInv, MemoryTypeOK, Calls
  <2>3. CASE j = r.id
    BY <1>3, <1>4, <1>6, <2>1, <2>2, <2>3
  <2>4. CASE j # r.id
    BY <1>4, <1>6, <2>1, <2>2, <2>4 DEF MemoryInv, Looked, Stored
  <2> QED BY <2>3, <2>4
<1>13. DuplicatesNeedOverlap'
  <2>1. r.key \notin raced' => \A j \in Records : j # r.id /\ Stored(j) => items[j].key # r.key
    <3>1. r.missed \in {"no", "yes"}
      BY <1>2 DEF Calls
    <3> QED BY <1>1, <3>1 DEF MemoryInv, Looked
  <2> SUFFICES ASSUME NEW i \in Records, NEW j \in Records, i # j,
                      Stored(i)', Stored(j)', items'[i].key = items'[j].key
               PROVE  items'[i].key \in raced'
    BY DEF DuplicatesNeedOverlap, Stored
  <2>2. CASE i = r.id
    BY <1>3, <1>4, <2>1, <2>2 DEF Stored
  <2>3. CASE j = r.id
    BY <1>3, <1>4, <2>1, <2>3 DEF Stored
  <2>4. CASE i # r.id /\ j # r.id
    BY <1>1, <1>4, <2>4 DEF MemoryInv, DuplicatesNeedOverlap, Stored
  <2> QED BY <2>2, <2>3, <2>4
<1>14. revived \subseteq revived'
  BY <1>1
<1>15. Loaded'
  BY <1>1, <1>5, <1>6, <1>14 DEF MemoryInv, Loaded
<1>16. RevivalNeedsOverlap'
  <2> SUFFICES ASSUME NEW i \in off, items'[i].active
               PROVE  i \in revived'
    BY <1>1 DEF RevivalNeedsOverlap
  <2>1. i \in Records /\ Stored(i)
    BY DEF MemoryInv, MemoryTypeOK, OffIsStored
  <2>2. CASE i # r.id
    BY <1>4, <1>14, <2>1, <2>2 DEF MemoryInv, RevivalNeedsOverlap
  <2>3. CASE i = r.id
    <3>1. r.pc = "store"
      BY <2>1, <2>3 DEF MemoryInv, AtWork
    <3>2. r.seen.active
      BY <1>3, <1>4, <2>3, <3>1
    <3>3. r.late \in {"no", "yes"}
      BY <1>2 DEF Calls
    <3> QED BY <1>1, <2>3, <3>1, <3>2, <3>3 DEF MemoryInv, Loaded
  <2> QED BY <2>2, <2>3
<1> QED BY <1>7, <1>9, <1>10, <1>11, <1>12, <1>13, <1>15, <1>16 DEF MemoryInv

LEMMA TurnOffKeeps ==
  ASSUME MemoryInv, NEW c \in Callers, TurnOff(c)
  PROVE  MemoryInv'
<1> USE MemoryAssumption, ItemAssumption
<1>1. PICK i \in Records :
         /\ Stored(i)
         /\ items' = [items EXCEPT ![i].active = FALSE]
         /\ off' = off \cup {i}
         /\ revived' = revived \ {i}
         /\ call' = [d \in Callers |->
                        IF call[d].id = i THEN [call[d] EXCEPT !.late = "yes"] ELSE call[d]]
  BY DEF TurnOff
<1>2. kind' = kind /\ raced' = raced
  BY DEF TurnOff
<1>3. items[i] \in Item
  BY <1>1 DEF MemoryInv, MemoryTypeOK, Stored
<1>4. /\ items'[i] = [items[i] EXCEPT !.active = FALSE]
      /\ \A j \in Records : j # i => items'[j] = items[j]
  BY <1>1 DEF MemoryInv, MemoryTypeOK
<1>5. items'[i] \in Item /\ items'[i].key = items[i].key /\ items'[i].price = items[i].price
      /\ items'[i].active = FALSE
  BY <1>3, <1>4 DEF Item
<1>6. \A j \in Records : /\ Stored(j)' <=> Stored(j)
                         /\ Stored(j) => items'[j].key = items[j].key
  BY <1>1, <1>4, <1>5 DEF Stored
<1>7. ASSUME NEW d \in Callers
      PROVE  /\ call'[d] \in Calls
             /\ call'[d].pc = call[d].pc /\ call'[d].id = call[d].id /\ call'[d].key = call[d].key
             /\ call'[d].seen = call[d].seen /\ call'[d].price = call[d].price
             /\ call'[d].missed = call[d].missed
             /\ call[d].id = i => call'[d].late = "yes"
             /\ call[d].id # i => call'[d].late = call[d].late
  <2>1. call[d] \in Calls
    BY DEF MemoryInv, MemoryTypeOK
  <2>2. CASE call[d].id = i
    <3>1. call'[d] = [call[d] EXCEPT !.late = "yes"]
      BY <1>1, <2>2
    <3> QED BY <2>1, <2>2, <3>1 DEF Calls
  <2>3. CASE call[d].id # i
    BY <1>1, <2>1, <2>3
  <2> QED BY <2>2, <2>3
<1>8. MemoryTypeOK'
  <2>1. call' \in [Callers -> Calls]
    <3>1. \A d \in Callers : call'[d] \in Calls
      BY <1>7
    <3> QED BY <1>1, <3>1
  <2>2. items' \in [Records -> Item \cup {Nothing}]
    <3>1. \A j \in Records : items'[j] \in Item \cup {Nothing}
      BY <1>4, <1>5 DEF MemoryInv, MemoryTypeOK
    <3>2. items' = [j \in Records |-> items'[j]]
      BY <1>1 DEF MemoryInv, MemoryTypeOK
    <3> QED BY <3>1, <3>2
  <2>3. \A j \in Records : Stored(j)' /\ kind' = "product" => items'[j].price = Positive
    BY <1>1, <1>2, <1>4, <1>5, <1>6 DEF MemoryInv, MemoryTypeOK
  <2>4. kind' \in {"customer", "product"} /\ off' \subseteq Records
        /\ raced' \subseteq Documents /\ revived' \subseteq Records
    BY <1>1, <1>2 DEF MemoryInv, MemoryTypeOK
  <2> QED BY <2>1, <2>2, <2>3, <2>4 DEF MemoryTypeOK
<1>9. AtWork'
  BY <1>2, <1>6, <1>7 DEF MemoryInv, AtWork, Stored
<1>10. NewIdsDiffer'
  BY <1>7 DEF MemoryInv, NewIdsDiffer
<1>11. OffIsStored'
  BY <1>1, <1>6 DEF MemoryInv, MemoryTypeOK, OffIsStored
<1>12. Looked'
  BY <1>2, <1>6, <1>7 DEF MemoryInv, Looked
<1>13. DuplicatesNeedOverlap'
  BY <1>2, <1>6 DEF MemoryInv, DuplicatesNeedOverlap
<1>14. Loaded'
  BY <1>1, <1>7 DEF MemoryInv, Loaded
<1>15. RevivalNeedsOverlap'
  BY <1>1, <1>4, <1>5, <1>6 DEF MemoryInv, MemoryTypeOK, RevivalNeedsOverlap
<1> QED BY <1>8, <1>9, <1>10, <1>11, <1>12, <1>13, <1>14, <1>15 DEF MemoryInv

LEMMA StepMemory == MemoryInv /\ [MemoryNext]_memoryVars => MemoryInv'
<1> SUFFICES ASSUME MemoryInv, [MemoryNext]_memoryVars PROVE MemoryInv'
  OBVIOUS
<1>1. ASSUME NEW c \in Callers, MemoryStep(c) PROVE MemoryInv'
  <2>1. CASE BeginCreate(c) BY <2>1, BeginCreateKeeps
  <2>2. CASE Put(c)
    <3>1. call[c].pc = "put" /\ Store(c, TRUE) BY <2>2 DEF Put
    <3> QED BY <3>1, StoreKeeps
  <2>3. CASE LoadItem(c) BY <2>3, LoadItemKeeps
  <2>4. CASE CheckKey(c) BY <2>4, CheckKeyKeeps
  <2>5. CASE StoreItem(c)
    <3>1. call[c].pc = "store" /\ Store(c, call[c].seen.active) BY <2>5 DEF StoreItem
    <3>2. call[c].seen.active \in BOOLEAN
      BY <1>1, <3>1 DEF MemoryInv, AtWork, Item
    <3> QED BY <3>1, <3>2, StoreKeeps
  <2>6. CASE TurnOff(c) BY <2>6, TurnOffKeeps
  <2> QED BY <1>1, <2>1, <2>2, <2>3, <2>4, <2>5, <2>6 DEF MemoryStep
<1>2. CASE UNCHANGED memoryVars
  BY <1>2 DEF memoryVars, memoryHistory, MemoryInv, MemoryTypeOK, AtWork, NewIdsDiffer, OffIsStored,
              Looked, DuplicatesNeedOverlap, Loaded, RevivalNeedsOverlap, Stored
<1> QED BY <1>1, <1>2 DEF MemoryNext

(* The inductive invariant holds in every reachable state.                        *)
THEOREM MemoryInvariant == MemorySpec => []MemoryInv
  BY InitMemory, StepMemory, PTL DEF MemorySpec

(* Whatever the requests and however they overlap, the map holds well-formed      *)
(* records, and products with positive prices (Service.Create, Service.Update).   *)
THEOREM MemoryTypes == MemorySpec => []MemoryTypeOK
  BY MemoryInvariant, PTL DEF MemoryInv

(* Two records share a key only after two requests overlapped on it               *)
(* (ensureDocumentUnique, ensureSKUUnique).                                      *)
THEOREM DuplicatesComeFromOverlap == MemorySpec => []DuplicatesNeedOverlap
  BY MemoryInvariant, PTL DEF MemoryInv

(* A deactivated record is active again only after an Update overlapped its        *)
(* Deactivate (InMemoryRepository.Update).                                        *)
THEOREM RevivalComesFromOverlap == MemorySpec => []RevivalNeedsOverlap
  BY MemoryInvariant, PTL DEF MemoryInv

=============================================================================
