----------------------- MODULE OrderProcessing_proofs -----------------------
(***************************************************************************)
(* Proofs of the safety properties of OrderProcessing for any number of    *)
(* orders, handlers and workers and any retry limit.                       *)
(***************************************************************************)
EXTENDS OrderProcessingInv, TLAPS, FiniteSetTheorems

-----------------------------------------------------------------------------
(* Lists. *)

\* LPUSH of a message keeps a list of messages one.
LEMMA LPushType ==
    ASSUME NEW S, NEW q \in Seq(S), NEW m \in S, NEW x
    PROVE  LPush(q, m, x) \in Seq(S)
BY DEF LPush

\* Every element of the list after LPUSH was there before or is the new one.
LEMMA LPushElement ==
    ASSUME NEW S, NEW q \in Seq(S), NEW m \in S, NEW x,
           NEW i \in 1..Len(LPush(q, m, x))
    PROVE  \/ i \in 1..Len(q) /\ LPush(q, m, x)[i] = q[i]
           \/ LPush(q, m, x)[i] = m
<1>1. CASE x = "pushFail"
  BY <1>1 DEF LPush
<1>2. CASE x = "pushDup"
  <2> DEFINE r == Append(q, m)
  <2>1. r \in Seq(S) /\ Len(r) = Len(q) + 1
    OBVIOUS
  <2>2. LPush(q, m, x) = Append(r, m)
    BY <1>2 DEF LPush
  <2>3. (i \in 1..Len(r) /\ Append(r, m)[i] = r[i]) \/ Append(r, m)[i] = m
    BY <2>1, <2>2
  <2>4. \A j \in 1..Len(r) : (j \in 1..Len(q) /\ r[j] = q[j]) \/ r[j] = m
    BY <2>1
  <2> QED
    BY <2>2, <2>3, <2>4
<1>3. CASE x \notin {"pushFail", "pushDup"}
  BY <1>3 DEF LPush
<1> QED
  BY <1>1, <1>2, <1>3

\* An LPUSH that is not repeated appends at most once.
LEMMA LPushOnce ==
    ASSUME NEW q, NEW m, NEW x, x # "pushDup"
    PROVE  LPush(q, m, x) \in {q, Append(q, m)}
BY DEF LPush

\* What BRPOP leaves is what was there, one position further on.
LEMMA TailElement ==
    ASSUME NEW S, NEW q \in Seq(S), q # <<>>
    PROVE  /\ Head(q) = q[1] /\ 1 \in 1..Len(q) /\ Head(q) \in S
           /\ Tail(q) \in Seq(S)
           /\ \A i \in 1..Len(Tail(q)) : i + 1 \in 1..Len(q) /\ Tail(q)[i] = q[i + 1]
OBVIOUS

\* The messages of a list name orders and carry a retry count within the limit.
LEMMA ListOrders ==
    ASSUME NEW q \in Seq(Message), NEW i \in 1..Len(q)
    PROVE  q[i].order \in Orders /\ q[i].retry \in 0..MaxRetries
<1>1. q[i] \in Message
  OBVIOUS
<1> QED
  BY <1>1 DEF Message

-----------------------------------------------------------------------------
(* Typing. *)

\* The constant states of a handler and of a worker are well typed.
LEMMA RecordTypes ==
    /\ IdleHandler \in HandlerState
    /\ \A pc \in WorkerPc : WorkerAt(pc) \in WorkerState
    /\ LoopTop \in WorkerState
BY MaxRetriesAssumption
   DEF IdleHandler, HandlerState, HandlerPc, WorkerAt, WorkerState, WorkerPc, LoopTop

\* A worker that moves on within a message stays well typed.
LEMMA PcType ==
    ASSUME NEW s \in WorkerState, NEW pc \in WorkerPc
    PROVE  [s EXCEPT !.pc = pc] \in WorkerState
BY DEF WorkerState

\* Counting keeps the counters numbers.
LEMMA MetricsType ==
    ASSUME NEW m \in [created : Nat, processed : Nat, failed : Nat]
    PROVE  /\ [m EXCEPT !.created = m.created + 1] \in [created : Nat, processed : Nat, failed : Nat]
           /\ [m EXCEPT !.processed = m.processed + 1] \in [created : Nat, processed : Nat, failed : Nat]
           /\ [m EXCEPT !.failed = m.failed + 1] \in [created : Nat, processed : Nat, failed : Nat]
<1>1. m.created + 1 \in Nat /\ m.processed + 1 \in Nat /\ m.failed + 1 \in Nat
  OBVIOUS
<1>2. \A n \in Nat : /\ [m EXCEPT !.created = n] \in [created : Nat, processed : Nat, failed : Nat]
                     /\ [m EXCEPT !.processed = n] \in [created : Nat, processed : Nat, failed : Nat]
                     /\ [m EXCEPT !.failed = n] \in [created : Nat, processed : Nat, failed : Nat]
  OBVIOUS
<1> QED
  BY <1>1, <1>2

\* The initial state is well typed.
LEMMA InitTypeOK == Init => TypeOK
BY RecordTypes
   DEF Init, TypeOK, AllStatuses, Absent, WorkerPc

USE DEF rows, lists

\* An UPDATE writes a status.
LEMMA UpdateStatusType ==
    ASSUME status \in [Orders -> AllStatuses \cup {Absent}],
           NEW o \in Orders, NEW s \in AllStatuses, NEW x, UpdateStatus(o, s, x)
    PROVE  status' \in [Orders -> AllStatuses \cup {Absent}]
BY DEF UpdateStatus

\* Every step keeps the types.
LEMMA NextTypeOK ==
    ASSUME RowInv, [Next]_vars PROVE TypeOK'
<1> USE MaxRetriesAssumption
<1>t. TypeOK /\ IdleNamesNone
  BY DEF RowInv
<1>1. ASSUME NEW h \in Handlers, CreateOrder(h) PROVE TypeOK'
  <2> PICK o \in Orders, x \in WriteOutcomes :
             /\ UpdateStatus(o, Created, x)
             /\ hd' = IF Reported(x)
                      THEN [hd EXCEPT ![h] = [pc |-> "publish", order |-> o, to |-> None]]
                      ELSE hd
    BY <1>1 DEF CreateOrder
  <2>1. status' \in [Orders -> AllStatuses \cup {Absent}]
    BY <1>t, UpdateStatusType DEF TypeOK, AllStatuses
  <2>2. hd' \in [Handlers -> HandlerState]
    BY <1>t DEF TypeOK, HandlerState, HandlerPc
  <2> QED
    BY <1>1, <1>t, <2>1, <2>2 DEF CreateOrder, TypeOK
<1>2. ASSUME NEW h \in Handlers, PublishOrderCreated(h) PROVE TypeOK'
  <2>1. hd[h].order \in Orders
    BY <1>2, <1>t DEF PublishOrderCreated, TypeOK, IdleNamesNone, HandlerState
  <2>2. [order |-> hd[h].order, retry |-> 0] \in Message
    BY <2>1 DEF Message
  <2>3. queue' \in Seq(Message)
    BY <1>2, <1>t, <2>2, LPushType DEF PublishOrderCreated, TypeOK
  <2>4. metrics' \in [created : Nat, processed : Nat, failed : Nat] /\ acked' \subseteq Orders
    BY <1>2, <1>t, <2>1, MetricsType DEF PublishOrderCreated, TypeOK
  <2>5. hd' \in [Handlers -> HandlerState]
    BY <1>2, <1>t, RecordTypes DEF PublishOrderCreated, TypeOK
  <2> QED
    BY <1>2, <1>t, <2>3, <2>4, <2>5 DEF PublishOrderCreated, TypeOK
<1>3. ASSUME NEW h \in Handlers, ReadForTransition(h) PROVE TypeOK'
  <2>1. hd' \in [Handlers -> HandlerState]
    BY <1>3, <1>t DEF ReadForTransition, TypeOK, HandlerState, HandlerPc
  <2> QED
    BY <1>3, <1>t, <2>1 DEF ReadForTransition, TypeOK
<1>4. ASSUME NEW h \in Handlers, WriteTransition(h) PROVE TypeOK'
  <2>1. hd[h].order \in Orders /\ hd[h].to \in AllStatuses
    BY <1>4, <1>t DEF WriteTransition, TypeOK, IdleNamesNone, HandlerState, AllStatuses
  <2>2. status' \in [Orders -> AllStatuses \cup {Absent}]
    BY <1>4, <1>t, <2>1, UpdateStatusType DEF WriteTransition, TypeOK
  <2>3. hd' \in [Handlers -> HandlerState]
    BY <1>4, <1>t, RecordTypes DEF WriteTransition, TypeOK
  <2> QED
    BY <1>4, <1>t, <2>2, <2>3 DEF WriteTransition, TypeOK
<1>5. ASSUME NEW w \in Workers, Dequeue(w) PROVE TypeOK'
  <2>1. Head(queue) \in Message /\ Tail(queue) \in Seq(Message)
    BY <1>5, <1>t, TailElement DEF Dequeue, TypeOK
  <2>2. wk' \in [Workers -> WorkerState]
    BY <1>5, <1>t, <2>1 DEF Dequeue, TypeOK, WorkerState, WorkerPc, Message
  <2>3. attempts' \in [Orders -> Nat]
    BY <1>5, <1>t, <2>1 DEF Dequeue, TypeOK, Message
  <2> QED
    BY <1>5, <1>t, <2>1, <2>2, <2>3 DEF Dequeue, TypeOK
<1>6. ASSUME NEW w \in Workers, DequeueLost(w) PROVE TypeOK'
  <2>1. Tail(queue) \in Seq(Message)
    BY <1>6, <1>t, TailElement DEF DequeueLost, TypeOK
  <2>2. wk' \in [Workers -> WorkerState]
    BY <1>6, <1>t, RecordTypes DEF DequeueLost, TypeOK, WorkerPc
  <2> QED
    BY <1>6, <1>t, <2>1, <2>2 DEF DequeueLost, TypeOK
<1>7. ASSUME NEW w \in Workers, DequeueError(w) PROVE TypeOK'
  <2>1. wk' \in [Workers -> WorkerState]
    BY <1>7, <1>t, RecordTypes DEF DequeueError, TypeOK, WorkerPc
  <2> QED
    BY <1>7, <1>t, <2>1 DEF DequeueError, TypeOK
<1>8. ASSUME NEW w \in Workers, LoadOrder(w) PROVE TypeOK'
  <2>1. wk' \in [Workers -> WorkerState]
    <3>1. wk[w] \in WorkerState
      BY <1>t DEF TypeOK
    <3>2. [wk[w] EXCEPT !.pc = "retry"] \in WorkerState /\ [wk[w] EXCEPT !.pc = "start"] \in WorkerState
      BY <3>1, PcType DEF WorkerPc
    <3> QED
      BY <1>8, <1>t, <3>2, RecordTypes DEF LoadOrder, TypeOK
  <2> QED
    BY <1>8, <1>t, <2>1 DEF LoadOrder, TypeOK
<1>9. ASSUME NEW w \in Workers, SimulatedFailure(w) PROVE TypeOK'
  <2>1. wk' \in [Workers -> WorkerState]
    BY <1>9, <1>t DEF SimulatedFailure, TypeOK, WorkerState, WorkerPc
  <2> QED
    BY <1>9, <1>t, <2>1 DEF SimulatedFailure, TypeOK
<1>10. ASSUME NEW w \in Workers, StartProcessing(w) PROVE TypeOK'
  <2>1. wk' \in [Workers -> WorkerState]
    BY <1>10, <1>t DEF StartProcessing, TypeOK, WorkerState, WorkerPc
  <2>2. wk[w].order \in Orders
    BY <1>10, <1>t DEF StartProcessing, TypeOK, IdleNamesNone, WorkerState
  <2>3. status' \in [Orders -> AllStatuses \cup {Absent}]
    BY <1>10, <1>t, <2>2, UpdateStatusType DEF StartProcessing, TypeOK, AllStatuses
  <2> QED
    BY <1>10, <1>t, <2>1, <2>3 DEF StartProcessing, TypeOK
<1>11. ASSUME NEW w \in Workers, ProcessPayment(w) PROVE TypeOK'
  <2>1. wk' \in [Workers -> WorkerState]
    BY <1>11, <1>t DEF ProcessPayment, TypeOK, WorkerState, WorkerPc
  <2>2. payments' \in [Orders -> Nat]
    <3>1. wk[w].order \in Orders
      BY <1>11, <1>t DEF ProcessPayment, TypeOK, IdleNamesNone, WorkerState
    <3> QED
      BY <1>11, <1>t, <3>1 DEF ProcessPayment, TypeOK
  <2> QED
    BY <1>11, <1>t, <2>1, <2>2 DEF ProcessPayment, TypeOK
<1>12. ASSUME NEW w \in Workers, MarkProcessed(w) PROVE TypeOK'
  <2>1. wk' \in [Workers -> WorkerState]
    <3>1. wk[w] \in WorkerState
      BY <1>t DEF TypeOK
    <3>2. [wk[w] EXCEPT !.pc = "retry"] \in WorkerState
      BY <3>1, PcType DEF WorkerPc
    <3>3. wk' = [wk EXCEPT ![w] = LoopTop] \/ wk' = [wk EXCEPT ![w] = [wk[w] EXCEPT !.pc = "retry"]]
      BY <1>12 DEF MarkProcessed
    <3> QED
      BY <1>t, <3>2, <3>3, RecordTypes DEF TypeOK
  <2>2. wk[w].order \in Orders
    BY <1>12, <1>t DEF MarkProcessed, TypeOK, IdleNamesNone, WorkerState
  <2>3. status' \in [Orders -> AllStatuses \cup {Absent}]
    BY <1>12, <1>t, <2>2, UpdateStatusType DEF MarkProcessed, TypeOK, AllStatuses, Outcome
  <2>4. processedAt' \in [Orders -> BOOLEAN]
    BY <1>12, <1>t DEF MarkProcessed, TypeOK
  <2>5. metrics' \in [created : Nat, processed : Nat, failed : Nat]
    BY <1>12, <1>t, MetricsType DEF MarkProcessed, TypeOK
  <2> QED
    BY <1>12, <1>t, <2>1, <2>3, <2>4, <2>5 DEF MarkProcessed, TypeOK
<1>13. ASSUME NEW w \in Workers, Requeue(w) PROVE TypeOK'
  <2>1. wk' \in [Workers -> WorkerState]
    BY <1>13, <1>t, RecordTypes DEF Requeue, TypeOK
  <2>2. [order |-> wk[w].order, retry |-> NextRetry(wk[w].retry)] \in Message
    <3>1. wk[w].order \in Orders /\ wk[w].retry \in 0..MaxRetries
      BY <1>13, <1>t DEF Requeue, TypeOK, IdleNamesNone, WorkerState
    <3>2. NextRetry(wk[w].retry) \in 0..MaxRetries
      BY <1>13, <3>1 DEF Requeue, MayRetry, NextRetry
    <3> QED
      BY <3>1, <3>2 DEF Message
  <2>3. queue' \in Seq(Message)
    BY <1>13, <1>t, <2>2, LPushType DEF Requeue, TypeOK
  <2> QED
    BY <1>13, <1>t, <2>1, <2>3 DEF Requeue, TypeOK
<1>14. ASSUME NEW w \in Workers, DeadLetter(w) PROVE TypeOK'
  <2>1. wk' \in [Workers -> WorkerState]
    BY <1>14, <1>t, RecordTypes DEF DeadLetter, TypeOK
  <2>2. [order |-> wk[w].order, retry |-> wk[w].retry] \in Message
    BY <1>14, <1>t DEF DeadLetter, TypeOK, IdleNamesNone, WorkerState, Message
  <2>3. dlq' \in Seq(Message)
    BY <1>14, <1>t, <2>2, LPushType DEF DeadLetter, TypeOK
  <2> QED
    BY <1>14, <1>t, <2>1, <2>3 DEF DeadLetter, TypeOK
<1>15. ASSUME ApiCrash PROVE TypeOK'
  BY <1>15, <1>t, RecordTypes DEF ApiCrash, TypeOK
<1>16. ASSUME WorkerCrash \/ Restart PROVE TypeOK'
  <2>1. FreshPool
    BY <1>16 DEF WorkerCrash, Restart
  <2>2. wk' \in [Workers -> WorkerState]
    BY <2>1, RecordTypes DEF FreshPool, WorkerPc
  <2> QED
    BY <1>t, <2>1, <2>2 DEF FreshPool, TypeOK
<1>17. ASSUME Signal PROVE TypeOK'
  BY <1>17, <1>t DEF Signal, TypeOK
<1>18. ASSUME UNCHANGED vars PROVE TypeOK'
  BY <1>18, <1>t DEF vars, TypeOK
<1> QED
  BY <1>1, <1>2, <1>3, <1>4, <1>5, <1>6, <1>7, <1>8, <1>9, <1>10, <1>11, <1>12,
     <1>13, <1>14, <1>15, <1>16, <1>17, <1>18
     DEF Next, HandlerStep, WorkerStep, HandleMessage, Quiescent

-----------------------------------------------------------------------------
(* The invariant that holds whatever fails. *)

\* Every step keeps idle goroutines without an order.
LEMMA NextIdleNamesNone ==
    ASSUME RowInv, [Next]_vars PROVE IdleNamesNone'
<1>t. TypeOK /\ IdleNamesNone
  BY DEF RowInv
<1>1. ASSUME NEW h \in Handlers, CreateOrder(h) PROVE IdleNamesNone'
  BY <1>1, <1>t, ConstantsAssumption DEF CreateOrder, IdleHandler, IdleNamesNone, TypeOK, HandlerState, WorkerState
<1>2. ASSUME NEW h \in Handlers, PublishOrderCreated(h) PROVE IdleNamesNone'
  BY <1>2, <1>t, ConstantsAssumption DEF PublishOrderCreated, IdleHandler, IdleNamesNone, TypeOK, HandlerState, WorkerState
<1>3. ASSUME NEW h \in Handlers, ReadForTransition(h) PROVE IdleNamesNone'
  BY <1>3, <1>t, ConstantsAssumption
     DEF ReadForTransition, IdleNamesNone, TypeOK, HandlerState, AllStatuses, Canceled, Shipped
<1>4. ASSUME NEW h \in Handlers, WriteTransition(h) PROVE IdleNamesNone'
  BY <1>4, <1>t, ConstantsAssumption DEF WriteTransition, IdleHandler, IdleNamesNone, TypeOK, HandlerState, WorkerState
<1>5. ASSUME NEW w \in Workers, Dequeue(w) PROVE IdleNamesNone'
  <2>1. Head(queue) \in Message
    BY <1>5, <1>t, TailElement DEF Dequeue, TypeOK
  <2>2. Head(queue).order # None
    BY <2>1, ConstantsAssumption DEF Message
  <2> QED
    BY <1>5, <1>t, <2>2 DEF Dequeue, IdleNamesNone, TypeOK, WorkerState
<1>6. ASSUME NEW w \in Workers, DequeueLost(w) PROVE IdleNamesNone'
  <2>1. hd' = hd /\ (wk' = wk \/ wk' = [wk EXCEPT ![w] = WorkerAt("stopped")])
    BY <1>6 DEF DequeueLost
  <2>2. CASE wk' = wk
    BY <2>1, <2>2, <1>t DEF IdleNamesNone
  <2>3. CASE wk' = [wk EXCEPT ![w] = WorkerAt("stopped")]
    BY <2>1, <2>3, <1>t, ConstantsAssumption
       DEF WorkerAt, IdleNamesNone, TypeOK, HandlerState, WorkerState
  <2> QED
    BY <2>1, <2>2, <2>3
<1>7. ASSUME NEW w \in Workers, DequeueError(w) PROVE IdleNamesNone'
  BY <1>7, <1>t, ConstantsAssumption DEF DequeueError, WorkerAt, IdleNamesNone, TypeOK, HandlerState, WorkerState
<1>8. ASSUME NEW w \in Workers, LoadOrder(w) PROVE IdleNamesNone'
  BY <1>8, <1>t, ConstantsAssumption DEF LoadOrder, WorkerAt, LoopTop, IdleNamesNone, TypeOK, HandlerState, WorkerState
<1>9. ASSUME NEW w \in Workers, SimulatedFailure(w) PROVE IdleNamesNone'
  BY <1>9, <1>t, ConstantsAssumption DEF SimulatedFailure, IdleNamesNone, TypeOK, HandlerState, WorkerState
<1>10. ASSUME NEW w \in Workers, StartProcessing(w) PROVE IdleNamesNone'
  BY <1>10, <1>t, ConstantsAssumption DEF StartProcessing, IdleNamesNone, TypeOK, HandlerState, WorkerState
<1>11. ASSUME NEW w \in Workers, ProcessPayment(w) PROVE IdleNamesNone'
  BY <1>11, <1>t, ConstantsAssumption DEF ProcessPayment, IdleNamesNone, TypeOK, HandlerState, WorkerState
<1>12. ASSUME NEW w \in Workers, MarkProcessed(w) PROVE IdleNamesNone'
  <2>1. wk' = [wk EXCEPT ![w] = LoopTop] \/ wk' = [wk EXCEPT ![w].pc = "retry"]
    BY <1>12 DEF MarkProcessed
  <2> QED
    <3>1. wk[w].pc = "finish" /\ UNCHANGED hd
      BY <1>12 DEF MarkProcessed
    <3>2. CASE wk' = [wk EXCEPT ![w] = LoopTop]
      BY <1>t, <3>1, <3>2 DEF WorkerAt, LoopTop, IdleNamesNone, TypeOK, WorkerState
    <3>3. CASE wk' = [wk EXCEPT ![w].pc = "retry"]
      BY <1>t, <3>1, <3>3 DEF IdleNamesNone, TypeOK, WorkerState
    <3> QED
      BY <2>1, <3>2, <3>3
<1>13. ASSUME NEW w \in Workers, Requeue(w) PROVE IdleNamesNone'
  BY <1>13, <1>t, ConstantsAssumption DEF Requeue, WorkerAt, LoopTop, IdleNamesNone, TypeOK, HandlerState, WorkerState
<1>14. ASSUME NEW w \in Workers, DeadLetter(w) PROVE IdleNamesNone'
  BY <1>14, <1>t, ConstantsAssumption DEF DeadLetter, WorkerAt, LoopTop, IdleNamesNone, TypeOK, HandlerState, WorkerState
<1>15. ASSUME ApiCrash PROVE IdleNamesNone'
  BY <1>15, <1>t, ConstantsAssumption DEF ApiCrash, IdleHandler, IdleNamesNone, TypeOK, HandlerState, WorkerState
<1>16. ASSUME WorkerCrash \/ Restart PROVE IdleNamesNone'
  BY <1>16, <1>t, ConstantsAssumption DEF WorkerCrash, Restart, FreshPool, WorkerAt, IdleNamesNone, TypeOK, HandlerState, WorkerState
<1>17. ASSUME Signal PROVE IdleNamesNone'
  BY <1>17, <1>t, ConstantsAssumption DEF Signal, IdleNamesNone, TypeOK, HandlerState, WorkerState
<1>18. ASSUME UNCHANGED vars PROVE IdleNamesNone'
  BY <1>18, <1>t, ConstantsAssumption DEF vars, IdleNamesNone, TypeOK, HandlerState, WorkerState
<1> QED
  BY <1>1, <1>2, <1>3, <1>4, <1>5, <1>6, <1>7, <1>8, <1>9, <1>10, <1>11, <1>12,
     <1>13, <1>14, <1>15, <1>16, <1>17, <1>18
     DEF Next, HandlerStep, WorkerStep, HandleMessage, Quiescent

\* Rows are never deleted, processed_at is never cleared, and a payment is
\* never taken back.
RowsOnlyGrow ==
    \A o \in Orders :
        /\ status[o] # Absent => status'[o] # Absent
        /\ processedAt[o] => processedAt'[o]
        /\ payments[o] <= payments'[o]

\* No row, processing time or payment is ever taken back.
LEMMA NextRowsOnlyGrow ==
    ASSUME RowInv, [Next]_vars PROVE RowsOnlyGrow
<1>t. TypeOK /\ IdleNamesNone
  BY DEF RowInv
<1>s. \A s \in AllStatuses : s # Absent
  BY DEF AllStatuses, Created, Processing, Paid, Shipped, Canceled, Failed, Absent
<1>u. ASSUME NEW o \in Orders, NEW s \in AllStatuses, NEW x, UpdateStatus(o, s, x)
      PROVE  \A p \in Orders : status[p] # Absent => status'[p] # Absent
  BY <1>u, <1>t, <1>s DEF UpdateStatus, TypeOK
<1>1. ASSUME NEW h \in Handlers, CreateOrder(h) PROVE RowsOnlyGrow
  BY <1>1, <1>t, <1>u DEF CreateOrder, TypeOK, RowsOnlyGrow, AllStatuses
<1>2. ASSUME NEW h \in Handlers, WriteTransition(h) PROVE RowsOnlyGrow
  <2>1. hd[h].order \in Orders /\ hd[h].to \in AllStatuses
    BY <1>2, <1>t DEF WriteTransition, TypeOK, IdleNamesNone, HandlerState, AllStatuses
  <2> QED
    BY <1>2, <1>t, <1>u, <2>1 DEF WriteTransition, TypeOK, RowsOnlyGrow
<1>w. \A w \in Workers : wk[w].pc \in {"start", "finish", "pay"} => wk[w].order \in Orders
  BY <1>t DEF TypeOK, IdleNamesNone, WorkerState
<1>3. ASSUME NEW w \in Workers, StartProcessing(w) PROVE RowsOnlyGrow
  BY <1>3, <1>t, <1>u, <1>w DEF StartProcessing, TypeOK, RowsOnlyGrow, AllStatuses
<1>4. ASSUME NEW w \in Workers, ProcessPayment(w) PROVE RowsOnlyGrow
  BY <1>4, <1>t, <1>w DEF ProcessPayment, TypeOK, RowsOnlyGrow
<1>5. ASSUME NEW w \in Workers, MarkProcessed(w) PROVE RowsOnlyGrow
  <2>1. wk[w].order \in Orders /\ Outcome(wk[w].order) \in AllStatuses
    BY <1>5, <1>w DEF MarkProcessed, Outcome, AllStatuses
  <2>2. \A p \in Orders : status[p] # Absent => status'[p] # Absent
    BY <1>5, <1>u, <2>1 DEF MarkProcessed
  <2>3. \A p \in Orders : processedAt[p] => processedAt'[p]
    BY <1>5, <1>t, <2>1 DEF MarkProcessed, TypeOK
  <2> QED
    BY <1>5, <1>t, <2>2, <2>3 DEF MarkProcessed, TypeOK, RowsOnlyGrow
<1>6. CASE UNCHANGED <<status, processedAt, payments>>
  BY <1>6, <1>t DEF TypeOK, RowsOnlyGrow
<1>7. \/ \E h \in Handlers : CreateOrder(h) \/ WriteTransition(h)
      \/ \E w \in Workers : StartProcessing(w) \/ ProcessPayment(w) \/ MarkProcessed(w)
      \/ UNCHANGED <<status, processedAt, payments>>
  BY DEF Next, vars, HandlerStep, WorkerStep, HandleMessage, PublishOrderCreated, ReadForTransition,
         Dequeue, DequeueLost, DequeueError, LoadOrder, SimulatedFailure, Requeue, DeadLetter,
         ApiCrash, WorkerCrash, Restart, FreshPool, Signal, Quiescent
<1> QED
  BY <1>1, <1>2, <1>3, <1>4, <1>5, <1>6, <1>7

\* Every step keeps messages and requests on existing orders.
LEMMA NextNamesExist ==
    ASSUME RowInv, [Next]_vars PROVE NamesExist'
<1>t. TypeOK /\ IdleNamesNone /\ NamesExist
  BY DEF RowInv
<1>g. \A o \in Orders : status[o] # Absent => status'[o] # Absent
  BY NextRowsOnlyGrow DEF RowsOnlyGrow
<1>m. /\ \A i \in 1..Len(queue) : queue[i].order \in Orders
      /\ \A i \in 1..Len(dlq) : dlq[i].order \in Orders
  BY <1>t, ListOrders DEF TypeOK
<1>h. /\ \A h \in Handlers : hd[h].pc # "idle" => hd[h].order \in Orders
      /\ \A w \in Workers : wk[w].pc \notin {"dequeue", "stopped"} => wk[w].order \in Orders
  BY <1>t DEF TypeOK, IdleNamesNone, HandlerState, WorkerState
<1>k. /\ \A i \in 1..Len(queue) : status'[queue[i].order] # Absent
      /\ \A i \in 1..Len(dlq) : status'[dlq[i].order] # Absent
      /\ \A h \in Handlers : hd[h].pc # "idle" => status'[hd[h].order] # Absent
      /\ \A w \in Workers : wk[w].order \in Orders => status'[wk[w].order] # Absent
  BY <1>t, <1>g, <1>m, <1>h DEF NamesExist
<1>1. ASSUME NEW h \in Handlers, CreateOrder(h) PROVE NamesExist'
  <2>1. \A g \in Handlers : hd'[g] # hd[g] => status'[hd'[g].order] # Absent
    BY <1>1, <1>t DEF CreateOrder, UpdateStatus, Reported, TypeOK, Created, Absent
  <2> QED
    BY <1>1, <1>k, <2>1 DEF CreateOrder, NamesExist
<1>2. ASSUME NEW h \in Handlers, PublishOrderCreated(h) PROVE NamesExist'
  <2> DEFINE m == [order |-> hd[h].order, retry |-> 0]
  <2>1. PICK x \in PushOutcomes : queue' = LPush(queue, m, x)
    BY <1>2 DEF PublishOrderCreated
  <2>2. hd[h].order \in Orders /\ status'[m.order] # Absent
    BY <1>2, <1>h, <1>k DEF PublishOrderCreated
  <2>3. m \in Message
    BY <2>2, MaxRetriesAssumption DEF Message
  <2>4. \A i \in 1..Len(queue') : status'[queue'[i].order] # Absent
    <3> SUFFICES ASSUME NEW i \in 1..Len(LPush(queue, m, x)) PROVE status'[LPush(queue, m, x)[i].order] # Absent
      BY <2>1
    <3>1. queue \in Seq(Message)
      BY <1>t DEF TypeOK
    <3>2. (i \in 1..Len(queue) /\ LPush(queue, m, x)[i] = queue[i]) \/ LPush(queue, m, x)[i] = m
      BY <2>3, <3>1, LPushElement
    <3> QED
      BY <3>2, <2>2, <1>k
  <2>5. \A g \in Handlers : hd'[g].pc # "idle" => hd'[g] = hd[g]
    BY <1>2, <1>t DEF PublishOrderCreated, IdleHandler, TypeOK
  <2> QED
    BY <1>2, <1>k, <2>4, <2>5 DEF PublishOrderCreated, NamesExist
<1>3. ASSUME NEW h \in Handlers, ReadForTransition(h) PROVE NamesExist'
  <2>1. \A g \in Handlers : hd'[g] # hd[g] => status'[hd'[g].order] # Absent
    BY <1>3, <1>t DEF ReadForTransition, TypeOK, Required, Created, Paid, Absent
  <2> QED
    BY <1>3, <1>k, <2>1 DEF ReadForTransition, NamesExist
<1>4. ASSUME NEW h \in Handlers, WriteTransition(h) PROVE NamesExist'
  <2>1. \A g \in Handlers : hd'[g].pc # "idle" => hd'[g] = hd[g]
    BY <1>4, <1>t DEF WriteTransition, IdleHandler, TypeOK
  <2> QED
    BY <1>4, <1>k, <2>1 DEF WriteTransition, NamesExist
<1>5. ASSUME NEW w \in Workers, Dequeue(w) PROVE NamesExist'
  <2>1. Head(queue) = queue[1] /\ 1 \in 1..Len(queue)
    BY <1>5, <1>t, TailElement DEF Dequeue, TypeOK
  <2>2. \A i \in 1..Len(queue') : i + 1 \in 1..Len(queue) /\ queue'[i] = queue[i + 1]
    BY <1>5, <1>t, TailElement DEF Dequeue, TypeOK
  <2>3. \A v \in Workers : wk'[v].order = wk[v].order \/ wk'[v].order = queue[1].order
    BY <1>5, <1>t, <2>1 DEF Dequeue, TypeOK
  <2>4. \A i \in 1..Len(queue') : status'[queue'[i].order] # Absent
    BY <1>k, <2>2
  <2>5. \A v \in Workers : wk'[v].order \in Orders => status'[wk'[v].order] # Absent
    BY <1>k, <2>1, <2>3
  <2>6. UNCHANGED <<status, dlq, hd>>
    BY <1>5 DEF Dequeue
  <2> QED
    BY <1>k, <2>4, <2>5, <2>6 DEF NamesExist
<1>6. ASSUME NEW w \in Workers, DequeueLost(w) PROVE NamesExist'
  <2>1. \A i \in 1..Len(queue') : i + 1 \in 1..Len(queue) /\ queue'[i] = queue[i + 1]
    BY <1>6, <1>t, TailElement DEF DequeueLost, TypeOK
  <2>2. \A i \in 1..Len(queue') : status'[queue'[i].order] # Absent
    BY <1>k, <2>1
  <2>3. \A v \in Workers : wk'[v].order \in Orders => wk'[v].order = wk[v].order
    <3>1. wk' = wk \/ wk' = [wk EXCEPT ![w] = WorkerAt("stopped")]
      BY <1>6 DEF DequeueLost
    <3>2. CASE wk' = [wk EXCEPT ![w] = WorkerAt("stopped")]
      BY <3>2, <1>t, ConstantsAssumption DEF WorkerAt, TypeOK
    <3> QED
      BY <3>1, <3>2
  <2>4. UNCHANGED <<status, dlq, hd>>
    BY <1>6 DEF DequeueLost
  <2> QED
    BY <1>k, <2>2, <2>3, <2>4 DEF NamesExist
<1>7. ASSUME NEW w \in Workers,
             \/ DequeueError(w) \/ LoadOrder(w) \/ SimulatedFailure(w)
             \/ StartProcessing(w) \/ ProcessPayment(w) \/ MarkProcessed(w)
      PROVE  NamesExist'
  <2>1. \A v \in Workers : wk'[v].order \in Orders => wk'[v].order = wk[v].order
    <3>1. \/ \E pc \in WorkerPc : wk' = [wk EXCEPT ![w].pc = pc]
          \/ \E pc \in WorkerPc : wk' = [wk EXCEPT ![w] = WorkerAt(pc)]
      BY <1>7
         DEF DequeueError, LoadOrder, SimulatedFailure, StartProcessing, ProcessPayment,
             MarkProcessed, LoopTop, WorkerPc
    <3>2. wk \in [Workers -> WorkerState]
      BY <1>t DEF TypeOK
    <3>3. CASE \E pc \in WorkerPc : wk' = [wk EXCEPT ![w].pc = pc]
      <4> SUFFICES ASSUME NEW v \in Workers PROVE wk'[v].order = wk[v].order
        OBVIOUS
      <4>1. wk[v] \in WorkerState
        BY <3>2
      <4> QED
        BY <3>2, <3>3, <4>1 DEF WorkerState
    <3>4. CASE \E pc \in WorkerPc : wk' = [wk EXCEPT ![w] = WorkerAt(pc)]
      BY <3>2, <3>4, ConstantsAssumption DEF WorkerAt
    <3> QED
      BY <3>1, <3>3, <3>4
  <2>2. UNCHANGED <<queue, dlq, hd>>
    BY <1>7 DEF DequeueError, LoadOrder, SimulatedFailure, StartProcessing, ProcessPayment, MarkProcessed
  <2> QED
    BY <1>k, <2>1, <2>2 DEF NamesExist
<1>8. ASSUME NEW w \in Workers, Requeue(w) PROVE NamesExist'
  <2> DEFINE m == [order |-> wk[w].order, retry |-> NextRetry(wk[w].retry)]
  <2>1. PICK x \in PushOutcomes : queue' = LPush(queue, m, x)
    BY <1>8 DEF Requeue
  <2>2. m.order \in Orders /\ status'[m.order] # Absent
    BY <1>8, <1>h, <1>k DEF Requeue
  <2>3. m \in Message
    <3>1. wk[w].retry \in 0..MaxRetries
      BY <1>t DEF TypeOK, WorkerState
    <3>2. NextRetry(wk[w].retry) \in 0..MaxRetries
      BY <1>8, <3>1, MaxRetriesAssumption DEF Requeue, MayRetry, NextRetry
    <3> QED
      BY <2>2, <3>2 DEF Message
  <2>4. \A i \in 1..Len(queue') : status'[queue'[i].order] # Absent
    <3> SUFFICES ASSUME NEW i \in 1..Len(LPush(queue, m, x)) PROVE status'[LPush(queue, m, x)[i].order] # Absent
      BY <2>1
    <3>1. queue \in Seq(Message)
      BY <1>t DEF TypeOK
    <3>2. (i \in 1..Len(queue) /\ LPush(queue, m, x)[i] = queue[i]) \/ LPush(queue, m, x)[i] = m
      BY <2>3, <3>1, LPushElement
    <3> QED
      BY <3>2, <2>2, <1>k
  <2>5. \A v \in Workers : wk'[v].order \in Orders => wk'[v].order = wk[v].order
    BY <1>8, <1>t, ConstantsAssumption DEF Requeue, LoopTop, WorkerAt, TypeOK
  <2>6. UNCHANGED <<status, dlq, hd>>
    BY <1>8 DEF Requeue
  <2> QED
    BY <1>k, <2>4, <2>5, <2>6 DEF NamesExist
<1>9. ASSUME NEW w \in Workers, DeadLetter(w) PROVE NamesExist'
  <2> DEFINE m == [order |-> wk[w].order, retry |-> wk[w].retry]
  <2>1. PICK x \in PushOutcomes : dlq' = LPush(dlq, m, x)
    BY <1>9 DEF DeadLetter
  <2>2. m.order \in Orders /\ status'[m.order] # Absent
    BY <1>9, <1>h, <1>k DEF DeadLetter
  <2>3. m \in Message
    BY <1>t, <2>2 DEF TypeOK, WorkerState, Message
  <2>4. \A i \in 1..Len(dlq') : status'[dlq'[i].order] # Absent
    <3> SUFFICES ASSUME NEW i \in 1..Len(LPush(dlq, m, x)) PROVE status'[LPush(dlq, m, x)[i].order] # Absent
      BY <2>1
    <3>1. dlq \in Seq(Message)
      BY <1>t DEF TypeOK
    <3>2. (i \in 1..Len(dlq) /\ LPush(dlq, m, x)[i] = dlq[i]) \/ LPush(dlq, m, x)[i] = m
      BY <2>3, <3>1, LPushElement
    <3> QED
      BY <3>2, <2>2, <1>k
  <2>5. \A v \in Workers : wk'[v].order \in Orders => wk'[v].order = wk[v].order
    BY <1>9, <1>t, ConstantsAssumption DEF DeadLetter, LoopTop, WorkerAt, TypeOK
  <2>6. UNCHANGED <<status, queue, hd>>
    BY <1>9 DEF DeadLetter
  <2> QED
    BY <1>k, <2>4, <2>5, <2>6 DEF NamesExist
<1>10. ASSUME ApiCrash PROVE NamesExist'
  BY <1>10, <1>k DEF ApiCrash, IdleHandler, NamesExist
<1>11. ASSUME WorkerCrash \/ Restart PROVE NamesExist'
  BY <1>11, <1>k, ConstantsAssumption DEF WorkerCrash, Restart, FreshPool, WorkerAt, NamesExist
<1>12. ASSUME Signal \/ UNCHANGED vars PROVE NamesExist'
  BY <1>12, <1>k DEF Signal, vars, NamesExist
<1> QED
  BY <1>1, <1>2, <1>3, <1>4, <1>5, <1>6, <1>7, <1>8, <1>9, <1>10, <1>11, <1>12
     DEF Next, HandlerStep, WorkerStep, HandleMessage, Quiescent

\* What a step does to the other workers, and to the acting one.
LEMMA OneWorkerMoves ==
    ASSUME RowInv, NEW w \in Workers, WorkerStep(w)
    PROVE  /\ \A v \in Workers \ {w} : wk'[v] = wk[v]
           /\ hd' = hd
BY DEF RowInv, TypeOK, WorkerStep, HandleMessage, Dequeue, DequeueLost, DequeueError, LoadOrder,
       SimulatedFailure, StartProcessing, ProcessPayment, MarkProcessed, Requeue, DeadLetter

\* Every step keeps settled, finishing and shipping orders charged.
LEMMA NextChargedFirst ==
    ASSUME RowInv, [Next]_vars PROVE ChargedFirst'
<1>t. TypeOK /\ IdleNamesNone /\ ChargedFirst
  BY DEF RowInv
<1>s. \A o \in Orders : payments[o] \in Nat /\ payments'[o] \in Nat
  BY <1>t, NextTypeOK DEF TypeOK
<1>g. \A o \in Orders : /\ payments[o] > 0 => payments'[o] > 0
                        /\ processedAt[o] => processedAt'[o]
  BY <1>s, NextRowsOnlyGrow DEF RowsOnlyGrow
<1>h. /\ \A h \in Handlers : hd[h].pc # "idle" => hd[h].order \in Orders
      /\ \A w \in Workers : wk[w].pc \notin {"dequeue", "stopped"} => wk[w].order \in Orders
  BY <1>t DEF TypeOK, IdleNamesNone, HandlerState, WorkerState
<1>w. \A w \in Workers : wk[w].pc = "finish" => payments'[wk[w].order] > 0
  BY <1>t, <1>g, <1>h DEF ChargedFirst
<1>k. \A h \in Handlers : hd[h].pc = "write" /\ hd[h].to = Shipped
         => payments'[hd[h].order] > 0 /\ processedAt'[hd[h].order] /\ hd[h].order \notin Declined
  BY <1>t, <1>g, <1>h DEF ChargedFirst
<1>o. ASSUME NEW o \in Orders, status'[o] = status[o]
      PROVE  /\ status'[o] \in {Paid, Shipped} => payments'[o] > 0 /\ processedAt'[o] /\ o \notin Declined
             /\ status'[o] = Failed => payments'[o] > 0 /\ processedAt'[o] /\ o \in Declined
  BY <1>o, <1>t, <1>g DEF ChargedFirst, SettledMeansCharged
<1>u. ASSUME NEW o \in Orders, NEW s \in AllStatuses, NEW x, UpdateStatus(o, s, x)
      PROVE  status'[o] \in {status[o], s} /\ \A p \in Orders \ {o} : status'[p] = status[p]
  BY <1>u, <1>t DEF UpdateStatus, TypeOK
<1>1. SettledMeansCharged'
  <2> SUFFICES ASSUME NEW o \in Orders, status'[o] # status[o]
               PROVE  /\ status'[o] \in {Paid, Shipped} => payments'[o] > 0 /\ processedAt'[o] /\ o \notin Declined
                      /\ status'[o] = Failed => payments'[o] > 0 /\ processedAt'[o] /\ o \in Declined
    BY <1>o DEF SettledMeansCharged
  <2> USE DEF Created, Processing, Paid, Shipped, Canceled, Failed
  <2>1. CASE \E h \in Handlers : CreateOrder(h)
    BY <2>1, <1>u DEF CreateOrder, AllStatuses
  <2>2. CASE \E h \in Handlers : WriteTransition(h)
    <3>1. PICK h \in Handlers : WriteTransition(h)
      BY <2>2
    <3>2. hd[h].order \in Orders /\ hd[h].to \in {Canceled, Shipped}
      BY <3>1, <1>t DEF WriteTransition, TypeOK, IdleNamesNone, HandlerState
    <3>3. o = hd[h].order /\ status'[o] = hd[h].to
      BY <3>1, <3>2, <1>u DEF WriteTransition, AllStatuses
    <3> QED
      BY <3>1, <3>2, <3>3, <1>k DEF WriteTransition
  <2>3. CASE \E w \in Workers : StartProcessing(w)
    BY <2>3, <1>h, <1>u DEF StartProcessing, AllStatuses
  <2>4. CASE \E w \in Workers : MarkProcessed(w)
    <3>1. PICK w \in Workers : MarkProcessed(w)
      BY <2>4
    <3>2. wk[w].pc = "finish" /\ wk[w].order \in Orders
      BY <3>1, <1>h DEF MarkProcessed
    <3>3. PICK x \in WriteOutcomes :
             /\ UpdateStatus(wk[w].order, Outcome(wk[w].order), x)
             /\ processedAt' = IF x = "dbFail" THEN processedAt
                               ELSE [processedAt EXCEPT ![wk[w].order] = TRUE]
      BY <3>1 DEF MarkProcessed
    <3>4. o = wk[w].order /\ status'[o] = Outcome(o) /\ x # "dbFail"
      <4>1. Outcome(wk[w].order) \in AllStatuses
        BY DEF Outcome, AllStatuses
      <4>2. x # "dbFail"
        BY <3>3 DEF UpdateStatus
      <4> QED
        BY <3>2, <3>3, <4>1, <4>2, <1>u
    <3>5. processedAt'[o]
      BY <3>3, <3>4, <1>t DEF TypeOK
    <3> QED
      BY <3>2, <3>4, <3>5, <1>w DEF Outcome
  <2> QED
    BY <2>1, <2>2, <2>3, <2>4
    DEF Next, vars, HandlerStep, WorkerStep, HandleMessage, PublishOrderCreated, ReadForTransition,
        Dequeue, DequeueLost, DequeueError, LoadOrder, SimulatedFailure, ProcessPayment, Requeue,
        DeadLetter, ApiCrash, WorkerCrash, Restart, FreshPool, Signal, Quiescent
<1>2. ASSUME NEW v \in Workers, wk'[v].pc = "finish" PROVE payments'[wk'[v].order] > 0
  <2>1. CASE wk'[v] = wk[v]
    BY <1>2, <1>w, <2>1
  <2>2. CASE ProcessPayment(v)
    <3>1. wk[v].order \in Orders /\ wk'[v].order = wk[v].order
      BY <2>2, <1>h, <1>t DEF ProcessPayment, TypeOK, WorkerState
    <3>2. payments'[wk[v].order] = payments[wk[v].order] + 1
      BY <2>2, <1>t, <3>1 DEF ProcessPayment, TypeOK
    <3> QED
      BY <3>1, <3>2, <1>s
  <2>3. CASE WorkerStep(v) /\ ~ProcessPayment(v)
    BY <1>2, <2>3, <1>t
       DEF WorkerStep, HandleMessage, Dequeue, DequeueLost, DequeueError, LoadOrder, SimulatedFailure,
           StartProcessing, MarkProcessed, Requeue, DeadLetter, LoopTop, WorkerAt, TypeOK, WorkerState
  <2>4. CASE WorkerCrash \/ Restart
    BY <1>2, <2>4 DEF WorkerCrash, Restart, FreshPool, WorkerAt
  <2>5. CASE \E w \in Workers \ {v} : WorkerStep(w)
    BY <2>1, <2>5, OneWorkerMoves
  <2>6. wk' = wk \/ (\E w \in Workers : WorkerStep(w)) \/ WorkerCrash \/ Restart
    BY DEF Next, vars, HandlerStep, CreateOrder, PublishOrderCreated, ReadForTransition,
           WriteTransition, ApiCrash, Signal, Quiescent
  <2> QED
    BY <2>1, <2>2, <2>3, <2>4, <2>5, <2>6
<1>3. ASSUME NEW g \in Handlers, hd'[g].pc = "write", hd'[g].to = Shipped
      PROVE  payments'[hd'[g].order] > 0 /\ processedAt'[hd'[g].order] /\ hd'[g].order \notin Declined
  <2>1. CASE hd'[g] = hd[g]
    BY <1>3, <1>k, <2>1
  <2>2. CASE \E h \in Handlers : CreateOrder(h) \/ PublishOrderCreated(h) \/ WriteTransition(h)
    <3>1. hd'[g] = hd[g]
      BY <1>3, <2>2, <1>t DEF CreateOrder, PublishOrderCreated, WriteTransition, IdleHandler, TypeOK
    <3> QED
      BY <2>1, <3>1
  <2>3. CASE \E h \in Handlers : ReadForTransition(h)
    <3>1. PICK h \in Handlers : ReadForTransition(h)
      BY <2>3
    <3>2. CASE g # h
      BY <2>1, <3>1, <3>2, <1>t DEF ReadForTransition, TypeOK
    <3>3. CASE g = h
      <4>1. hd'[g].order \in Orders /\ status[hd'[g].order] = Paid
        BY <1>3, <3>1, <3>3, <1>t
           DEF ReadForTransition, TypeOK, Required, Canceled, Shipped
      <4> QED
        BY <4>1, <1>t, <1>g DEF ChargedFirst, SettledMeansCharged
    <3> QED
      BY <3>2, <3>3
  <2>4. CASE ApiCrash
    BY <1>3, <2>4 DEF ApiCrash, IdleHandler
  <2>5. hd' = hd \/ (\E h \in Handlers : HandlerStep(h)) \/ ApiCrash
    BY OneWorkerMoves DEF Next, vars, WorkerCrash, Restart, FreshPool, Signal, Quiescent
  <2> QED
    BY <2>1, <2>2, <2>3, <2>4, <2>5 DEF HandlerStep
<1> QED
  BY <1>1, <1>2, <1>3 DEF ChargedFirst

-----------------------------------------------------------------------------

\* RowInv holds in the empty system.
LEMMA InitRowInv == Init => RowInv
<1> SUFFICES ASSUME Init PROVE RowInv
  OBVIOUS
<1>1. TypeOK
  BY InitTypeOK
<1>2. IdleNamesNone /\ NamesExist
  BY ConstantsAssumption DEF Init, IdleNamesNone, NamesExist, IdleHandler, WorkerAt
<1>3. ChargedFirst
  BY DEF Init, ChargedFirst, SettledMeansCharged, IdleHandler, WorkerAt, Absent, Paid, Shipped, Failed
<1> QED
  BY <1>1, <1>2, <1>3 DEF RowInv

\* RowInv holds in every reachable state, whatever fails.
THEOREM RowInvariant == Spec => []RowInv
<1>1. RowInv /\ [Next]_vars => RowInv'
  BY NextTypeOK, NextIdleNamesNone, NextNamesExist, NextChargedFirst DEF RowInv
<1> QED
  BY InitRowInv, <1>1, PTL DEF Spec

\* Every reachable state is well typed; in particular no message ever carries a
\* retry count above ORDER_MAX_RETRIES.
THEOREM TypeCorrect == Spec => []TypeOK
<1>1. RowInv => TypeOK
  BY DEF RowInv
<1> QED
  BY RowInvariant, <1>1, PTL

\* Whatever fails, crashes or is repeated, a message names a committed order.
THEOREM MessagesHaveRows == Spec => []MessageHasRow
<1>1. RowInv => MessageHasRow
  BY DEF RowInv, NamesExist, MessageHasRow, InFlight, Queued, Held, DeadLettered
<1> QED
  BY RowInvariant, <1>1, PTL

\* Whatever fails, crashes or is repeated, a settled order was charged, and its
\* status agrees with the result of the payment.
THEOREM SettledOrdersAreCharged == Spec => []SettledMeansCharged
<1>1. RowInv => SettledMeansCharged
  BY DEF RowInv, ChargedFirst
<1> QED
  BY RowInvariant, <1>1, PTL

-----------------------------------------------------------------------------
(* The invariant that holds while no LPUSH is repeated. *)

\* Every position of an extended list is an old one or the new last one.
LEMMA AppendElement ==
    ASSUME NEW q \in Seq(Message), NEW m
    PROVE  /\ Len(Append(q, m)) = Len(q) + 1
           /\ \A i \in 1..Len(q) + 1 :
                 \/ i \in 1..Len(q) /\ Append(q, m)[i] = q[i]
                 \/ i = Len(q) + 1 /\ Append(q, m)[i] = m
OBVIOUS

\* A worker keeps its order, drops it, or takes one from the queue.
LEMMA WorkerOrderStep ==
    ASSUME RowInv, [Next]_vars, NEW v \in Workers, ~Dequeue(v)
    PROVE  \/ wk'[v].order = None
           \/ wk'[v].order = wk[v].order /\ wk'[v].retry = wk[v].retry
<1>t. wk \in [Workers -> WorkerState] /\ wk[v] \in WorkerState
  BY DEF RowInv, TypeOK
<1>1. CASE wk'[v] = wk[v]
  BY <1>1
<1>2. CASE WorkerStep(v)
  <2>1. \/ \E pc \in WorkerPc : wk' = [wk EXCEPT ![v].pc = pc]
        \/ \E pc \in WorkerPc : wk' = [wk EXCEPT ![v] = WorkerAt(pc)]
        \/ wk' = wk
    BY <1>2 DEF WorkerStep, HandleMessage, DequeueLost, DequeueError, LoadOrder, SimulatedFailure,
           StartProcessing, ProcessPayment, MarkProcessed, Requeue, DeadLetter, LoopTop, WorkerPc
  <2>2. CASE \E pc \in WorkerPc : wk' = [wk EXCEPT ![v].pc = pc]
    BY <1>t, <2>2 DEF WorkerState
  <2>3. CASE \E pc \in WorkerPc : wk' = [wk EXCEPT ![v] = WorkerAt(pc)]
    BY <1>t, <2>3 DEF WorkerAt
  <2> QED
    BY <1>1, <2>1, <2>2, <2>3
<1>3. CASE WorkerCrash \/ Restart
  BY <1>3 DEF WorkerCrash, Restart, FreshPool, WorkerAt
<1>4. CASE \E w \in Workers \ {v} : WorkerStep(w)
  BY <1>1, <1>4, OneWorkerMoves
<1>5. wk' = wk \/ (\E w \in Workers : WorkerStep(w)) \/ WorkerCrash \/ Restart
  BY DEF Next, vars, HandlerStep, CreateOrder, PublishOrderCreated, ReadForTransition,
         WriteTransition, ApiCrash, Signal, Quiescent
<1> QED
  BY <1>1, <1>2, <1>3, <1>4, <1>5

\* What a step does to the processing queue.
LEMMA QueueStep ==
    ASSUME "pushDup" \notin FaultKinds, RowInv, [Next]_vars
    PROVE  \/ queue' = queue
           \/ \E w \in Workers :
                 /\ Dequeue(w) \/ DequeueLost(w)
                 /\ queue # <<>> /\ queue' = Tail(queue)
           \/ \E h \in Handlers :
                 /\ PublishOrderCreated(h)
                 /\ queue' = Append(queue, [order |-> hd[h].order, retry |-> 0])
           \/ \E w \in Workers :
                 /\ Requeue(w)
                 /\ queue' = Append(queue, [order |-> wk[w].order, retry |-> NextRetry(wk[w].retry)])
<1>d. \A x \in PushOutcomes : x # "pushDup"
  BY DEF PushOutcomes
<1>1. ASSUME NEW h \in Handlers, PublishOrderCreated(h)
      PROVE  queue' \in {queue, Append(queue, [order |-> hd[h].order, retry |-> 0])}
  BY <1>1, <1>d, LPushOnce DEF PublishOrderCreated
<1>2. ASSUME NEW w \in Workers, Requeue(w)
      PROVE  queue' \in {queue, Append(queue, [order |-> wk[w].order, retry |-> NextRetry(wk[w].retry)])}
  BY <1>2, <1>d, LPushOnce DEF Requeue
<1>3. ASSUME NEW w \in Workers, Dequeue(w) \/ DequeueLost(w)
      PROVE  queue # <<>> /\ queue' = Tail(queue)
  BY <1>3 DEF Dequeue, DequeueLost
<1>4. \/ queue' = queue
      \/ \E h \in Handlers : PublishOrderCreated(h)
      \/ \E w \in Workers : Requeue(w) \/ Dequeue(w) \/ DequeueLost(w)
  BY DEF Next, vars, HandlerStep, WorkerStep, HandleMessage, CreateOrder, ReadForTransition,
         WriteTransition, DequeueError, LoadOrder, SimulatedFailure, StartProcessing,
         ProcessPayment, MarkProcessed, DeadLetter, ApiCrash, WorkerCrash, Restart, FreshPool,
         Signal, Quiescent
<1> QED
  BY <1>1, <1>2, <1>3, <1>4

\* Every step keeps at most one live message per order.
LEMMA NextOneToken ==
    ASSUME "pushDup" \notin FaultKinds, TokenInv, [Next]_vars PROVE OneToken'
<1>t. RowInv /\ OneToken /\ PublishingIsFresh /\ TypeOK /\ IdleNamesNone
  BY DEF TokenInv, RowInv
<1>q. queue \in Seq(Message) /\ \A i \in 1..Len(queue) : queue[i].order \in Orders
  BY <1>t, ListOrders DEF TypeOK
<1>n. None \notin Orders
  BY ConstantsAssumption
<1>1. CASE \E w \in Workers : Dequeue(w)
  <2>1. PICK w \in Workers : Dequeue(w)
    BY <1>1
  <2>2. 1 \in 1..Len(queue) /\ \A i \in 1..Len(queue') : i + 1 \in 1..Len(queue) /\ queue'[i] = queue[i + 1]
    BY <1>q, <2>1, TailElement DEF Dequeue
  <2>3. wk'[w].order = queue[1].order /\ \A v \in Workers \ {w} : wk'[v] = wk[v]
    BY <1>q, <1>t, <2>1, TailElement DEF Dequeue, TypeOK
  <2>4. \A i, j \in 1..Len(queue') : queue'[i].order = queue'[j].order => i = j
    <3> SUFFICES ASSUME NEW i \in 1..Len(queue'), NEW j \in 1..Len(queue'),
                        queue'[i].order = queue'[j].order
                 PROVE  i = j
      OBVIOUS
    <3>1. queue[i + 1].order = queue[j + 1].order
      BY <2>2
    <3>2. i + 1 = j + 1
      BY <2>2, <3>1, <1>t DEF OneToken
    <3> QED
      BY <3>2
  <2>5. \A u, v \in Workers : wk'[u].order \in Orders /\ wk'[u].order = wk'[v].order => u = v
    BY <2>2, <2>3, <1>t DEF OneToken
  <2>6. \A i \in 1..Len(queue') : queue'[i].order # queue[1].order
    BY <2>2, <1>t DEF OneToken
  <2>7. \A i \in 1..Len(queue'), v \in Workers : wk'[v].order # queue'[i].order
    BY <2>2, <2>3, <2>6, <1>t DEF OneToken
  <2> QED
    BY <2>4, <2>5, <2>7 DEF OneToken
<1>2. CASE ~ \E w \in Workers : Dequeue(w)
  <2>1. \A v \in Workers : wk'[v].order \in {wk[v].order, None}
    BY <1>2, <1>t, WorkerOrderStep
  <2>2. \A u, v \in Workers : wk'[u].order \in Orders /\ wk'[u].order = wk'[v].order => u = v
    BY <2>1, <1>t, <1>n DEF OneToken
  <2>3. CASE queue' = queue
    BY <2>1, <2>2, <2>3, <1>t, <1>q, <1>n DEF OneToken
  <2>4. CASE queue # <<>> /\ queue' = Tail(queue)
    <3>1. \A i \in 1..Len(queue') : i + 1 \in 1..Len(queue) /\ queue'[i] = queue[i + 1]
      BY <1>q, <2>4, TailElement
    <3>2. \A i, j \in 1..Len(queue') : queue'[i].order = queue'[j].order => i = j
      BY <3>1, <1>t DEF OneToken
    <3>3. \A i \in 1..Len(queue'), v \in Workers : wk'[v].order # queue'[i].order
      BY <3>1, <2>1, <1>t, <1>q, <1>n DEF OneToken
    <3> QED
      BY <2>2, <3>2, <3>3 DEF OneToken
  <2>5. ASSUME NEW m, queue' = Append(queue, m), m.order \in Orders,
               \A i \in 1..Len(queue) : queue[i].order # m.order,
               \A v \in Workers : wk'[v].order # m.order
        PROVE  OneToken'
    <3>1. \A i \in 1..Len(queue') : \/ i \in 1..Len(queue) /\ queue'[i] = queue[i]
                                    \/ i = Len(queue) + 1 /\ queue'[i] = m
      BY <2>5, <1>q, AppendElement
    <3>2. \A i, j \in 1..Len(queue') : queue'[i].order = queue'[j].order => i = j
      BY <3>1, <2>5, <1>t DEF OneToken
    <3>3. \A i \in 1..Len(queue'), v \in Workers : wk'[v].order # queue'[i].order
      BY <3>1, <2>1, <2>5, <1>t, <1>q, <1>n DEF OneToken
    <3> QED
      BY <2>2, <3>2, <3>3 DEF OneToken
  <2>6. ASSUME NEW h \in Handlers, PublishOrderCreated(h),
               queue' = Append(queue, [order |-> hd[h].order, retry |-> 0])
        PROVE  OneToken'
    <3>1. hd[h].order \in Orders
      BY <2>6, <1>t DEF PublishOrderCreated, TypeOK, IdleNamesNone, HandlerState
    <3>2. \A i \in 1..Len(queue) : queue[i].order # hd[h].order
      BY <2>6, <1>t DEF PublishOrderCreated, PublishingIsFresh
    <3>3. \A v \in Workers : wk'[v].order # hd[h].order
      BY <2>6, <1>t DEF PublishOrderCreated, PublishingIsFresh
    <3> QED
      BY <2>5, <2>6, <3>1, <3>2, <3>3
  <2>7. ASSUME NEW w \in Workers, Requeue(w),
               queue' = Append(queue, [order |-> wk[w].order, retry |-> NextRetry(wk[w].retry)])
        PROVE  OneToken'
    <3>1. wk[w].order \in Orders
      BY <2>7, <1>t DEF Requeue, TypeOK, IdleNamesNone, WorkerState
    <3>2. \A i \in 1..Len(queue) : queue[i].order # wk[w].order
      BY <1>t DEF OneToken
    <3>3. wk'[w].order = None
      BY <2>7, <1>t DEF Requeue, LoopTop, WorkerAt, TypeOK
    <3>4. \A v \in Workers : wk'[v].order # wk[w].order
      BY <2>1, <3>1, <3>3, <1>t, <1>n DEF OneToken
    <3> QED
      BY <2>5, <2>7, <3>1, <3>2, <3>4
  <2> QED
    BY <2>3, <2>4, <2>6, <2>7, <1>2, <1>t, QueueStep
<1> QED
  BY <1>1, <1>2

\* A handler is about to publish because it was before, or because it just
\* created the order.
LEMMA PublishStep ==
    ASSUME RowInv, [Next]_vars, NEW h \in Handlers, hd'[h].pc = "publish"
    PROVE  hd'[h] = hd[h] \/ (CreateOrder(h) /\ hd'[h].order \in Orders /\ status[hd'[h].order] = Absent)
<1>t. hd \in [Handlers -> HandlerState]
  BY DEF RowInv, TypeOK
<1>1. CASE \E g \in Handlers : CreateOrder(g)
  <2>1. PICK g \in Handlers : CreateOrder(g)
    BY <1>1
  <2>2. PICK o \in Orders, x \in WriteOutcomes :
           /\ status[o] = Absent
           /\ hd' = IF Reported(x)
                    THEN [hd EXCEPT ![g] = [pc |-> "publish", order |-> o, to |-> None]]
                    ELSE hd
    BY <2>1 DEF CreateOrder
  <2>3. CASE h = g /\ hd' = [hd EXCEPT ![g] = [pc |-> "publish", order |-> o, to |-> None]]
    BY <1>t, <2>1, <2>2, <2>3
  <2>4. CASE hd'[h] = hd[h]
    BY <2>4
  <2> QED
    BY <1>t, <2>2, <2>3, <2>4
<1>2. CASE \E g \in Handlers : PublishOrderCreated(g) \/ ReadForTransition(g) \/ WriteTransition(g)
  BY <1>2, <1>t DEF PublishOrderCreated, ReadForTransition, WriteTransition, IdleHandler
<1>3. CASE ApiCrash
  BY <1>3 DEF ApiCrash, IdleHandler
<1>4. hd' = hd \/ (\E g \in Handlers : HandlerStep(g)) \/ ApiCrash
  BY OneWorkerMoves DEF Next, vars, WorkerCrash, Restart, FreshPool, Signal, Quiescent
<1> QED
  BY <1>1, <1>2, <1>3, <1>4 DEF HandlerStep

\* Every step keeps the order of a handler about to publish untouched by others.
LEMMA NextPublishingIsFresh ==
    ASSUME "pushDup" \notin FaultKinds, TokenInv, [Next]_vars PROVE PublishingIsFresh'
<1>t. RowInv /\ OneToken /\ PublishingIsFresh /\ TypeOK /\ IdleNamesNone /\ NamesExist
  BY DEF TokenInv, RowInv
<1>q. queue \in Seq(Message) /\ \A i \in 1..Len(queue) : queue[i].order \in Orders
  BY <1>t, ListOrders DEF TypeOK
<1>n. None \notin Orders
  BY ConstantsAssumption
<1>h. \A h \in Handlers : hd[h].pc # "idle" => hd[h].order \in Orders
  BY <1>t DEF TypeOK, IdleNamesNone, HandlerState
<1> SUFFICES ASSUME NEW h \in Handlers, hd'[h].pc = "publish"
             PROVE  /\ attempts'[hd'[h].order] = 0
                    /\ \A i \in 1..Len(queue') : queue'[i].order # hd'[h].order
                    /\ \A w \in Workers : wk'[w].order # hd'[h].order
                    /\ \A g \in Handlers : hd'[g].pc = "publish" /\ hd'[g].order = hd'[h].order => g = h
  BY DEF PublishingIsFresh
<1>1. CASE CreateOrder(h)
  <2>1. UNCHANGED <<queue, wk, attempts>> /\ \A g \in Handlers \ {h} : hd'[g] = hd[g]
    BY <1>1, <1>t DEF CreateOrder, TypeOK
  <2>2. hd'[h].order \in Orders /\ status[hd'[h].order] = Absent
    <3>1. hd[h].pc # hd'[h].pc
      BY <1>1 DEF CreateOrder
    <3> QED
      BY <1>t, <3>1, PublishStep
  <2>3. attempts[hd'[h].order] = 0
    BY <2>2 DEF TokenInv, RetryCountsAttempts
  <2>4. \A i \in 1..Len(queue) : queue[i].order # hd'[h].order
    BY <2>2, <1>t DEF NamesExist
  <2>5. \A w \in Workers : wk[w].order # hd'[h].order
    BY <2>2, <1>t DEF NamesExist
  <2>6. \A g \in Handlers \ {h} : hd[g].pc = "publish" => hd[g].order # hd'[h].order
    BY <2>2, <1>t DEF NamesExist
  <2> QED
    BY <2>1, <2>3, <2>4, <2>5, <2>6
<1>2. CASE ~CreateOrder(h)
  <2>1. hd'[h] = hd[h] /\ hd[h].pc = "publish"
    BY <1>2, <1>t, PublishStep
  <2> DEFINE o == hd[h].order
  <2>2. /\ o \in Orders /\ status[o] # Absent
        /\ attempts[o] = 0
        /\ \A i \in 1..Len(queue) : queue[i].order # o
        /\ \A w \in Workers : wk[w].order # o
        /\ \A g \in Handlers : hd[g].pc = "publish" /\ hd[g].order = o => g = h
    BY <2>1, <1>t, <1>h DEF PublishingIsFresh, NamesExist
  <2>3. \A g \in Handlers : hd'[g].pc = "publish" /\ hd'[g].order = o => g = h
    BY <2>2, <1>t, PublishStep
  <2>4. attempts'[o] = 0 /\ \A w \in Workers : wk'[w].order # o
    <3>1. CASE \E w \in Workers : Dequeue(w)
      <4>1. PICK w \in Workers : Dequeue(w)
        BY <3>1
      <4>2. Head(queue) = queue[1] /\ 1 \in 1..Len(queue)
        BY <1>q, <4>1, TailElement DEF Dequeue
      <4>3. queue[1].order # o
        BY <2>2, <4>2
      <4> QED
        BY <1>t, <2>2, <4>1, <4>2, <4>3 DEF Dequeue, TypeOK
    <3>2. CASE ~ \E w \in Workers : Dequeue(w)
      <4>1. attempts' = attempts
        BY <3>2 DEF Next, vars, HandlerStep, WorkerStep, HandleMessage, CreateOrder, PublishOrderCreated,
           ReadForTransition, WriteTransition, DequeueLost, DequeueError, LoadOrder, SimulatedFailure,
           StartProcessing, ProcessPayment, MarkProcessed, Requeue, DeadLetter, ApiCrash, WorkerCrash,
           Restart, FreshPool, Signal, Quiescent
      <4>2. \A w \in Workers : wk'[w].order \in {wk[w].order, None}
        BY <3>2, <1>t, WorkerOrderStep
      <4> QED
        BY <4>1, <4>2, <2>2, <1>n
    <3> QED
      BY <3>1, <3>2
  <2>5. \A i \in 1..Len(queue') : queue'[i].order # o
    <3>1. CASE queue' = queue
      BY <3>1, <2>2
    <3>2. CASE queue # <<>> /\ queue' = Tail(queue)
      BY <3>2, <2>2, <1>q, TailElement
    <3>3. ASSUME NEW k \in Handlers, PublishOrderCreated(k),
                 queue' = Append(queue, [order |-> hd[k].order, retry |-> 0])
          PROVE  \A i \in 1..Len(queue') : queue'[i].order # o
      <4>1. hd'[k].pc = "idle" /\ hd[k].pc = "publish"
        BY <3>3, <1>t DEF PublishOrderCreated, IdleHandler, TypeOK
      <4>2. hd[k].order # o
        BY <2>1, <2>2, <4>1
      <4> QED
        BY <3>3, <2>2, <4>2, <1>q, AppendElement
    <3>4. ASSUME NEW w \in Workers, Requeue(w),
                 queue' = Append(queue, [order |-> wk[w].order, retry |-> NextRetry(wk[w].retry)])
          PROVE  \A i \in 1..Len(queue') : queue'[i].order # o
      BY <3>4, <2>2, <1>q, AppendElement
    <3> QED
      BY <3>1, <3>2, <3>3, <3>4, <1>t, QueueStep
  <2> QED
    BY <2>1, <2>3, <2>4, <2>5
<1> QED
  BY <1>1, <1>2

\* The number of attempts changes only when a message is taken.
LEMMA AttemptsStep ==
    ASSUME [Next]_vars, ~ \E w \in Workers : Dequeue(w)
    PROVE  attempts' = attempts
BY DEF Next, vars, HandlerStep, WorkerStep, HandleMessage, CreateOrder, PublishOrderCreated,
       ReadForTransition, WriteTransition, DequeueLost, DequeueError, LoadOrder, SimulatedFailure,
       StartProcessing, ProcessPayment, MarkProcessed, Requeue, DeadLetter, ApiCrash, WorkerCrash,
       Restart, FreshPool, Signal, Quiescent

\* Every step keeps retry counts and attempts in agreement.
LEMMA NextRetryCountsAttempts ==
    ASSUME "pushDup" \notin FaultKinds, TokenInv, [Next]_vars PROVE RetryCountsAttempts'
<1>t. RowInv /\ OneToken /\ PublishingIsFresh /\ RetryCountsAttempts /\ TypeOK /\ IdleNamesNone /\ NamesExist
  BY DEF TokenInv, RowInv
<1>q. /\ queue \in Seq(Message) /\ dlq \in Seq(Message)
      /\ \A i \in 1..Len(queue) : queue[i].order \in Orders /\ queue[i].retry \in 0..MaxRetries
      /\ \A i \in 1..Len(dlq) : dlq[i].order \in Orders
  BY <1>t, ListOrders DEF TypeOK
<1>a. attempts \in [Orders -> Nat]
  BY <1>t DEF TypeOK
<1>r. \A o \in Orders : status'[o] = Absent => status[o] = Absent
  BY <1>t, NextRowsOnlyGrow DEF RowsOnlyGrow
<1> USE MaxRetriesAssumption
<1>1. CASE \E w \in Workers : Dequeue(w)
  <2>1. PICK w \in Workers : Dequeue(w)
    BY <1>1
  <2>2. /\ 1 \in 1..Len(queue) /\ Head(queue) = queue[1]
        /\ \A i \in 1..Len(queue') : i + 1 \in 1..Len(queue) /\ queue'[i] = queue[i + 1]
    BY <1>q, <2>1, TailElement DEF Dequeue
  <2> DEFINE o == queue[1].order
  <2>3. /\ wk'[w].order = o /\ wk'[w].retry = queue[1].retry
        /\ \A v \in Workers \ {w} : wk'[v] = wk[v]
        /\ attempts' = [attempts EXCEPT ![o] = attempts[o] + 1]
        /\ UNCHANGED <<status, dlq>>
    BY <1>t, <2>1, <2>2 DEF Dequeue, TypeOK
  <2>4. o \in Orders /\ status[o] # Absent /\ queue[1].retry = attempts[o] /\ attempts[o] \in 0..MaxRetries
    BY <1>q, <1>t, <2>2 DEF NamesExist, RetryCountsAttempts
  <2>5. attempts'[o] = attempts[o] + 1 /\ \A p \in Orders \ {o} : attempts'[p] = attempts[p]
    BY <1>a, <2>3, <2>4
  <2>6. \A p \in Orders : status'[p] = Absent => attempts'[p] = 0
    BY <1>t, <2>3, <2>4, <2>5 DEF RetryCountsAttempts
  <2>7. \A i \in 1..Len(queue') : queue'[i].retry = attempts'[queue'[i].order]
    <3> SUFFICES ASSUME NEW i \in 1..Len(queue') PROVE queue[i + 1].retry = attempts'[queue[i + 1].order]
      BY <2>2
    <3>1. i + 1 \in 1..Len(queue) /\ i + 1 # 1
      BY <2>2
    <3>2. queue[i + 1].order # o
      BY <3>1, <2>2, <1>t DEF OneToken
    <3> QED
      BY <3>1, <3>2, <2>5, <1>q, <1>t DEF RetryCountsAttempts
  <2>8. \A v \in Workers : wk'[v].order \in Orders => wk'[v].retry + 1 = attempts'[wk'[v].order]
    <3>1. wk'[w].retry + 1 = attempts'[wk'[w].order]
      BY <2>3, <2>4, <2>5
    <3>2. ASSUME NEW v \in Workers \ {w}, wk[v].order \in Orders PROVE wk[v].retry + 1 = attempts'[wk[v].order]
      BY <3>2, <2>2, <2>5, <1>t DEF OneToken, RetryCountsAttempts
    <3> QED
      BY <2>3, <3>1, <3>2
  <2>9. DeadLetterExhausted'
    BY <2>3, <2>4, <2>5, <1>q, <1>t DEF RetryCountsAttempts, DeadLetterExhausted
  <2> QED
    BY <2>6, <2>7, <2>8, <2>9 DEF RetryCountsAttempts
<1>2. CASE ~ \E w \in Workers : Dequeue(w)
  <2>1. attempts' = attempts
    BY <1>2, AttemptsStep
  <2>2. \A p \in Orders : status'[p] = Absent => attempts'[p] = 0
    BY <2>1, <1>t, <1>r DEF RetryCountsAttempts
  <2>3. \A v \in Workers : wk'[v].order \in Orders => wk'[v].retry + 1 = attempts'[wk'[v].order]
    BY <2>1, <1>2, <1>t, WorkerOrderStep, ConstantsAssumption DEF RetryCountsAttempts
  <2>4. \A i \in 1..Len(queue') : queue'[i].retry = attempts'[queue'[i].order]
    <3>1. CASE queue' = queue
      BY <3>1, <2>1, <1>t DEF RetryCountsAttempts
    <3>2. CASE queue # <<>> /\ queue' = Tail(queue)
      BY <3>2, <2>1, <1>t, <1>q, TailElement DEF RetryCountsAttempts
    <3>3. ASSUME NEW h \in Handlers, PublishOrderCreated(h),
                 queue' = Append(queue, [order |-> hd[h].order, retry |-> 0])
          PROVE  \A i \in 1..Len(queue') : queue'[i].retry = attempts'[queue'[i].order]
      <4>1. attempts[hd[h].order] = 0
        BY <3>3, <1>t DEF PublishOrderCreated, PublishingIsFresh
      <4> QED
        BY <3>3, <4>1, <2>1, <1>t, <1>q, AppendElement DEF RetryCountsAttempts
    <3>4. ASSUME NEW w \in Workers, Requeue(w),
                 queue' = Append(queue, [order |-> wk[w].order, retry |-> NextRetry(wk[w].retry)])
          PROVE  \A i \in 1..Len(queue') : queue'[i].retry = attempts'[queue'[i].order]
      <4>1. wk[w].order \in Orders
        BY <3>4, <1>t DEF Requeue, TypeOK, IdleNamesNone, WorkerState
      <4>2. NextRetry(wk[w].retry) = attempts[wk[w].order]
        BY <4>1, <1>t DEF RetryCountsAttempts, NextRetry
      <4> QED
        BY <3>4, <4>2, <2>1, <1>t, <1>q, AppendElement DEF RetryCountsAttempts
    <3> QED
      BY <3>1, <3>2, <3>3, <3>4, <1>t, QueueStep
  <2>5. DeadLetterExhausted'
    <3>1. CASE dlq' = dlq
      BY <3>1, <2>1, <1>t DEF RetryCountsAttempts, DeadLetterExhausted
    <3>2. ASSUME NEW w \in Workers, DeadLetter(w) PROVE DeadLetterExhausted'
      <4> DEFINE m == [order |-> wk[w].order, retry |-> wk[w].retry]
      <4>1. PICK x \in PushOutcomes : dlq' = LPush(dlq, m, x)
        BY <3>2 DEF DeadLetter
      <4>2. dlq' \in {dlq, Append(dlq, m)}
        BY <4>1, LPushOnce DEF PushOutcomes
      <4>3. wk[w].order \in Orders /\ wk[w].retry \in 0..MaxRetries
        BY <3>2, <1>t DEF DeadLetter, TypeOK, IdleNamesNone, WorkerState
      <4>4. wk[w].retry = MaxRetries
        BY <3>2, <4>3 DEF DeadLetter, MayRetry
      <4>5. attempts[wk[w].order] = MaxRetries + 1
        BY <4>3, <4>4, <1>t DEF RetryCountsAttempts
      <4>6. CASE dlq' = Append(dlq, m)
        BY <4>4, <4>5, <4>6, <2>1, <1>q, <1>t, AppendElement DEF RetryCountsAttempts, DeadLetterExhausted
      <4> QED
        BY <3>1, <4>2, <4>6
    <3>3. dlq' = dlq \/ \E w \in Workers : DeadLetter(w)
      BY DEF Next, vars, HandlerStep, WorkerStep, HandleMessage, CreateOrder, PublishOrderCreated,
         ReadForTransition, WriteTransition, Dequeue, DequeueLost, DequeueError, LoadOrder, SimulatedFailure,
         StartProcessing, ProcessPayment, MarkProcessed, Requeue, ApiCrash, WorkerCrash,
         Restart, FreshPool, Signal, Quiescent
    <3> QED
      BY <3>1, <3>2, <3>3
  <2> QED
    BY <2>2, <2>3, <2>4, <2>5 DEF RetryCountsAttempts
<1> QED
  BY <1>1, <1>2

\* Who writes the status of an order, and what.
LEMMA StatusStep ==
    ASSUME RowInv, [Next]_vars, NEW o \in Orders, status'[o] # status[o]
    PROVE  \/ status[o] = Absent /\ status'[o] = Created /\ \E h \in Handlers : CreateOrder(h)
           \/ \E h \in Handlers : /\ WriteTransition(h)
                                  /\ hd[h].pc = "write" /\ hd[h].order = o
                                  /\ hd[h].to \in {Canceled, Shipped} /\ status'[o] = hd[h].to
           \/ \E w \in Workers : /\ StartProcessing(w)
                                 /\ wk[w].pc = "start" /\ wk[w].order = o
                                 /\ status'[o] = Processing
           \/ \E w \in Workers : /\ MarkProcessed(w)
                                 /\ wk[w].pc = "finish" /\ wk[w].order = o
                                 /\ status'[o] = Outcome(o)
<1>t. TypeOK /\ IdleNamesNone
  BY DEF RowInv
<1>u. ASSUME NEW p \in Orders, NEW s, NEW x, UpdateStatus(p, s, x)
      PROVE  p = o /\ status'[o] = s
  BY <1>u, <1>t DEF UpdateStatus, TypeOK
<1>1. CASE \E h \in Handlers : CreateOrder(h)
  BY <1>1, <1>u DEF CreateOrder
<1>2. CASE \E h \in Handlers : WriteTransition(h)
  <2>1. PICK h \in Handlers : WriteTransition(h)
    BY <1>2
  <2>2. hd[h].order \in Orders /\ hd[h].to \in {Canceled, Shipped}
    BY <2>1, <1>t DEF WriteTransition, TypeOK, IdleNamesNone, HandlerState
  <2> QED
    BY <2>1, <2>2, <1>u DEF WriteTransition
<1>w. \A w \in Workers : wk[w].pc \in {"start", "finish"} => wk[w].order \in Orders
  BY <1>t DEF TypeOK, IdleNamesNone, WorkerState
<1>3. CASE \E w \in Workers : StartProcessing(w)
  BY <1>3, <1>u, <1>w DEF StartProcessing
<1>4. CASE \E w \in Workers : MarkProcessed(w)
  BY <1>4, <1>u, <1>w DEF MarkProcessed
<1> QED
  BY <1>1, <1>2, <1>3, <1>4
     DEF Next, vars, HandlerStep, WorkerStep, HandleMessage, PublishOrderCreated, ReadForTransition,
         Dequeue, DequeueLost, DequeueError, LoadOrder, SimulatedFailure, ProcessPayment, Requeue,
         DeadLetter, ApiCrash, WorkerCrash, Restart, FreshPool, Signal, Quiescent

\* Who charges an order.
LEMMA PaymentStep ==
    ASSUME RowInv, [Next]_vars, NEW o \in Orders, payments'[o] # payments[o]
    PROVE  /\ \E w \in Workers : wk[w].pc = "pay" /\ wk[w].order = o /\ ProcessPayment(w)
           /\ payments'[o] = payments[o] + 1
           /\ UNCHANGED <<status, processedAt>>
<1>t. TypeOK /\ IdleNamesNone
  BY DEF RowInv
<1>1. PICK w \in Workers : ProcessPayment(w)
  BY DEF Next, vars, HandlerStep, WorkerStep, HandleMessage, CreateOrder, PublishOrderCreated,
         ReadForTransition, WriteTransition, Dequeue, DequeueLost, DequeueError, LoadOrder,
         SimulatedFailure, StartProcessing, MarkProcessed, Requeue, DeadLetter, ApiCrash,
         WorkerCrash, Restart, FreshPool, Signal, Quiescent
<1> QED
  BY <1>1, <1>t DEF ProcessPayment, TypeOK

\* Who sets processed_at.
LEMMA ProcessedStep ==
    ASSUME RowInv, [Next]_vars, NEW o \in Orders, processedAt'[o] # processedAt[o]
    PROVE  /\ \E w \in Workers : wk[w].pc = "finish" /\ wk[w].order = o /\ MarkProcessed(w)
           /\ status'[o] = Outcome(o)
<1>t. TypeOK /\ IdleNamesNone
  BY DEF RowInv
<1>1. PICK w \in Workers : MarkProcessed(w)
  BY DEF Next, vars, HandlerStep, WorkerStep, HandleMessage, CreateOrder, PublishOrderCreated,
         ReadForTransition, WriteTransition, Dequeue, DequeueLost, DequeueError, LoadOrder,
         SimulatedFailure, StartProcessing, ProcessPayment, Requeue, DeadLetter, ApiCrash,
         WorkerCrash, Restart, FreshPool, Signal, Quiescent
<1>2. PICK x \in WriteOutcomes :
         /\ UpdateStatus(wk[w].order, Outcome(wk[w].order), x)
         /\ processedAt' = IF x = "dbFail" THEN processedAt
                           ELSE [processedAt EXCEPT ![wk[w].order] = TRUE]
  BY <1>1 DEF MarkProcessed
<1>3. o = wk[w].order /\ x # "dbFail"
  BY <1>2, <1>t DEF TypeOK
<1> QED
  BY <1>1, <1>2, <1>3, <1>t DEF MarkProcessed, UpdateStatus, TypeOK

\* Every step keeps orders charged at most once and charged orders off CREATED.
LEMMA NextChargedOnce ==
    ASSUME TokenInv, [Next]_vars PROVE ChargedOnce'
<1>t. RowInv /\ TypeOK /\ ChargedFirst /\ ChargedOnce /\ WorkerKnows
  BY DEF TokenInv, RowInv
<1> SUFFICES ASSUME NEW o \in Orders
             PROVE  /\ payments'[o] <= 1
                    /\ payments'[o] > 0 => status'[o] \notin {Absent, Created}
                    /\ processedAt'[o] => status'[o] \notin {Absent, Created, Processing}
  BY DEF ChargedOnce
<1>p. payments[o] \in Nat /\ processedAt[o] \in BOOLEAN /\ processedAt'[o] \in BOOLEAN
  BY <1>t, NextTypeOK DEF TypeOK
<1> USE DEF Absent, Created, Processing, Paid, Shipped, Canceled, Failed
<1>1. CASE payments'[o] # payments[o]
  <2>1. PICK w \in Workers : wk[w].pc = "pay" /\ wk[w].order = o
    BY <1>1, <1>t, PaymentStep
  <2>2. payments[o] = 0 /\ status[o] \in {Processing, Canceled} /\ ~processedAt[o]
    BY <2>1, <1>t DEF WorkerKnows
  <2> QED
    BY <1>1, <1>t, <2>2, PaymentStep
<1>2. CASE payments'[o] = payments[o] /\ status'[o] = status[o]
  <2>1. CASE processedAt'[o] = processedAt[o]
    BY <1>2, <2>1, <1>t DEF ChargedOnce
  <2>2. CASE processedAt'[o] # processedAt[o]
    BY <1>2, <2>2, <1>t, ProcessedStep DEF ChargedOnce, Outcome
  <2> QED
    BY <2>1, <2>2
<1>3. CASE payments'[o] = payments[o] /\ status'[o] # status[o]
  <2>1. CASE status[o] = Absent /\ \E h \in Handlers : CreateOrder(h)
    <3>1. processedAt' = processedAt
      BY <2>1 DEF CreateOrder
    <3> QED
      BY <1>3, <1>p, <2>1, <3>1, <1>t DEF ChargedOnce
  <2>2. CASE status'[o] \in {Canceled, Shipped, Paid, Failed}
    BY <1>3, <2>2, <1>t DEF ChargedOnce
  <2>3. CASE \E w \in Workers : StartProcessing(w) /\ wk[w].pc = "start" /\ wk[w].order = o /\ status'[o] = Processing
    <3>1. processedAt' = processedAt /\ ~processedAt[o]
      BY <2>3, <1>t DEF StartProcessing, WorkerKnows
    <3> QED
      BY <1>3, <2>3, <3>1, <1>t DEF ChargedOnce
  <2> QED
    BY <1>3, <2>1, <2>2, <2>3, <1>t, StatusStep DEF Outcome
<1> QED
  BY <1>1, <1>2, <1>3

\* A worker reaches a stage of Process only through the stage before it.
LEMMA StageStep ==
    ASSUME RowInv, [Next]_vars, NEW v \in Workers, wk'[v].pc \in {"start", "pay", "finish"}
    PROVE  \/ wk'[v] = wk[v]
           \/ /\ wk'[v].order = wk[v].order /\ wk[v].order \in Orders
              /\ \/ wk'[v].pc = "start" /\ LoadOrder(v) /\ status[wk[v].order] = Created
                 \/ wk'[v].pc = "pay" /\ StartProcessing(v) /\ wk[v].pc = "start"
                    /\ status'[wk[v].order] = Processing
                 \/ wk'[v].pc = "finish" /\ ProcessPayment(v) /\ wk[v].pc = "pay"
<1>t. TypeOK /\ IdleNamesNone /\ wk \in [Workers -> WorkerState] /\ wk[v] \in WorkerState
  BY DEF RowInv, TypeOK
<1>o. wk[v].pc \notin {"dequeue", "stopped"} => wk[v].order \in Orders
  BY <1>t DEF IdleNamesNone, WorkerState
<1>1. CASE LoadOrder(v)
  <2>1. PICK x \in ReadOutcomes :
          wk' = [wk EXCEPT ![v] =
                    IF ~Reported(x) THEN [wk[v] EXCEPT !.pc = "retry"]
                    ELSE IF ~Processable(status[wk[v].order]) THEN LoopTop
                    ELSE [wk[v] EXCEPT !.pc = "start"]]
    BY <1>1 DEF LoadOrder
  <2>2. LoopTop.pc \in {"stopped", "dequeue"} /\ [wk[v] EXCEPT !.pc = "retry"].pc = "retry"
    BY <1>t DEF LoopTop, WorkerAt, WorkerState
  <2>3. Processable(status[wk[v].order]) /\ wk'[v] = [wk[v] EXCEPT !.pc = "start"]
    BY <1>t, <2>1, <2>2
  <2> QED
    BY <1>1, <1>t, <1>o, <2>3 DEF LoadOrder, Processable, WorkerState
<1>2. CASE StartProcessing(v)
  <2>1. PICK x \in WriteOutcomes :
           /\ UpdateStatus(wk[v].order, Processing, x)
           /\ wk' = [wk EXCEPT ![v].pc = IF Reported(x) THEN "pay" ELSE "retry"]
    BY <1>2 DEF StartProcessing
  <2>2. Reported(x) /\ wk'[v].pc = "pay" /\ wk'[v].order = wk[v].order
    BY <1>t, <2>1 DEF WorkerState
  <2>3. wk[v].pc = "start" /\ wk[v].order \in Orders
    BY <1>2, <1>o DEF StartProcessing
  <2>4. status'[wk[v].order] = Processing
    BY <2>1, <2>2, <2>3, <1>t DEF UpdateStatus, Reported, TypeOK
  <2> QED
    BY <1>2, <2>2, <2>3, <2>4
<1>3. CASE ProcessPayment(v)
  BY <1>3, <1>t, <1>o DEF ProcessPayment, WorkerState
<1>4. CASE WorkerStep(v) /\ ~LoadOrder(v) /\ ~StartProcessing(v) /\ ~ProcessPayment(v)
  <2>1. \/ \E pc \in WorkerPc \ {"start", "pay", "finish"} : wk' = [wk EXCEPT ![v].pc = pc]
        \/ \E pc \in {"dequeue", "stopped"} : wk' = [wk EXCEPT ![v] = WorkerAt(pc)]
        \/ Dequeue(v)
    BY <1>4 DEF WorkerStep, HandleMessage, DequeueLost, DequeueError, SimulatedFailure,
           MarkProcessed, Requeue, DeadLetter, LoopTop, WorkerPc
  <2> QED
    BY <2>1, <1>t DEF WorkerAt, Dequeue, WorkerState, WorkerPc
<1>5. CASE WorkerCrash \/ Restart
  BY <1>5 DEF WorkerCrash, Restart, FreshPool, WorkerAt
<1>6. CASE \E w \in Workers \ {v} : WorkerStep(w)
  BY <1>6, OneWorkerMoves
<1>7. wk' = wk \/ (\E w \in Workers : WorkerStep(w)) \/ WorkerCrash \/ Restart
  BY DEF Next, vars, HandlerStep, CreateOrder, PublishOrderCreated, ReadForTransition,
         WriteTransition, ApiCrash, Signal, Quiescent
<1> QED
  BY <1>1, <1>2, <1>3, <1>4, <1>5, <1>6, <1>7

\* A worker that writes a row leaves the stage it is in.
LEMMA WritersMove ==
    ASSUME RowInv, NEW v \in Workers, StartProcessing(v) \/ ProcessPayment(v) \/ MarkProcessed(v)
    PROVE  wk'[v].pc # wk[v].pc
<1>t. wk \in [Workers -> WorkerState] /\ wk[v] \in WorkerState
  BY DEF RowInv, TypeOK
<1>1. \/ \E pc \in {"pay", "retry"} : wk[v].pc = "start" /\ wk' = [wk EXCEPT ![v].pc = pc]
      \/ wk[v].pc = "pay" /\ wk' = [wk EXCEPT ![v].pc = "finish"]
      \/ wk[v].pc = "finish" /\ wk' = [wk EXCEPT ![v].pc = "retry"]
      \/ wk[v].pc = "finish" /\ wk' = [wk EXCEPT ![v] = LoopTop]
  BY DEF StartProcessing, ProcessPayment, MarkProcessed
<1>2. LoopTop.pc \in {"stopped", "dequeue"}
  BY DEF LoopTop, WorkerAt
<1> QED
  BY <1>t, <1>1, <1>2 DEF WorkerState

\* Every step keeps what a worker knows of the order it holds.
LEMMA NextWorkerKnows ==
    ASSUME TokenInv, [Next]_vars PROVE WorkerKnows'
<1>t. RowInv /\ TypeOK /\ IdleNamesNone /\ ChargedFirst /\ OneToken /\ ChargedOnce /\ WorkerKnows
  BY DEF TokenInv, RowInv
<1>b. \A o \in Orders : /\ payments[o] \in Nat /\ payments'[o] \in Nat
                        /\ processedAt[o] \in BOOLEAN /\ processedAt'[o] \in BOOLEAN
  BY <1>t, NextTypeOK DEF TypeOK
<1>o. \A w \in Workers : wk[w].pc \notin {"dequeue", "stopped"} => wk[w].order \in Orders
  BY <1>t DEF TypeOK, IdleNamesNone, WorkerState
<1> USE DEF Absent, Created, Processing, Paid, Shipped, Canceled, Failed
<1>1. ASSUME NEW v \in Workers, wk[v].pc \in {"start", "pay", "finish"}, wk'[v].pc = wk[v].pc
      PROVE  LET o == wk[v].order
             IN  /\ status'[o] \in {status[o], Canceled}
                 /\ payments'[o] = payments[o]
                 /\ processedAt'[o] = processedAt[o]
  <2> DEFINE o == wk[v].order
  <2>1. o \in Orders /\ status[o] # Absent /\ ~processedAt[o]
    BY <1>1, <1>o, <1>t DEF WorkerKnows
  <2>2. \A w \in Workers : wk[w].order = o => ~StartProcessing(w) /\ ~ProcessPayment(w) /\ ~MarkProcessed(w)
    BY <1>1, <2>1, <1>t, WritersMove DEF OneToken
  <2>3. payments'[o] = payments[o]
    BY <2>1, <2>2, <1>t, PaymentStep
  <2>4. processedAt'[o] = processedAt[o]
    BY <2>1, <2>2, <1>t, ProcessedStep
  <2>5. \A h \in Handlers : hd[h].pc = "write" /\ hd[h].order = o => hd[h].to # Shipped
    BY <2>1, <1>t DEF ChargedFirst
  <2>6. status'[o] \in {status[o], Canceled}
    BY <2>1, <2>2, <2>5, <1>t, StatusStep
  <2> QED
    BY <2>3, <2>4, <2>6
<1> SUFFICES ASSUME NEW v \in Workers
             PROVE  /\ wk'[v].pc = "start" => /\ status'[wk'[v].order] \in {Created, Canceled}
                                              /\ payments'[wk'[v].order] = 0
                                              /\ ~processedAt'[wk'[v].order]
                    /\ wk'[v].pc = "pay" => /\ status'[wk'[v].order] \in {Processing, Canceled}
                                            /\ payments'[wk'[v].order] = 0
                                            /\ ~processedAt'[wk'[v].order]
                    /\ wk'[v].pc = "finish" => /\ status'[wk'[v].order] \in {Processing, Canceled}
                                               /\ ~processedAt'[wk'[v].order]
  BY DEF WorkerKnows
<1>2. CASE wk'[v].pc \notin {"start", "pay", "finish"}
  BY <1>2
<1>3. CASE wk'[v] = wk[v] /\ wk'[v].pc \in {"start", "pay", "finish"}
  BY <1>1, <1>3, <1>t DEF WorkerKnows
<1>4. CASE wk'[v].pc = "start" /\ LoadOrder(v) /\ wk'[v].order = wk[v].order
           /\ wk[v].order \in Orders /\ status[wk[v].order] = Created
  <2>1. UNCHANGED <<status, payments, processedAt>>
    BY <1>4 DEF LoadOrder
  <2>2. payments[wk[v].order] = 0 /\ ~processedAt[wk[v].order]
    BY <1>4, <1>b, <1>t DEF ChargedOnce
  <2> QED
    BY <1>4, <2>1, <2>2
<1>5. CASE wk'[v].pc = "pay" /\ StartProcessing(v) /\ wk'[v].order = wk[v].order
           /\ wk[v].pc = "start" /\ status'[wk[v].order] = Processing
  <2>1. UNCHANGED <<payments, processedAt>>
    BY <1>5 DEF StartProcessing
  <2> QED
    BY <1>5, <2>1, <1>t DEF WorkerKnows
<1>6. CASE wk'[v].pc = "finish" /\ ProcessPayment(v) /\ wk'[v].order = wk[v].order /\ wk[v].pc = "pay"
  <2>1. UNCHANGED <<status, processedAt>>
    BY <1>6 DEF ProcessPayment
  <2> QED
    BY <1>6, <2>1, <1>t DEF WorkerKnows
<1> QED
  BY <1>2, <1>3, <1>4, <1>5, <1>6, <1>t, StageStep

-----------------------------------------------------------------------------

\* TokenInv holds in the empty system.
LEMMA InitTokenInv == Init => TokenInv
<1> SUFFICES ASSUME Init PROVE TokenInv
  OBVIOUS
<1>1. RowInv
  BY InitRowInv
<1>2. OneToken /\ PublishingIsFresh /\ RetryCountsAttempts
  BY ConstantsAssumption
     DEF Init, OneToken, PublishingIsFresh, RetryCountsAttempts, DeadLetterExhausted, IdleHandler, WorkerAt
<1>3. WorkerKnows /\ ChargedOnce
  BY DEF Init, WorkerKnows, ChargedOnce, WorkerAt
<1> QED
  BY <1>1, <1>2, <1>3 DEF TokenInv

\* TokenInv is inductive as long as no LPUSH is repeated.
LEMMA NextTokenInv ==
    ASSUME "pushDup" \notin FaultKinds, TokenInv, [Next]_vars PROVE TokenInv'
<1>1. RowInv'
  BY NextTypeOK, NextIdleNamesNone, NextNamesExist, NextChargedFirst DEF RowInv, TokenInv
<1> QED
  BY <1>1, NextOneToken, NextPublishingIsFresh, NextRetryCountsAttempts, NextWorkerKnows,
     NextChargedOnce DEF TokenInv

\* As long as no LPUSH is repeated, TokenInv holds in every reachable state:
\* each order has at most one live message and at most one worker moving it.
THEOREM TokenInvariant ==
    ASSUME "pushDup" \notin FaultKinds PROVE Spec => []TokenInv
<1>1. TokenInv /\ [Next]_vars => TokenInv'
  BY NextTokenInv
<1> QED
  BY InitTokenInv, <1>1, PTL DEF Spec

\* No order is charged twice, however calls fail, processes crash and messages
\* are retried, provided the Redis client does not repeat an LPUSH.
THEOREM ChargedAtMostOnce ==
    ASSUME "pushDup" \notin FaultKinds PROVE Spec => []AtMostOnePayment
<1>1. TokenInv => AtMostOnePayment
  BY DEF TokenInv, ChargedOnce, AtMostOnePayment
<1> QED
  BY TokenInvariant, <1>1, PTL

\* A dead-lettered message carries ORDER_MAX_RETRIES and its order was attempted
\* exactly once more than that.
THEOREM DeadLettersAreExhausted ==
    ASSUME "pushDup" \notin FaultKinds PROVE Spec => []DeadLetterExhausted
<1>1. TokenInv => DeadLetterExhausted
  BY DEF TokenInv, RetryCountsAttempts
<1> QED
  BY TokenInvariant, <1>1, PTL

\* A status change outside the transition table always starts or ends at
\* CANCELED: cancellation is the only source of lost updates.
THEOREM CancelIsTheOnlyRace ==
    ASSUME "pushDup" \notin FaultKinds PROVE Spec => OnlyCancelLeavesTable
<1> DEFINE A == \A o \in Orders :
                   status[o] # Absent /\ status'[o] # status[o]
                      => \/ CanTransition(status[o], status'[o])
                         \/ Canceled \in {status[o], status'[o]}
<1>1. TokenInv /\ [Next]_vars => A
  <2> SUFFICES ASSUME TokenInv, [Next]_vars, NEW o \in Orders, status[o] # Absent, status'[o] # status[o]
               PROVE  \/ CanTransition(status[o], status'[o])
                      \/ Canceled \in {status[o], status'[o]}
    OBVIOUS
  <2>t. RowInv /\ TypeOK /\ ChargedFirst /\ WorkerKnows /\ ChargedOnce /\ status[o] \in AllStatuses
    BY DEF TokenInv, RowInv, TypeOK
  <2>1. CASE \E h \in Handlers : /\ hd[h].pc = "write" /\ hd[h].order = o
                                 /\ hd[h].to \in {Canceled, Shipped} /\ status'[o] = hd[h].to
    <3>1. CASE status'[o] = Shipped
      <4>1. processedAt[o] /\ o \notin Declined
        BY <2>1, <3>1, <2>t DEF ChargedFirst, Canceled, Shipped
      <4>2. status[o] \in {Paid, Shipped, Canceled, Failed}
        BY <4>1, <2>t DEF ChargedOnce, AllStatuses
      <4>3. status[o] # Failed
        BY <4>1, <2>t DEF ChargedFirst, SettledMeansCharged
      <4> QED
        BY <3>1, <4>2, <4>3 DEF CanTransition
    <3> QED
      BY <2>1, <3>1
  <2>2. CASE \E w \in Workers : wk[w].pc = "start" /\ wk[w].order = o /\ status'[o] = Processing
    BY <2>2, <2>t DEF WorkerKnows, CanTransition
  <2>3. CASE \E w \in Workers : wk[w].pc = "finish" /\ wk[w].order = o /\ status'[o] = Outcome(o)
    BY <2>3, <2>t DEF WorkerKnows, CanTransition, Outcome
  <2> QED
    BY <2>1, <2>2, <2>3, <2>t, StatusStep
<1>2. [Next]_vars /\ TokenInv => [A]_vars
  BY <1>1
<1> QED
  BY TokenInvariant, <1>2, PTL DEF Spec, OnlyCancelLeavesTable

-----------------------------------------------------------------------------
(* Without cancellation the transition table is respected. *)

NoCancel ==
    /\ \A o \in Orders : status[o] # Canceled
    /\ \A h \in Handlers : hd[h].pc = "write" => hd[h].to # Canceled

\* While no client cancels, every status change is one the table allows,
\* whatever fails (but for a repeated LPUSH).
THEOREM TableRespectedWithoutCancel ==
    ASSUME "pushDup" \notin FaultKinds, "cancel" \notin Kinds PROVE Spec => StatusMoves
<1>1. Init => NoCancel
  BY DEF Init, NoCancel, IdleHandler, Absent, Canceled
<1>2. RowInv /\ NoCancel /\ [Next]_vars => NoCancel'
  <2> SUFFICES ASSUME RowInv, NoCancel, [Next]_vars PROVE NoCancel'
    OBVIOUS
  <2>t. hd \in [Handlers -> HandlerState]
    BY DEF RowInv, TypeOK
  <2>1. \A o \in Orders : status'[o] # Canceled
    BY StatusStep DEF NoCancel, Outcome, Created, Processing, Paid, Failed, Canceled
  <2>2. ASSUME NEW g \in Handlers, hd'[g].pc = "write" PROVE hd'[g].to # Canceled
    <3>1. CASE hd'[g] = hd[g]
      BY <2>2, <3>1 DEF NoCancel
    <3>2. CASE \E h \in Handlers : CreateOrder(h) \/ PublishOrderCreated(h) \/ WriteTransition(h)
      <4>1. hd'[g] = hd[g]
        BY <2>2, <3>2, <2>t DEF CreateOrder, PublishOrderCreated, WriteTransition, IdleHandler
      <4> QED
        BY <3>1, <4>1
    <3>3. CASE \E h \in Handlers : ReadForTransition(h)
      <4>1. PICK h \in Handlers, o \in Orders, to \in {Canceled, Shipped} :
               /\ IF to = Canceled THEN "cancel" \in Kinds ELSE "ship" \in Kinds
               /\ hd' = [hd EXCEPT ![h] = [pc |-> "write", order |-> o, to |-> to]]
        BY <3>3 DEF ReadForTransition
      <4>2. CASE g = h
        BY <4>1, <4>2, <2>t
      <4>3. CASE g # h
        BY <3>1, <4>1, <4>3, <2>t
      <4> QED
        BY <4>2, <4>3
    <3>4. CASE ApiCrash
      BY <2>2, <3>4 DEF ApiCrash, IdleHandler
    <3>5. hd' = hd \/ (\E h \in Handlers : HandlerStep(h)) \/ ApiCrash
      BY OneWorkerMoves DEF Next, vars, WorkerCrash, Restart, FreshPool, Signal, Quiescent
    <3> QED
      BY <3>1, <3>2, <3>3, <3>4, <3>5 DEF HandlerStep
  <2> QED
    BY <2>1, <2>2 DEF NoCancel
<1>3. NoCancel /\ NoCancel'
        /\ (\A o \in Orders :
               status[o] # Absent /\ status'[o] # status[o]
                  => \/ CanTransition(status[o], status'[o])
                     \/ Canceled \in {status[o], status'[o]})
        => (\A o \in Orders :
               status[o] # Absent /\ status'[o] # status[o] => CanTransition(status[o], status'[o]))
  BY DEF NoCancel
<1>4. Spec => []NoCancel
  BY <1>1, <1>2, RowInvariant, PTL DEF Spec
<1> QED
  BY <1>3, <1>4, CancelIsTheOnlyRace, PTL DEF OnlyCancelLeavesTable, StatusMoves

-----------------------------------------------------------------------------
(* No work is lost while no message is lost. *)

AckedInv == \A o \in acked : status[o] # Absent /\ (status[o] = Created => InFlight(o))

\* LPUSH that does not fail puts the message on the list and keeps the others.
LEMMA LPushKeeps ==
    ASSUME NEW q \in Seq(Message), NEW m \in Message, NEW x, x # "pushFail"
    PROVE  /\ \A i \in 1..Len(q) : i \in 1..Len(LPush(q, m, x)) /\ LPush(q, m, x)[i] = q[i]
           /\ Len(q) + 1 \in 1..Len(LPush(q, m, x)) /\ LPush(q, m, x)[Len(q) + 1] = m
<1>1. CASE x = "pushDup"
  <2> DEFINE r == Append(q, m)
  <2>1. r \in Seq(Message) /\ Len(r) = Len(q) + 1 /\ r[Len(q) + 1] = m
        /\ \A i \in 1..Len(q) : r[i] = q[i]
    OBVIOUS
  <2>2. LPush(q, m, x) = Append(r, m)
    BY <1>1 DEF LPush
  <2>3. Len(Append(r, m)) = Len(r) + 1 /\ \A i \in 1..Len(r) : Append(r, m)[i] = r[i]
    BY <2>1
  <2>4. Len(q) \in Nat
    OBVIOUS
  <2> QED
    BY <2>1, <2>2, <2>3, <2>4
<1>2. CASE x # "pushDup"
  BY <1>2 DEF LPush
<1> QED
  BY <1>1, <1>2

\* While no LPUSH fails, no BRPOP reply is lost and no worker process crashes,
\* an acknowledged order that is still CREATED has its message in flight.
THEOREM AckedWorkIsKept ==
    ASSUME FaultKinds \cap {"pushFail", "popLost", "workerCrash"} = {}
    PROVE  Spec => []AckedStaysInFlight
<1>1. Init => AckedInv
  BY DEF Init, AckedInv
<1>2. RowInv /\ AckedInv /\ [Next]_vars => AckedInv'
  <2> SUFFICES ASSUME RowInv, AckedInv, [Next]_vars, NEW o \in acked'
               PROVE  status'[o] # Absent /\ (status'[o] = Created => InFlight(o)')
    BY DEF AckedInv
  <2>t. TypeOK /\ IdleNamesNone /\ NamesExist /\ o \in Orders
    BY NextTypeOK DEF RowInv, TypeOK
  <2>q. queue \in Seq(Message) /\ dlq \in Seq(Message)
    BY <2>t DEF TypeOK
  <2>w. wk \in [Workers -> WorkerState]
    BY <2>t DEF TypeOK
  <2>x. \A x \in PushOutcomes : x # "pushFail"
    BY DEF PushOutcomes
  <2>d. ASSUME DeadLettered(o), dlq' = dlq PROVE InFlight(o)'
    BY <2>d DEF DeadLettered, InFlight
  <2>1. ASSUME NEW h \in Handlers, PublishOrderCreated(h)
        PROVE  status'[o] # Absent /\ (status'[o] = Created => InFlight(o)')
    <3> DEFINE m == [order |-> hd[h].order, retry |-> 0]
    <3>1. PICK x \in PushOutcomes : queue' = LPush(queue, m, x)
      BY <2>1 DEF PublishOrderCreated
    <3>2. UNCHANGED <<status, dlq, wk>> /\ acked' \subseteq acked \cup {hd[h].order}
      BY <2>1 DEF PublishOrderCreated
    <3>3. hd[h].order \in Orders /\ status[hd[h].order] # Absent
      BY <2>1, <2>t DEF PublishOrderCreated, TypeOK, IdleNamesNone, NamesExist, HandlerState
    <3>4. m \in Message
      BY <3>3, MaxRetriesAssumption DEF Message
    <3>5. /\ \A i \in 1..Len(queue) : i \in 1..Len(queue') /\ queue'[i] = queue[i]
          /\ Len(queue) + 1 \in 1..Len(queue') /\ queue'[Len(queue) + 1] = m
      BY <2>q, <2>x, <3>1, <3>4, LPushKeeps
    <3>6. CASE o = hd[h].order
      <4>1. Queued(o)'
        BY <3>5, <3>6 DEF Queued
      <4> QED
        BY <3>2, <3>3, <3>6, <4>1 DEF InFlight
    <3>7. CASE o \in acked
      <4>1. InFlight(o) => InFlight(o)'
        BY <3>2, <3>5 DEF InFlight, Queued, Held, DeadLettered
      <4> QED
        BY <3>2, <3>7, <4>1 DEF AckedInv
    <3> QED
      BY <3>2, <3>6, <3>7
  <2>2. CASE ~ \E h \in Handlers : PublishOrderCreated(h)
    <3>1. o \in acked
      BY <2>2 DEF Next, vars, HandlerStep, WorkerStep, HandleMessage, CreateOrder,
         ReadForTransition, WriteTransition, Dequeue, DequeueLost, DequeueError, LoadOrder, SimulatedFailure,
         StartProcessing, ProcessPayment, MarkProcessed, Requeue, DeadLetter, ApiCrash, WorkerCrash,
         Restart, FreshPool, Signal, Quiescent
    <3>2. status[o] # Absent /\ status'[o] # Absent
      BY <3>1, <2>t, NextRowsOnlyGrow DEF AckedInv, RowsOnlyGrow
    <3> SUFFICES ASSUME status'[o] = Created PROVE InFlight(o)'
      BY <3>2
    <3>3. status[o] = Created
      BY <3>2, <2>t, StatusStep
         DEF Outcome, Created, Processing, Paid, Failed, Canceled, Shipped
    <3>4. InFlight(o)
      BY <3>1, <3>3 DEF AckedInv
    <3>5. ASSUME NEW w \in Workers, Dequeue(w) PROVE InFlight(o)'
      <4>1. /\ Head(queue) = queue[1]
            /\ Len(queue') = Len(queue) - 1 /\ Len(queue) \in Nat
            /\ \A i \in 1..Len(queue') : queue'[i] = queue[i + 1]
        BY <3>5, <2>q DEF Dequeue
      <4>2. wk'[w].order = queue[1].order /\ \A v \in Workers \ {w} : wk'[v] = wk[v]
        BY <3>5, <2>w, <4>1 DEF Dequeue
      <4>3. wk[w].order = None /\ o # None
        BY <3>5, <2>t, ConstantsAssumption DEF Dequeue, IdleNamesNone
      <4>4. dlq' = dlq
        BY <3>5 DEF Dequeue
      <4>5. CASE Held(o)
        BY <4>2, <4>3, <4>5 DEF Held, InFlight
      <4>6. CASE Queued(o)
        <5>1. PICK i \in 1..Len(queue) : queue[i].order = o
          BY <4>6 DEF Queued
        <5>2. CASE i = 1
          BY <5>1, <5>2, <4>2 DEF Held, InFlight
        <5>3. CASE i # 1
          <6>1. i - 1 \in 1..Len(queue') /\ queue'[i - 1].order = o
            BY <5>1, <5>3, <4>1
          <6> QED
            BY <6>1 DEF Queued, InFlight
        <5> QED
          BY <5>2, <5>3
      <4> QED
        BY <3>4, <4>4, <4>5, <4>6, <2>d DEF InFlight
    <3>6. ASSUME NEW w \in Workers, Requeue(w) PROVE InFlight(o)'
      <4> DEFINE m == [order |-> wk[w].order, retry |-> NextRetry(wk[w].retry)]
      <4>1. PICK x \in PushOutcomes : queue' = LPush(queue, m, x)
        BY <3>6 DEF Requeue
      <4>2. wk[w].order \in Orders /\ wk[w].retry \in 0..MaxRetries
        BY <3>6, <2>t DEF Requeue, TypeOK, IdleNamesNone, WorkerState
      <4>3. NextRetry(wk[w].retry) \in 0..MaxRetries
        BY <3>6, <4>2, MaxRetriesAssumption DEF Requeue, MayRetry, NextRetry
      <4>4. m \in Message
        BY <4>2, <4>3 DEF Message
      <4>5. /\ \A i \in 1..Len(queue) : i \in 1..Len(queue') /\ queue'[i] = queue[i]
            /\ Len(queue) + 1 \in 1..Len(queue') /\ queue'[Len(queue) + 1] = m
        BY <2>q, <2>x, <4>1, <4>4, LPushKeeps
      <4>6. dlq' = dlq /\ \A v \in Workers \ {w} : wk'[v] = wk[v]
        BY <3>6, <2>w DEF Requeue
      <4>7. wk[w].order = o => Queued(o)'
        BY <4>5 DEF Queued
      <4>8. Queued(o) => Queued(o)'
        BY <4>5 DEF Queued
      <4> QED
        BY <3>4, <4>6, <4>7, <4>8 DEF InFlight, Held, DeadLettered
    <3>7. ASSUME NEW w \in Workers, DeadLetter(w) PROVE InFlight(o)'
      <4> DEFINE m == [order |-> wk[w].order, retry |-> wk[w].retry]
      <4>1. PICK x \in PushOutcomes : dlq' = LPush(dlq, m, x)
        BY <3>7 DEF DeadLetter
      <4>2. m \in Message
        BY <3>7, <2>t DEF DeadLetter, TypeOK, IdleNamesNone, WorkerState, Message
      <4>3. /\ \A i \in 1..Len(dlq) : i \in 1..Len(dlq') /\ dlq'[i] = dlq[i]
            /\ Len(dlq) + 1 \in 1..Len(dlq') /\ dlq'[Len(dlq) + 1] = m
        BY <2>q, <2>x, <4>1, <4>2, LPushKeeps
      <4>4. queue' = queue /\ \A v \in Workers \ {w} : wk'[v] = wk[v]
        BY <3>7, <2>w DEF DeadLetter
      <4>5. wk[w].order = o => DeadLettered(o)'
        BY <4>3 DEF DeadLettered
      <4>6. DeadLettered(o) => DeadLettered(o)'
        BY <4>3 DEF DeadLettered
      <4> QED
        BY <3>4, <4>4, <4>5, <4>6 DEF InFlight, Held, Queued
    <3>8. ASSUME NEW w \in Workers,
                 \/ DequeueError(w) \/ LoadOrder(w) \/ SimulatedFailure(w)
                 \/ StartProcessing(w) \/ ProcessPayment(w) \/ MarkProcessed(w)
          PROVE  InFlight(o)'
      <4>1. queue' = queue /\ dlq' = dlq /\ \A v \in Workers \ {w} : wk'[v] = wk[v]
        BY <3>8, <2>w DEF DequeueError, LoadOrder, SimulatedFailure, StartProcessing, ProcessPayment, MarkProcessed
      <4>2. wk[w].order = o => wk'[w].order = o
        <5> SUFFICES ASSUME wk[w].order = o PROVE wk'[w].order = o
          OBVIOUS
        <5>1. wk[w] \in WorkerState /\ wk[w].order # None
          BY <2>w, <2>t, ConstantsAssumption
        <5>2. ~DequeueError(w)
          BY <5>1, <2>t DEF DequeueError, IdleNamesNone
        <5>3. CASE LoadOrder(w)
          <6>1. Processable(status[wk[w].order])
            BY <3>3 DEF Processable, CanTransition
          <6>2. \E pc \in {"retry", "start"} : wk'[w] = [wk[w] EXCEPT !.pc = pc]
            BY <5>3, <6>1, <2>w DEF LoadOrder
          <6> QED
            BY <5>1, <6>2 DEF WorkerState
        <5>4. CASE SimulatedFailure(w) \/ StartProcessing(w) \/ ProcessPayment(w)
          <6>1. \E pc \in WorkerPc : wk' = [wk EXCEPT ![w].pc = pc]
            BY <5>4 DEF SimulatedFailure, StartProcessing, ProcessPayment, WorkerPc
          <6> QED
            BY <6>1, <5>1, <2>w DEF WorkerState
        <5>5. CASE MarkProcessed(w)
          <6>1. PICK x \in WriteOutcomes :
                   /\ UpdateStatus(o, Outcome(o), x)
                   /\ Reported(x) \/ wk' = [wk EXCEPT ![w].pc = "retry"]
            BY <5>5 DEF MarkProcessed
          <6>2. x = "dbFail"
            BY <6>1, <2>t DEF UpdateStatus, TypeOK, Outcome, Created, Paid, Failed
          <6>3. wk' = [wk EXCEPT ![w].pc = "retry"]
            BY <6>1, <6>2 DEF Reported
          <6> QED
            BY <6>3, <5>1, <2>w DEF WorkerState
        <5> QED
          BY <3>8, <5>2, <5>3, <5>4, <5>5
      <4> QED
        BY <3>4, <4>1, <4>2 DEF InFlight, Held, Queued, DeadLettered
    <3>9. CASE Restart
      <4>1. ~Held(o)
        BY <3>9, <2>t, ConstantsAssumption DEF Restart, Held, IdleNamesNone
      <4> QED
        BY <3>4, <3>9, <4>1 DEF Restart, FreshPool, InFlight, Queued, DeadLettered
    <3>10. CASE UNCHANGED <<queue, dlq, wk>>
      BY <3>4, <3>10 DEF InFlight, Queued, Held, DeadLettered
    <3>11. \/ \E w \in Workers : WorkerStep(w) /\ ~DequeueLost(w)
           \/ Restart
           \/ UNCHANGED <<queue, dlq, wk>>
      BY <2>2 DEF Next, vars, HandlerStep, CreateOrder, ReadForTransition, WriteTransition, WorkerStep,
             DequeueLost, ApiCrash, WorkerCrash, Signal, Quiescent
    <3> QED
      BY <3>5, <3>6, <3>7, <3>8, <3>9, <3>10, <3>11 DEF WorkerStep, HandleMessage
  <2> QED
    BY <2>1, <2>2
<1>3. AckedInv => AckedStaysInFlight
  BY DEF AckedInv, AckedStaysInFlight
<1> QED
  BY <1>1, <1>2, <1>3, RowInvariant, PTL DEF Spec

-----------------------------------------------------------------------------
(* The lifecycle of an order. *)

\* Every step of the service is a step of the lifecycle of one order, or none.
LEMMA StepIsLifecycleStep ==
    ASSUME TokenInv, [Next]_vars
    PROVE  [Lifecycle!LifecycleNext]_(Lifecycle!lifecycleVars)
<1> USE DEF Lifecycle!lifecycleVars, Lifecycle!NoRow, Absent,
            Created, Processing, Paid, Shipped, Canceled, Failed,
            Lifecycle!Created, Lifecycle!Processing, Lifecycle!Paid, Lifecycle!Shipped,
            Lifecycle!Canceled, Lifecycle!Failed
<1>t. RowInv /\ TypeOK /\ IdleNamesNone /\ NamesExist /\ ChargedFirst /\ WorkerKnows /\ ChargedOnce
  BY DEF TokenInv, RowInv
<1>w. \A w \in Workers : wk[w].pc \in {"start", "pay", "finish"} => wk[w].order \in Orders
  BY <1>t DEF TypeOK, IdleNamesNone, WorkerState
<1>1. ASSUME NEW h \in Handlers, CreateOrder(h)
      PROVE  [Lifecycle!LifecycleNext]_(Lifecycle!lifecycleVars)
  <2>1. PICK o \in Orders, x \in WriteOutcomes : status[o] = Absent /\ UpdateStatus(o, Created, x)
    BY <1>1 DEF CreateOrder
  <2>2. UNCHANGED <<processedAt, payments>>
    BY <1>1 DEF CreateOrder
  <2>3. CASE UNCHANGED status
    BY <2>2, <2>3
  <2>4. CASE status' = [status EXCEPT ![o] = Created]
    <3>1. Lifecycle!Open(o)
      BY <2>1, <2>2, <2>4 DEF Lifecycle!Open
    <3> QED
      BY <3>1 DEF Lifecycle!LifecycleNext
  <2> QED
    BY <2>1, <2>3, <2>4 DEF UpdateStatus
<1>2. ASSUME NEW h \in Handlers, WriteTransition(h)
      PROVE  [Lifecycle!LifecycleNext]_(Lifecycle!lifecycleVars)
  <2>1. hd[h].order \in Orders /\ hd[h].to \in {Canceled, Shipped}
    BY <1>2, <1>t DEF WriteTransition, TypeOK, IdleNamesNone, HandlerState
  <2>2. UNCHANGED <<processedAt, payments>> /\ hd[h].pc = "write"
    BY <1>2 DEF WriteTransition
  <2>3. CASE UNCHANGED status
    BY <2>2, <2>3
  <2>4. CASE status' = [status EXCEPT ![hd[h].order] = hd[h].to]
    <3>1. CASE hd[h].to = Canceled
      <4>1. status[hd[h].order] # Absent
        BY <2>2, <1>t DEF NamesExist
      <4>2. Lifecycle!Cancel(hd[h].order)
        BY <4>1, <3>1, <2>2, <2>4 DEF Lifecycle!Cancel
      <4> QED
        BY <4>2, <2>1 DEF Lifecycle!LifecycleNext
    <3>2. CASE hd[h].to = Shipped
      <4>1. processedAt[hd[h].order] /\ hd[h].order \notin Declined
        BY <2>2, <3>2, <1>t DEF ChargedFirst
      <4>2. Lifecycle!Ship(hd[h].order)
        BY <4>1, <3>2, <2>2, <2>4 DEF Lifecycle!Ship
      <4> QED
        BY <4>2, <2>1 DEF Lifecycle!LifecycleNext
    <3> QED
      BY <2>1, <3>1, <3>2
  <2> QED
    BY <1>2, <2>3, <2>4 DEF WriteTransition, UpdateStatus
<1>3. ASSUME NEW w \in Workers, StartProcessing(w)
      PROVE  [Lifecycle!LifecycleNext]_(Lifecycle!lifecycleVars)
  <2>1. wk[w].order \in Orders /\ UNCHANGED <<processedAt, payments>>
    BY <1>3, <1>w DEF StartProcessing
  <2>2. CASE UNCHANGED status
    BY <2>1, <2>2
  <2>3. CASE status' = [status EXCEPT ![wk[w].order] = Processing]
    <3>1. Lifecycle!Start(wk[w].order)
      BY <1>3, <2>1, <2>3, <1>t DEF StartProcessing, WorkerKnows, Lifecycle!Start
    <3> QED
      BY <2>1, <3>1 DEF Lifecycle!LifecycleNext
  <2> QED
    BY <1>3, <2>2, <2>3 DEF StartProcessing, UpdateStatus
<1>4. ASSUME NEW w \in Workers, ProcessPayment(w)
      PROVE  [Lifecycle!LifecycleNext]_(Lifecycle!lifecycleVars)
  <2>1. wk[w].pc = "pay" /\ wk[w].order \in Orders /\ payments[wk[w].order] = 0
    BY <1>4, <1>w, <1>t DEF ProcessPayment, WorkerKnows
  <2>2. payments' = [payments EXCEPT ![wk[w].order] = 1] /\ UNCHANGED <<status, processedAt>>
    BY <1>4, <2>1 DEF ProcessPayment
  <2>3. Lifecycle!Charge(wk[w].order)
    BY <2>1, <2>2, <1>t DEF WorkerKnows, Lifecycle!Charge
  <2> QED
    BY <2>1, <2>3 DEF Lifecycle!LifecycleNext
<1>5. ASSUME NEW w \in Workers, MarkProcessed(w)
      PROVE  [Lifecycle!LifecycleNext]_(Lifecycle!lifecycleVars)
  <2> DEFINE o == wk[w].order
  <2>1. wk[w].pc = "finish" /\ o \in Orders /\ ~processedAt[o] /\ payments[o] = 1
    BY <1>5, <1>w, <1>t DEF MarkProcessed, WorkerKnows, ChargedFirst, ChargedOnce, TypeOK
  <2>2. /\ UNCHANGED payments
        /\ \/ UNCHANGED <<status, processedAt>>
           \/ /\ status' = [status EXCEPT ![o] = Outcome(o)]
              /\ processedAt' = [processedAt EXCEPT ![o] = TRUE]
    BY <1>5 DEF MarkProcessed, UpdateStatus
  <2>3. CASE UNCHANGED <<status, processedAt>>
    BY <2>2, <2>3
  <2>4. CASE /\ status' = [status EXCEPT ![o] = Outcome(o)]
             /\ processedAt' = [processedAt EXCEPT ![o] = TRUE]
    <3>1. Lifecycle!Settle(o)
      BY <2>1, <2>2, <2>4 DEF Outcome, Lifecycle!Settle
    <3> QED
      BY <2>1, <3>1 DEF Lifecycle!LifecycleNext
  <2> QED
    BY <2>2, <2>3, <2>4
<1>6. CASE UNCHANGED <<status, processedAt, payments>>
  BY <1>6
<1> QED
  BY <1>1, <1>2, <1>3, <1>4, <1>5, <1>6
     DEF Next, vars, HandlerStep, WorkerStep, HandleMessage, PublishOrderCreated, ReadForTransition,
         Dequeue, DequeueLost, DequeueError, LoadOrder, SimulatedFailure, Requeue, DeadLetter,
         ApiCrash, WorkerCrash, Restart, FreshPool, Signal, Quiescent

\* Unless the Redis client repeats an LPUSH, the service implements the lifecycle:
\* opened once, started while uncharged, charged at most once, settled by the
\* outcome of that charge, shipped only when it was accepted.
THEOREM ServiceImplementsLifecycle ==
    ASSUME "pushDup" \notin FaultKinds PROVE Spec => ImplementsLifecycle
<1>1. Init => Lifecycle!LifecycleInit
  BY DEF Init, Lifecycle!LifecycleInit, Lifecycle!NoRow, Absent
<1>2. TokenInv /\ [Next]_vars => [Lifecycle!LifecycleNext]_(Lifecycle!lifecycleVars)
  BY StepIsLifecycleStep
<1> QED
  BY <1>1, <1>2, TokenInvariant, PTL DEF Spec, ImplementsLifecycle, Lifecycle!LifecycleSpec

-----------------------------------------------------------------------------
(* The counters.  An order is answered 201 once, by the handler that created   *)
(* it, and settled once, by the worker that holds it.                         *)

\* An acknowledged order exists, and nobody is about to acknowledge it again.
AckedOnce ==
    \A o \in acked : /\ status[o] # Absent
                     /\ \A h \in Handlers : hd[h].pc = "publish" => hd[h].order # o

LEMMA NextAckedOnce ==
    ASSUME TokenInv, AckedOnce, [Next]_vars PROVE AckedOnce'
<1>t. RowInv /\ TypeOK /\ IdleNamesNone /\ NamesExist /\ PublishingIsFresh
  BY DEF TokenInv, RowInv
<1>r. \A o \in Orders : status[o] # Absent => status'[o] # Absent
  BY <1>t, NextRowsOnlyGrow DEF RowsOnlyGrow
<1>1. ASSUME NEW h \in Handlers, PublishOrderCreated(h)
      PROVE  AckedOnce'
  <2>1. acked' \subseteq acked \cup {hd[h].order} /\ hd[h].pc = "publish"
    BY <1>1 DEF PublishOrderCreated
  <2>2. hd'[h].pc = "idle" /\ \A g \in Handlers : g # h => hd'[g] = hd[g]
    BY <1>1, <1>t DEF PublishOrderCreated, IdleHandler, TypeOK
  <2>3. hd[h].order \in Orders /\ status[hd[h].order] # Absent
    BY <2>1, <1>t DEF TypeOK, IdleNamesNone, NamesExist, HandlerState
  <2>4. \A g \in Handlers : g # h /\ hd[g].pc = "publish" => hd[g].order # hd[h].order
    BY <2>1, <1>t DEF PublishingIsFresh
  <2> QED
    BY <2>1, <2>2, <2>3, <2>4, <1>r, <1>t DEF AckedOnce, TypeOK
<1>2. ASSUME NEW h \in Handlers, CreateOrder(h)
      PROVE  AckedOnce'
  <2>1. PICK o \in Orders : status[o] = Absent
                           /\ (hd' = hd \/ hd' = [hd EXCEPT ![h] = [pc |-> "publish", order |-> o, to |-> None]])
    BY <1>2 DEF CreateOrder
  <2>2. \A g \in Handlers : hd'[g] = hd[g] \/ hd'[g].order = o
    BY <2>1, <1>t DEF TypeOK
  <2>3. acked' = acked /\ o \notin acked
    BY <1>2, <2>1 DEF CreateOrder, AckedOnce
  <2> QED
    BY <2>2, <2>3, <1>r, <1>t DEF AckedOnce, TypeOK
<1>3. CASE ~ \E h \in Handlers : PublishOrderCreated(h) \/ CreateOrder(h)
  <2>1. acked' = acked
    BY <1>3 DEF Next, vars, HandlerStep, WorkerStep, HandleMessage, ReadForTransition, WriteTransition,
         Dequeue, DequeueLost, DequeueError, LoadOrder, SimulatedFailure, StartProcessing,
         ProcessPayment, MarkProcessed, Requeue, DeadLetter, ApiCrash, WorkerCrash, Restart,
         FreshPool, Signal, Quiescent
  <2>2. \A g \in Handlers : hd'[g] = hd[g] \/ hd'[g].pc \in {"idle", "write"}
    <3>1. ASSUME NEW h \in Handlers, ReadForTransition(h) \/ WriteTransition(h)
          PROVE  \A g \in Handlers : hd'[g] = hd[g] \/ hd'[g].pc \in {"idle", "write"}
      BY <3>1, <1>t DEF ReadForTransition, WriteTransition, IdleHandler, TypeOK
    <3>2. CASE ApiCrash
      BY <3>2 DEF ApiCrash, IdleHandler
    <3>3. CASE hd' = hd
      BY <3>3
    <3> QED
      BY <1>3, <3>1, <3>2, <3>3
         DEF Next, vars, HandlerStep, WorkerStep, HandleMessage, Dequeue, DequeueLost, DequeueError,
             LoadOrder, SimulatedFailure, StartProcessing, ProcessPayment, MarkProcessed, Requeue,
             DeadLetter, WorkerCrash, Restart, FreshPool, Signal, Quiescent
  <2> QED
    BY <2>1, <2>2, <1>r, <1>t DEF AckedOnce, TypeOK
<1> QED
  BY <1>1, <1>2, <1>3

SettledOf(S) == {o \in S : processedAt[o]}

LEMMA MetricsRead ==
    /\ MetricsNeverOvercount <=>
         /\ metrics.created <= Cardinality(acked)
         /\ metrics.processed <= Cardinality(SettledOf(Orders \ Declined))
         /\ metrics.failed <= Cardinality(SettledOf(Orders \cap Declined))
    /\ MetricsNeverOvercount' <=>
         /\ metrics'.created <= Cardinality(acked')
         /\ metrics'.processed <= Cardinality(SettledOf(Orders \ Declined)')
         /\ metrics'.failed <= Cardinality(SettledOf(Orders \cap Declined)')
<1>1. /\ {o \in Orders : processedAt[o] /\ o \notin Declined} = SettledOf(Orders \ Declined)
      /\ {o \in Orders : processedAt[o] /\ o \in Declined} = SettledOf(Orders \cap Declined)
  BY DEF SettledOf
<1>2. /\ {o \in Orders : processedAt'[o] /\ o \notin Declined} = SettledOf(Orders \ Declined)'
      /\ {o \in Orders : processedAt'[o] /\ o \in Declined} = SettledOf(Orders \cap Declined)'
  BY DEF SettledOf
<1>3. MetricsNeverOvercount <=>
         /\ metrics.created <= Cardinality(acked)
         /\ metrics.processed <= Cardinality(SettledOf(Orders \ Declined))
         /\ metrics.failed <= Cardinality(SettledOf(Orders \cap Declined))
  BY <1>1, Zenon DEF MetricsNeverOvercount
<1>4. MetricsNeverOvercount' <=>
         /\ metrics'.created <= Cardinality(acked')
         /\ metrics'.processed <= Cardinality(SettledOf(Orders \ Declined)')
         /\ metrics'.failed <= Cardinality(SettledOf(Orders \cap Declined)')
  BY <1>2, Zenon DEF MetricsNeverOvercount
<1> QED
  BY <1>3, <1>4

LEMMA NextMetrics ==
    ASSUME IsFiniteSet(Orders), TokenInv, AckedOnce, MetricsNeverOvercount, [Next]_vars
    PROVE  MetricsNeverOvercount'
<1>t. RowInv /\ TypeOK /\ IdleNamesNone /\ WorkerKnows /\ TypeOK'
  BY NextTypeOK DEF TokenInv, RowInv
<1> DEFINE A == SettledOf(Orders \ Declined)
<1> DEFINE D == SettledOf(Orders \cap Declined)
<1>m. /\ metrics.created \in Nat /\ metrics.processed \in Nat /\ metrics.failed \in Nat
      /\ metrics \in [created : Nat, processed : Nat, failed : Nat]
  BY <1>t DEF TypeOK
<1>s. A \in SUBSET Orders /\ D \in SUBSET Orders /\ acked \in SUBSET Orders
  BY <1>t DEF SettledOf, TypeOK
<1>n. A' \in SUBSET Orders /\ D' \in SUBSET Orders /\ acked' \in SUBSET Orders
  BY <1>t DEF SettledOf, TypeOK
<1>f. /\ IsFiniteSet(A) /\ IsFiniteSet(D) /\ IsFiniteSet(acked)
      /\ IsFiniteSet(A') /\ IsFiniteSet(D') /\ IsFiniteSet(acked')
  BY <1>s, <1>n, FS_Subset
<1>c. /\ Cardinality(A) \in Nat /\ Cardinality(D) \in Nat /\ Cardinality(acked) \in Nat
      /\ Cardinality(A') \in Nat /\ Cardinality(D') \in Nat /\ Cardinality(acked') \in Nat
  BY <1>f, FS_CardinalityType
<1>g. A \in SUBSET (A') /\ D \in SUBSET (D')
  <2>1. \A o \in Orders : processedAt[o] => processedAt'[o]
    BY <1>t, NextRowsOnlyGrow DEF RowsOnlyGrow
  <2> QED
    BY <2>1 DEF SettledOf
<1>l. Cardinality(A) <= Cardinality(A') /\ Cardinality(D) <= Cardinality(D')
  BY <1>f, <1>g, FS_Subset
<1>h. /\ metrics.created <= Cardinality(acked)
      /\ metrics.processed <= Cardinality(A) /\ metrics.failed <= Cardinality(D)
  BY MetricsRead
<1> SUFFICES /\ metrics'.created <= Cardinality(acked')
             /\ metrics'.processed <= Cardinality(A') /\ metrics'.failed <= Cardinality(D')
  BY MetricsRead
<1> HIDE DEF A, D
<1>1. ASSUME NEW h \in Handlers, PublishOrderCreated(h)
      PROVE  /\ metrics'.created <= Cardinality(acked')
             /\ metrics'.processed = metrics.processed /\ metrics'.failed = metrics.failed
  <2>1. hd[h].order \notin acked
    BY <1>1 DEF PublishOrderCreated, AckedOnce
  <2>2. CASE metrics' = [metrics EXCEPT !.created = @ + 1] /\ acked' = acked \cup {hd[h].order}
    <3>1. metrics'.created = metrics.created + 1 /\ metrics'.processed = metrics.processed
          /\ metrics'.failed = metrics.failed
      BY <2>2, <1>m
    <3>2. Cardinality(acked') = Cardinality(acked) + 1
      BY <2>1, <2>2, <1>f, FS_AddElement
    <3> QED
      BY <3>1, <3>2, <1>h, <1>m, <1>c
  <2>3. CASE metrics' = metrics /\ acked' = acked
    BY <2>3, <1>h
  <2> QED
    BY <1>1, <2>2, <2>3 DEF PublishOrderCreated
<1>2. ASSUME NEW w \in Workers, MarkProcessed(w)
      PROVE  /\ metrics'.created = metrics.created /\ acked' = acked
             /\ metrics'.processed <= Cardinality(A') /\ metrics'.failed <= Cardinality(D')
  <2> DEFINE o == wk[w].order
  <2>1. wk[w].pc = "finish" /\ o \in Orders /\ processedAt[o] = FALSE /\ acked' = acked
    BY <1>2, <1>t DEF MarkProcessed, WorkerKnows, TypeOK, IdleNamesNone, WorkerState
  <2>2. CASE metrics' = metrics
    BY <2>1, <2>2, <1>h, <1>l, <1>m, <1>c
  <2>3. CASE /\ processedAt' = [processedAt EXCEPT ![o] = TRUE]
             /\ metrics' = IF o \in Declined THEN [metrics EXCEPT !.failed = @ + 1]
                                             ELSE [metrics EXCEPT !.processed = @ + 1]
    <3>1. /\ processedAt'[o] = TRUE /\ \A p \in Orders : p # o => processedAt'[p] = processedAt[p]
      BY <2>1, <2>3, <1>t DEF TypeOK
    <3>2. CASE o \in Declined
      <4>1. D' = D \cup {o} /\ o \notin D
        BY <2>1, <3>1, <3>2 DEF D, SettledOf
      <4>2. Cardinality(D') = Cardinality(D) + 1
        BY <4>1, <1>f, FS_AddElement
      <4>3. metrics'.failed = metrics.failed + 1 /\ metrics'.processed = metrics.processed
            /\ metrics'.created = metrics.created
        BY <2>3, <3>2, <1>m
      <4> QED
        BY <2>1, <4>2, <4>3, <1>h, <1>l, <1>m, <1>c
    <3>3. CASE o \notin Declined
      <4>1. A' = A \cup {o} /\ o \notin A
        BY <2>1, <3>1, <3>3 DEF A, SettledOf
      <4>2. Cardinality(A') = Cardinality(A) + 1
        BY <4>1, <1>f, FS_AddElement
      <4>3. metrics'.processed = metrics.processed + 1 /\ metrics'.failed = metrics.failed
            /\ metrics'.created = metrics.created
        BY <2>3, <3>3, <1>m
      <4> QED
        BY <2>1, <4>2, <4>3, <1>h, <1>l, <1>m, <1>c
    <3> QED
      BY <3>2, <3>3
  <2> QED
    BY <1>2, <2>2, <2>3 DEF MarkProcessed, Reported
<1>3. CASE ApiCrash
  <2>1. acked' = acked /\ metrics' = [metrics EXCEPT !.created = 0]
    BY <1>3 DEF ApiCrash
  <2>2. metrics'.created = 0 /\ metrics'.processed = metrics.processed /\ metrics'.failed = metrics.failed
    BY <2>1, <1>m
  <2> QED
    BY <2>1, <2>2, <1>h, <1>l, <1>m, <1>c
<1>4. CASE FreshPool
  <2>1. acked' = acked /\ metrics' = [metrics EXCEPT !.processed = 0, !.failed = 0]
    BY <1>4 DEF FreshPool
  <2>2. metrics'.created = metrics.created /\ metrics'.processed = 0 /\ metrics'.failed = 0
    BY <2>1, <1>m
  <2> QED
    BY <2>1, <2>2, <1>h, <1>l, <1>m, <1>c
<1>5. CASE metrics' = metrics /\ acked' = acked
  BY <1>5, <1>h, <1>l, <1>m, <1>c
<1>6. CASE \E h \in Handlers : PublishOrderCreated(h)
  BY <1>6, <1>1, <1>h, <1>l, <1>m, <1>c
<1>7. CASE \E w \in Workers : MarkProcessed(w)
  BY <1>7, <1>2, <1>h
<1> QED
  BY <1>3, <1>4, <1>5, <1>6, <1>7
     DEF Next, vars, HandlerStep, WorkerStep, HandleMessage, CreateOrder, ReadForTransition,
         WriteTransition, Dequeue, DequeueLost, DequeueError, LoadOrder, SimulatedFailure,
         StartProcessing, ProcessPayment, Requeue, DeadLetter, WorkerCrash, Restart, Signal, Quiescent

\* Unless the Redis client repeats an LPUSH, no crash, retry or race makes a counter
\* exceed what it counts.
THEOREM MetricsAreNeverAhead ==
    ASSUME "pushDup" \notin FaultKinds, IsFiniteSet(Orders)
    PROVE  Spec => []MetricsNeverOvercount
<1>1. Init => AckedOnce /\ MetricsNeverOvercount
  <2> SUFFICES ASSUME Init PROVE AckedOnce /\ MetricsNeverOvercount
    OBVIOUS
  <2>1. acked = {} /\ SettledOf(Orders \ Declined) = {} /\ SettledOf(Orders \cap Declined) = {}
    BY DEF Init, SettledOf
  <2>2. metrics.created = 0 /\ metrics.processed = 0 /\ metrics.failed = 0
    BY DEF Init
  <2> QED
    BY <2>1, <2>2, MetricsRead, FS_EmptySet DEF AckedOnce
<1>2. TokenInv /\ AckedOnce /\ MetricsNeverOvercount /\ [Next]_vars
        => AckedOnce' /\ MetricsNeverOvercount'
  BY NextAckedOnce, NextMetrics
<1> QED
  BY <1>1, <1>2, TokenInvariant, PTL DEF Spec

=============================================================================
