-------------------------- MODULE MemoryPool_proofs --------------------------
(***************************************************************************)
(* Proofs about MemoryPool for any numbers of workers, clients and orders.  *)
(***************************************************************************)
EXTENDS MemoryPool, TLAPS, FiniteSetTheorems, SequenceTheorems

WorkerStates == [pc : {"check", "wait", "load", "stopped"} \cup AtWork, order : Ids \cup {NoOrder}]
ClientStates == [pc : {"idle", "publish", "count", "enqueue", "notify", "write"},
                 order : Orders \cup {NoOrder}, to : AllStatuses \cup {NoRow}]

\* A step of a client leaves the workers alone, and its own state has its type.
LEMMA ClientGoesTyped ==
  ASSUME PoolTypeOK, NEW c \in Clients, NEW pc, NEW o, NEW to, ClientGoes(c, pc, o, to),
         [pc |-> pc, order |-> o, to |-> to] \in ClientStates,
         pc \in {"publish", "count", "enqueue", "write"} => o \in Orders
  PROVE  /\ cl' \in [Clients -> ClientStates]
         /\ \A d \in Clients : cl'[d].pc \in {"publish", "count", "enqueue", "write"} =>
                                  cl'[d].order \in Orders
BY DEF PoolTypeOK, ClientGoes, ClientStates

LEMMA WorkerGoesTyped ==
  ASSUME PoolTypeOK, NEW w \in Workers, NEW pc, NEW o, WorkerGoes(w, pc, o),
         [pc |-> pc, order |-> o] \in WorkerStates,
         pc = "load" => o \in Ids, pc \in AtWork => o \in Orders
  PROVE  /\ wk' \in [Workers -> WorkerStates]
         /\ \A v \in Workers : /\ wk'[v].pc = "load" => wk'[v].order \in Ids
                               /\ wk'[v].pc \in AtWork => wk'[v].order \in Orders
BY DEF PoolTypeOK, WorkerGoes, WorkerStates

Counters == [created : Nat, processed : Nat, failed : Nat, samples : Nat]

LEMMA CountersTyped ==
  ASSUME NEW t \in Counters
  PROVE  /\ [t EXCEPT !.created = @ + 1] \in Counters
         /\ [t EXCEPT !.processed = @ + 1] \in Counters
         /\ [t EXCEPT !.failed = @ + 1] \in Counters
         /\ [t EXCEPT !.samples = @ + 1] \in Counters
<1>1. /\ t.created + 1 \in Nat /\ t.processed + 1 \in Nat
      /\ t.failed + 1 \in Nat /\ t.samples + 1 \in Nat
  BY DEF Counters
<1> QED BY <1>1 DEF Counters

LEMMA PoolTypeInit == Init => PoolTypeOK
<1> SUFFICES ASSUME Init PROVE PoolTypeOK
  OBVIOUS
<1>1. /\ status \in [Orders -> AllStatuses \cup {NoRow}]
      /\ processedAt \in [Orders -> BOOLEAN]
      /\ payments \in [Orders -> Nat]
  BY DEF Init
<1>5. msgs \in Seq(Ids) /\ sent \subseteq Unknown
  BY DEF Init
<1>6. token \in BOOLEAN /\ closed \in BOOLEAN /\ canceled \in BOOLEAN
  BY Zenon DEF Init
<1>2. wk \in [Workers -> WorkerStates] /\ \A w \in Workers : wk[w].pc = "check"
  BY DEF Init, WorkerStates
<1>3. cl \in [Clients -> ClientStates] /\ \A c \in Clients : cl[c].pc = "idle"
  BY DEF Init, ClientStates
<1>4. total \in Counters /\ rd \in [pc : {"idle", "load", "rendered"}, samples : Nat, processed : Nat]
  BY DEF Init, Counters
<1> QED BY <1>1, <1>2, <1>3, <1>4, <1>5, <1>6 DEF PoolTypeOK, AtWork, WorkerStates, ClientStates, Counters

LEMMA ClientTypes ==
  ASSUME PoolTypeOK, NEW c \in Clients, ClientSteps(c) \/ Requests(c)
  PROVE  PoolTypeOK'
<1> USE DEF orderVars, queueVars, SetStatus, ClientReturns
<1> USE DEF ClientStates, AllStatuses, Created, Processing, Paid, Shipped, Canceled, Failed, NoRow
<1>0. cl[c] \in ClientStates
  BY DEF PoolTypeOK
<1>1. CASE \E o \in Orders : Create(c, o)
  <2> PICK o \in Orders : Create(c, o)
    BY <1>1
  <2>1. cl' \in [Clients -> ClientStates] /\ \A d \in Clients :
            cl'[d].pc \in {"publish", "count", "enqueue", "write"} => cl'[d].order \in Orders
    BY ClientGoesTyped DEF Create
  <2> QED BY <2>1 DEF PoolTypeOK, Create
<1>2. CASE PublishOrderCreated(c)
  <2>1. cl' \in [Clients -> ClientStates] /\ \A d \in Clients :
            cl'[d].pc \in {"publish", "count", "enqueue", "write"} => cl'[d].order \in Orders
    BY <1>0, <1>2, ClientGoesTyped DEF PoolTypeOK, PublishOrderCreated
  <2> QED BY <1>2, <2>1 DEF PoolTypeOK, PublishOrderCreated
<1>3. CASE IncOrdersCreated(c)
  <2>1. cl' \in [Clients -> ClientStates] /\ \A d \in Clients :
            cl'[d].pc \in {"publish", "count", "enqueue", "write"} => cl'[d].order \in Orders
    BY <1>0, <1>3, ClientGoesTyped DEF PoolTypeOK, IncOrdersCreated
  <2>2. total' \in Counters
    BY <1>3, CountersTyped DEF PoolTypeOK, IncOrdersCreated, Counters
  <2> QED BY <1>3, <2>1, <2>2 DEF PoolTypeOK, IncOrdersCreated, Counters
<1>4. CASE Enqueue(c)
  <2>1. cl' \in [Clients -> ClientStates] /\ \A d \in Clients :
            cl'[d].pc \in {"publish", "count", "enqueue", "write"} => cl'[d].order \in Orders
    BY <1>4, ClientGoesTyped DEF Enqueue
  <2>2. msgs' \in Seq(Ids)
    BY <1>4 DEF PoolTypeOK, Enqueue, Ids
  <2> QED BY <1>4, <2>1, <2>2 DEF PoolTypeOK, Enqueue
<1>5. CASE \E u \in Unknown : EnqueueUnknown(c, u)
  <2> PICK u \in Unknown : EnqueueUnknown(c, u)
    BY <1>5
  <2>1. cl' \in [Clients -> ClientStates] /\ \A d \in Clients :
            cl'[d].pc \in {"publish", "count", "enqueue", "write"} => cl'[d].order \in Orders
    BY ClientGoesTyped DEF EnqueueUnknown
  <2>2. msgs' \in Seq(Ids)
    BY DEF PoolTypeOK, EnqueueUnknown, Ids
  <2> QED BY <2>1, <2>2 DEF PoolTypeOK, EnqueueUnknown
<1>6. CASE Close(c)
  <2>1. cl' \in [Clients -> ClientStates] /\ \A d \in Clients :
            cl'[d].pc \in {"publish", "count", "enqueue", "write"} => cl'[d].order \in Orders
    BY <1>6, ClientGoesTyped DEF Close
  <2> QED BY <1>6, <2>1 DEF PoolTypeOK, Close
<1>7. CASE Notify(c)
  <2>1. cl' \in [Clients -> ClientStates] /\ \A d \in Clients :
            cl'[d].pc \in {"publish", "count", "enqueue", "write"} => cl'[d].order \in Orders
    BY <1>7, ClientGoesTyped DEF Notify
  <2> QED BY <1>7, <2>1 DEF PoolTypeOK, Notify
<1>8. CASE \E o \in Orders : Cancel(c, o) \/ Ship(c, o)
  <2> PICK o \in Orders, to \in {Canceled, Shipped}, from \in {Created, Paid} : Request(c, o, to, from)
    BY <1>8 DEF Cancel, Ship
  <2>1. cl' \in [Clients -> ClientStates] /\ \A d \in Clients :
            cl'[d].pc \in {"publish", "count", "enqueue", "write"} => cl'[d].order \in Orders
    BY ClientGoesTyped DEF Request
  <2> QED BY <2>1 DEF PoolTypeOK, Request
<1>9. CASE UpdateStatus(c)
  <2>1. cl' \in [Clients -> ClientStates] /\ \A d \in Clients :
            cl'[d].pc \in {"publish", "count", "enqueue", "write"} => cl'[d].order \in Orders
    BY <1>9, ClientGoesTyped DEF UpdateStatus
  <2>2. status' \in [Orders -> AllStatuses \cup {NoRow}]
    BY <1>0, <1>9 DEF PoolTypeOK, UpdateStatus
  <2> QED BY <1>9, <2>1, <2>2 DEF PoolTypeOK, UpdateStatus
<1> QED BY <1>1, <1>2, <1>3, <1>4, <1>5, <1>6, <1>7, <1>8, <1>9 DEF ClientSteps, Requests

LEMMA WorkerTypes ==
  ASSUME PoolTypeOK, NEW w \in Workers, WorkerSteps(w)
  PROVE  PoolTypeOK'
<1> USE DEF orderVars, queueVars, SetStatus, WorkerLoops
<1> USE DEF WorkerStates, AllStatuses, Created, Processing, Paid, Shipped, Canceled, Failed, NoRow
<1>0. wk[w] \in WorkerStates
  BY DEF PoolTypeOK
<1> DEFINE Typed == /\ wk' \in [Workers -> WorkerStates]
                    /\ \A v \in Workers : /\ wk'[v].pc = "load" => wk'[v].order \in Ids
                                          /\ wk'[v].pc \in AtWork => wk'[v].order \in Orders
<1>1. CASE Check(w)
  <2>1. msgs # <<>> => Head(msgs) \in Ids /\ Tail(msgs) \in Seq(Ids)
    BY DEF PoolTypeOK
  <2>2. Typed
    BY <1>1, <2>1, WorkerGoesTyped DEF Check, AtWork
  <2>3. msgs' \in Seq(Ids)
    BY <1>1, <2>1 DEF Check, PoolTypeOK
  <2> QED BY <1>1, <2>2, <2>3 DEF PoolTypeOK, Check
<1>2. CASE WaitNotified(w)
  <2>1. Typed
    BY <1>2, WorkerGoesTyped DEF WaitNotified, AtWork
  <2> QED BY <1>2, <2>1 DEF PoolTypeOK, WaitNotified
<1>3. CASE WaitDone(w)
  <2>1. Typed
    BY <1>3, WorkerGoesTyped DEF WaitDone, AtWork
  <2> QED BY <1>3, <2>1 DEF PoolTypeOK, WaitDone
<1>4. CASE FindByID(w)
  <2>1. Typed
    BY <1>0, <1>4, WorkerGoesTyped DEF FindByID, Processable, AtWork
  <2> QED BY <1>4, <2>1 DEF PoolTypeOK, FindByID
<1> DEFINE o == wk[w].order
<1>5. CASE Start(w)
  <2>1. o \in Orders
    BY <1>5 DEF PoolTypeOK, Start, AtWork
  <2>2. Typed
    BY <1>0, <1>5, <2>1, WorkerGoesTyped DEF Start, AtWork
  <2> QED BY <1>5, <2>1, <2>2 DEF PoolTypeOK, Start
<1>6. CASE ProcessPayment(w)
  <2>1. o \in Orders
    BY <1>6 DEF PoolTypeOK, ProcessPayment, AtWork
  <2>2. Typed
    BY <1>0, <1>6, <2>1, WorkerGoesTyped DEF ProcessPayment, AtWork
  <2> QED BY <1>6, <2>1, <2>2 DEF PoolTypeOK, ProcessPayment
<1>7. CASE MarkProcessed(w)
  <2>1. o \in Orders
    BY <1>7 DEF PoolTypeOK, MarkProcessed, AtWork
  <2>2. Typed
    BY <1>0, <1>7, <2>1, WorkerGoesTyped DEF MarkProcessed, AtWork
  <2> QED BY <1>7, <2>1, <2>2 DEF PoolTypeOK, MarkProcessed
<1>8. CASE Count(w)
  <2>1. o \in Orders
    BY <1>8 DEF PoolTypeOK, Count, AtWork
  <2>2. Typed
    BY <1>0, <1>8, <2>1, WorkerGoesTyped DEF Count, AtWork
  <2>3. total' \in Counters
    <3>1. total \in Counters
      BY DEF PoolTypeOK, Counters
    <3> QED BY <1>8, <3>1, CountersTyped DEF Count
  <2> QED BY <1>8, <2>2, <2>3 DEF PoolTypeOK, Count, Counters
<1>9. CASE RecordProcessingDuration(w)
  <2>1. Typed
    BY <1>9, WorkerGoesTyped DEF RecordProcessingDuration, AtWork
  <2>2. total' \in Counters
    BY <1>9, CountersTyped DEF PoolTypeOK, RecordProcessingDuration, Counters
  <2> QED BY <1>9, <2>1, <2>2 DEF PoolTypeOK, RecordProcessingDuration, Counters
<1> QED BY <1>1, <1>2, <1>3, <1>4, <1>5, <1>6, <1>7, <1>8, <1>9 DEF WorkerSteps

LEMMA PoolTypeStep == PoolTypeOK /\ [Next]_vars => PoolTypeOK'
<1> SUFFICES ASSUME PoolTypeOK, [Next]_vars PROVE PoolTypeOK'
  OBVIOUS
<1>1. CASE CancelContext
  BY <1>1 DEF PoolTypeOK, CancelContext, orderVars, queueVars
<1>2. CASE Render
  BY <1>2 DEF PoolTypeOK, Render, SnapshotSamples, LoadProcessed, orderVars, queueVars
<1>3. CASE UNCHANGED vars
  BY <1>3 DEF PoolTypeOK, vars, orderVars, queueVars
<1> QED BY <1>1, <1>2, <1>3, ClientTypes, WorkerTypes DEF Next

\* Every variable keeps its type; the order that a worker works on exists.
THEOREM PoolTypes == Spec => []PoolTypeOK
BY PoolTypeInit, PoolTypeStep, PTL DEF Spec

-----------------------------------------------------------------------------
(* The notify channel.  Who waits, who is about to send and what the channel   *)
(* holds are related by the steps of one goroutine at a time.                  *)

LEMMA WakeupStep ==
  ASSUME PoolTypeOK, NoLostWakeup, CloseWakesOne, [Next]_vars
  PROVE  NoLostWakeup' /\ CloseWakesOne'
<1> USE DEF NoLostWakeup, CloseWakesOne, orderVars, queueVars
<1>1. ASSUME NEW c \in Clients, ClientSteps(c) \/ Requests(c)
      PROVE  NoLostWakeup' /\ CloseWakesOne'
  <2>1. cl[c].pc # "notify" /\ UNCHANGED <<token, wk, closed>> /\ UNCHANGED msgs
        /\ (\A d \in Clients : d # c => cl'[d] = cl[d])
        => NoLostWakeup' /\ CloseWakesOne'
    OBVIOUS
  <2>2. cl'[c].pc = "notify" /\ wk' = wk => NoLostWakeup' /\ CloseWakesOne'
    OBVIOUS
  <2>3. CASE Notify(c)
    BY <2>3 DEF Notify
  <2>4. CASE Enqueue(c) \/ Close(c) \/ \E u \in Unknown : EnqueueUnknown(c, u)
    <3>1. cl'[c].pc = "notify" /\ wk' = wk
      BY <2>4 DEF Enqueue, Close, EnqueueUnknown, ClientGoes, PoolTypeOK
    <3> QED BY <2>2, <3>1
  <2>5. CASE PublishOrderCreated(c) \/ IncOrdersCreated(c) \/ UpdateStatus(c)
             \/ \E o \in Orders : Create(c, o) \/ Cancel(c, o) \/ Ship(c, o)
    BY <2>1, <2>5 DEF PublishOrderCreated, IncOrdersCreated, UpdateStatus, Create, Cancel, Ship,
                      Request, ClientGoes, ClientReturns, PoolTypeOK
  <2> QED BY <1>1, <2>3, <2>4, <2>5 DEF ClientSteps, Requests
<1>2. ASSUME NEW w \in Workers, WorkerSteps(w)
      PROVE  NoLostWakeup' /\ CloseWakesOne'
  <2>1. UNCHANGED <<cl, closed>>
    BY <1>2 DEF WorkerSteps, Check, WaitNotified, WaitDone, FindByID, Start, ProcessPayment,
                MarkProcessed, Count, RecordProcessingDuration
  <2>2. wk'[w].pc \notin {"wait", "stopped"} => NoLostWakeup' /\ CloseWakesOne'
    OBVIOUS
  <2>3. CASE Check(w)
    <3>1. CASE msgs = <<>> /\ closed
      <4>1. msgs' = <<>> /\ wk'[w].pc = "stopped"
        BY <2>3, <3>1 DEF Check, WorkerGoes, PoolTypeOK
      <4> QED BY <4>1
    <3>2. CASE msgs = <<>> /\ ~closed
      <4>1. msgs' = <<>> /\ ~closed'
        BY <2>1, <2>3, <3>2 DEF Check
      <4> QED BY <4>1
    <3>3. CASE msgs # <<>>
      <4>1. wk'[w].pc = "load"
        BY <2>3, <3>3 DEF Check, WorkerGoes, PoolTypeOK
      <4> QED BY <2>2, <4>1
    <3> QED BY <3>1, <3>2, <3>3
  <2>4. CASE WaitDone(w)
    <3>1. /\ wk'[w].pc = "stopped" /\ wk[w].pc = "wait"
          /\ \A v \in Workers : v # w => wk'[v] = wk[v]
          /\ UNCHANGED <<msgs, token>>
      BY <2>4 DEF WaitDone, WorkerGoes, PoolTypeOK
    <3> QED BY <2>1, <3>1
  <2>5. CASE WaitNotified(w) \/ FindByID(w) \/ Start(w) \/ ProcessPayment(w) \/ MarkProcessed(w)
             \/ Count(w) \/ RecordProcessingDuration(w)
    <3>1. wk'[w].pc \notin {"wait", "stopped"}
      BY <2>5 DEF WaitNotified, FindByID, Start, ProcessPayment, MarkProcessed, Count,
                  RecordProcessingDuration, WorkerGoes, WorkerLoops, PoolTypeOK
    <3> QED BY <2>2, <3>1
  <2> QED BY <1>2, <2>3, <2>4, <2>5 DEF WorkerSteps
<1>3. CASE CancelContext \/ Render \/ UNCHANGED vars
  BY <1>3 DEF CancelContext, Render, SnapshotSamples, LoadProcessed, vars
<1> QED BY <1>1, <1>2, <1>3 DEF Next

WakeupInv == PoolTypeOK /\ NoLostWakeup /\ CloseWakesOne

LEMMA WakeupInvariant == Spec => []WakeupInv
<1>1. Init => WakeupInv
  BY PoolTypeInit DEF Init, WakeupInv, NoLostWakeup, CloseWakesOne
<1>2. WakeupInv /\ [Next]_vars => WakeupInv'
  BY PoolTypeStep, WakeupStep DEF WakeupInv
<1> QED BY <1>1, <1>2, PTL DEF Spec

\* The one slot of the notify channel is enough, for any number of workers: a message
\* is never queued while every worker that is left sleeps and nobody is to wake one.
THEOREM NoWakeupIsLost == Spec => []NoLostWakeup
<1>1. WakeupInv => NoLostWakeup
  BY DEF WakeupInv
<1> QED BY <1>1, WakeupInvariant, PTL

\* Close never leaves all the workers asleep: until one has stopped, its token is in
\* the channel or about to be.
THEOREM CloseReachesAWorker == Spec => []CloseWakesOne
<1>1. WakeupInv => CloseWakesOne
  BY DEF WakeupInv
<1> QED BY <1>1, WakeupInvariant, PTL

-----------------------------------------------------------------------------
(* One place per order.  An order that nobody has started is pending at one    *)
(* client, or queued once, or held by one worker; so no two workers ever       *)
(* process it, although Process does not lock it.                             *)

Queued(o) == \E i \in 1..Len(msgs) : msgs[i] = o
Pending(c, o) == cl[c].pc \in {"publish", "count", "enqueue"} /\ cl[c].order = o
Held(w, o) == wk[w].pc \in {"load"} \cup AtWork /\ wk[w].order = o

QueuedOnce == \A i, j \in 1..Len(msgs) : msgs[i] = msgs[j] /\ msgs[i] \in Orders => i = j

OnePlace ==
    \A o \in Orders :
        /\ \A c \in Clients : Pending(c, o) =>
              ~Queued(o) /\ (\A w \in Workers : ~Held(w, o)) /\ \A d \in Clients : Pending(d, o) => d = c
        /\ \A w \in Workers : Held(w, o) =>
              ~Queued(o) /\ \A v \in Workers : Held(v, o) => v = w

PlacedExists ==
    \A o \in Orders :
        Queued(o) \/ (\E c \in Clients : Pending(c, o)) \/ (\E w \in Workers : Held(w, o)) =>
            status[o] # NoRow

PlaceInv == QueuedOnce /\ OnePlace /\ PlacedExists

\* An order that is not with a worker yet is neither charged nor settled.
FreshUncharged ==
    \A o \in Orders :
        status[o] = NoRow \/ Queued(o) \/ (\E c \in Clients : Pending(c, o)) =>
            payments[o] = 0 /\ ~processedAt[o]

\* What a worker may rely on where it is.
WorkerKnows ==
    \A w \in Workers :
        LET o == wk[w].order
        IN  /\ wk[w].pc \in {"load", "start", "pay"} /\ o \in Orders => payments[o] = 0 /\ ~processedAt[o]
            /\ wk[w].pc = "start" => status[o] \in {Created, Canceled}
            /\ wk[w].pc = "pay" => status[o] \in {Processing, Canceled}
            /\ wk[w].pc = "mark" => payments[o] = 1 /\ ~processedAt[o]

\* What a client that is about to write a status may rely on.
ClientKnows ==
    \A c \in Clients :
        LET o == cl[c].order
        IN  cl[c].pc = "write" =>
                /\ status[o] # NoRow
                /\ cl[c].to = Canceled \/ (cl[c].to = Shipped /\ processedAt[o] /\ o \notin Declined)

PaidIsSettled == \A o \in Orders : status[o] = Paid => processedAt[o] /\ o \notin Declined

KnowInv == FreshUncharged /\ WorkerKnows /\ ClientKnows /\ PaidIsSettled

\* A step that moves no order.
LEMMA PlaceKept ==
  ASSUME PoolTypeOK, PlaceInv,
         UNCHANGED msgs,
         \A c \in Clients, o \in Orders : Pending(c, o)' => Pending(c, o),
         \A w \in Workers, o \in Orders : Held(w, o)' => Held(w, o),
         \A o \in Orders : status[o] # NoRow => status'[o] # NoRow
  PROVE  PlaceInv'
<1>1. QueuedOnce' /\ \A o \in Orders : Queued(o)' <=> Queued(o)
  BY DEF PlaceInv, QueuedOnce, Queued
<1>2. OnePlace'
  BY <1>1 DEF PlaceInv, OnePlace
<1>3. PlacedExists'
  BY <1>1 DEF PlaceInv, PlacedExists
<1> QED BY <1>1, <1>2, <1>3 DEF PlaceInv

LEMMA PlaceStep ==
  ASSUME PoolTypeOK, PlaceInv, ClientKnows, [Next]_vars
  PROVE  PlaceInv'
<1> USE PoolAssumption DEF orderVars, queueVars, AtWork
<1> USE DEF AllStatuses, Created, Processing, Paid, Shipped, Canceled, Failed, NoRow
<1>c. \A c \in Clients : cl[c] \in ClientStates
  BY DEF PoolTypeOK, ClientStates
<1>w. \A w \in Workers : wk[w] \in WorkerStates
  BY DEF PoolTypeOK, WorkerStates
<1>1. ASSUME NEW c \in Clients, NEW o \in Orders, Create(c, o)
      PROVE  PlaceInv'
  <2>1. /\ \A d \in Clients, p \in Orders : Pending(d, p)' <=> (Pending(d, p) \/ (d = c /\ p = o))
        /\ \A w \in Workers, p \in Orders : Held(w, p)' <=> Held(w, p)
        /\ UNCHANGED msgs
    BY <1>1 DEF Create, ClientGoes, PoolTypeOK, Pending, Held
  <2>2. /\ status[o] = NoRow /\ status'[o] # NoRow
        /\ \A p \in Orders : p # o => status'[p] = status[p]
    BY <1>1 DEF Create, SetStatus, PoolTypeOK
  <2>3. QueuedOnce' /\ \A p \in Orders : Queued(p)' <=> Queued(p)
    BY <2>1 DEF PlaceInv, QueuedOnce, Queued
  <2>4. ~Queued(o) /\ (\A d \in Clients : ~Pending(d, o)) /\ \A w \in Workers : ~Held(w, o)
    BY <2>2 DEF PlaceInv, PlacedExists
  <2>5. OnePlace'
    BY <2>1, <2>3, <2>4 DEF PlaceInv, OnePlace
  <2>6. PlacedExists'
    BY <2>1, <2>2, <2>3 DEF PlaceInv, PlacedExists
  <2> QED BY <2>3, <2>5, <2>6 DEF PlaceInv
<1>2. ASSUME NEW c \in Clients, Enqueue(c)
      PROVE  PlaceInv'
  <2> DEFINE o == cl[c].order
  <2>1. o \in Orders /\ Pending(c, o)
    BY <1>2 DEF Enqueue, PoolTypeOK, Pending
  <2>2. /\ \A d \in Clients, p \in Orders : Pending(d, p)' <=> (Pending(d, p) /\ d # c)
        /\ \A w \in Workers, p \in Orders : Held(w, p)' <=> Held(w, p)
        /\ UNCHANGED status
    BY <1>2 DEF Enqueue, ClientGoes, PoolTypeOK, Pending, Held
  <2>3. /\ Len(msgs) \in Nat /\ Len(msgs') = Len(msgs) + 1 /\ msgs'[Len(msgs) + 1] = o
        /\ \A i \in 1..Len(msgs) : msgs'[i] = msgs[i]
    BY <1>2 DEF Enqueue, PoolTypeOK
  <2>4. \A p \in Orders : Queued(p)' <=> (Queued(p) \/ p = o)
    BY <2>3 DEF Queued
  <2>5. ~Queued(o) /\ (\A d \in Clients : d # c => ~Pending(d, o)) /\ \A w \in Workers : ~Held(w, o)
    BY <2>1 DEF PlaceInv, OnePlace
  <2>6. QueuedOnce'
    BY <2>3, <2>5 DEF PlaceInv, QueuedOnce, Queued
  <2>7. OnePlace'
    BY <2>2, <2>4, <2>5 DEF PlaceInv, OnePlace
  <2>8. PlacedExists'
    BY <2>1, <2>2, <2>4 DEF PlaceInv, PlacedExists
  <2> QED BY <2>6, <2>7, <2>8 DEF PlaceInv
<1>3. ASSUME NEW c \in Clients, NEW u \in Unknown, EnqueueUnknown(c, u)
      PROVE  PlaceInv'
  <2>1. /\ \A d \in Clients, p \in Orders : Pending(d, p)' <=> Pending(d, p)
        /\ \A w \in Workers, p \in Orders : Held(w, p)' <=> Held(w, p)
        /\ UNCHANGED status
    BY <1>3 DEF EnqueueUnknown, ClientGoes, PoolTypeOK, Pending, Held
  <2>2. /\ Len(msgs) \in Nat /\ Len(msgs') = Len(msgs) + 1 /\ msgs'[Len(msgs) + 1] = u
        /\ \A i \in 1..Len(msgs) : msgs'[i] = msgs[i]
    BY <1>3 DEF EnqueueUnknown, PoolTypeOK, Ids
  <2>3. u \notin Orders
    BY <1>3
  <2>4. \A p \in Orders : Queued(p)' <=> Queued(p)
    BY <2>2, <2>3 DEF Queued
  <2>5. QueuedOnce'
    BY <2>2, <2>3 DEF PlaceInv, QueuedOnce
  <2>6. OnePlace' /\ PlacedExists'
    BY <2>1, <2>4 DEF PlaceInv, OnePlace, PlacedExists
  <2> QED BY <2>5, <2>6 DEF PlaceInv
<1>4. ASSUME NEW w \in Workers, Check(w), msgs # <<>>
      PROVE  PlaceInv'
  <2> DEFINE o == Head(msgs)
  <2>1. /\ Len(msgs) \in Nat /\ Len(msgs) > 0 /\ o = msgs[1] /\ Len(msgs') = Len(msgs) - 1
        /\ \A i \in 1..Len(msgs') : msgs'[i] = msgs[i + 1]
    <3>1. msgs' = Tail(msgs) /\ msgs \in Seq(Ids)
      BY <1>4 DEF Check, PoolTypeOK
    <3>2. Len(msgs) \in Nat /\ Len(msgs) # 0
      BY <1>4, <3>1, EmptySeq
    <3> QED BY <1>4, <3>1, <3>2, HeadTailProperties
  <2>2. /\ \A d \in Clients, p \in Orders : Pending(d, p)' <=> Pending(d, p)
        /\ UNCHANGED status
    BY <1>4 DEF Check, Pending
  <2>3. \A v \in Workers, p \in Orders : Held(v, p)' <=> (Held(v, p) \/ (v = w /\ p = o))
    BY <1>4 DEF Check, WorkerGoes, PoolTypeOK, Held
  <2>4. \A p \in Orders : Queued(p)' => Queued(p) /\ p # o
    <3> SUFFICES ASSUME NEW p \in Orders, NEW i \in 1..Len(msgs'), msgs'[i] = p
                 PROVE  Queued(p) /\ p # o
      BY DEF Queued
    <3>1. i + 1 \in 1..Len(msgs) /\ msgs[i + 1] = p /\ i + 1 # 1 /\ 1 \in 1..Len(msgs)
      BY <2>1
    <3> QED BY <2>1, <3>1 DEF PlaceInv, QueuedOnce, Queued
  <2>5. o \in Orders => Queued(o)
    BY <2>1 DEF Queued
  <2>6. QueuedOnce'
    <3> SUFFICES ASSUME NEW i \in 1..Len(msgs'), NEW j \in 1..Len(msgs'),
                        msgs'[i] = msgs'[j], msgs'[i] \in Orders
                 PROVE  i = j
      BY DEF QueuedOnce
    <3>1. i + 1 \in 1..Len(msgs) /\ j + 1 \in 1..Len(msgs) /\ msgs[i + 1] = msgs[j + 1]
          /\ msgs[i + 1] \in Orders
      BY <2>1
    <3>2. i + 1 = j + 1
      BY <3>1 DEF PlaceInv, QueuedOnce
    <3> QED BY <2>1, <3>2
  <2>7. OnePlace'
    BY <2>2, <2>3, <2>4, <2>5 DEF PlaceInv, OnePlace
  <2>8. PlacedExists'
    BY <2>2, <2>3, <2>4, <2>5 DEF PlaceInv, PlacedExists
  <2> QED BY <2>6, <2>7, <2>8 DEF PlaceInv
<1>5. ASSUME NEW c \in Clients,
             PublishOrderCreated(c) \/ IncOrdersCreated(c) \/ Notify(c) \/ UpdateStatus(c) \/ Close(c)
             \/ \E o \in Orders : Cancel(c, o) \/ Ship(c, o)
      PROVE  PlaceInv'
  <2>1. UNCHANGED <<msgs, wk>>
    BY <1>5 DEF PublishOrderCreated, IncOrdersCreated, Notify, UpdateStatus, Close, Cancel, Ship, Request
  <2>2. \A d \in Clients, o \in Orders : Pending(d, o)' => Pending(d, o)
    <3>1. \A d \in Clients : d # c => cl'[d] = cl[d]
      BY <1>5 DEF PublishOrderCreated, IncOrdersCreated, Notify, UpdateStatus, Close, Cancel, Ship,
                  Request, ClientGoes, ClientReturns, PoolTypeOK
    <3>2. CASE PublishOrderCreated(c) \/ IncOrdersCreated(c)
      <4>1. cl[c].pc \in {"publish", "count", "enqueue"}
        BY <3>2 DEF PublishOrderCreated, IncOrdersCreated
      <4>2. cl'[c].pc = "idle" \/ cl'[c].order = cl[c].order
        BY <3>2 DEF PublishOrderCreated, IncOrdersCreated, ClientGoes, ClientReturns, PoolTypeOK
      <4> QED BY <3>1, <4>1, <4>2 DEF Pending
    <3>3. CASE Notify(c) \/ Close(c) \/ UpdateStatus(c) \/ \E o \in Orders : Cancel(c, o) \/ Ship(c, o)
      <4>1. cl'[c].pc \in {"idle", "notify", "write"}
        BY <3>3 DEF Notify, UpdateStatus, Close, Cancel, Ship, Request, ClientGoes, ClientReturns, PoolTypeOK
      <4> QED BY <3>1, <4>1 DEF Pending
    <3> QED BY <1>5, <3>2, <3>3
  <2>3. \A o \in Orders : status[o] # NoRow => status'[o] # NoRow
    <3>1. CASE UpdateStatus(c)
      BY <3>1 DEF UpdateStatus, SetStatus, PoolTypeOK, ClientKnows
    <3>2. CASE UNCHANGED status
      BY <3>2
    <3> QED BY <1>5, <3>1, <3>2 DEF PublishOrderCreated, IncOrdersCreated, Notify, Close, Cancel, Ship, Request
  <2> QED BY <2>1, <2>2, <2>3, PlaceKept DEF Held
<1>6. ASSUME NEW w \in Workers, WorkerSteps(w), ~(Check(w) /\ msgs # <<>>)
      PROVE  PlaceInv'
  <2>1. UNCHANGED <<msgs, cl>>
    BY <1>6 DEF WorkerSteps, Check, WaitNotified, WaitDone, FindByID, Start, ProcessPayment,
                MarkProcessed, Count, RecordProcessingDuration
  <2>2. \A v \in Workers, o \in Orders : Held(v, o)' => Held(v, o)
    <3>1. \A v \in Workers : v # w => wk'[v] = wk[v]
      BY <1>6 DEF WorkerSteps, Check, WaitNotified, WaitDone, FindByID, Start, ProcessPayment,
                  MarkProcessed, Count, RecordProcessingDuration, WorkerGoes, WorkerLoops, PoolTypeOK
    <3>2. CASE Check(w) \/ WaitNotified(w) \/ WaitDone(w)
      <4>1. wk'[w].pc \in {"check", "wait", "stopped"}
        BY <1>6, <3>2 DEF Check, WaitNotified, WaitDone, WorkerGoes, WorkerLoops, PoolTypeOK
      <4> QED BY <3>1, <4>1 DEF Held
    <3>3. CASE FindByID(w) \/ Start(w) \/ ProcessPayment(w) \/ MarkProcessed(w) \/ Count(w)
               \/ RecordProcessingDuration(w)
      <4>1. wk[w].pc \in {"load"} \cup AtWork
        BY <3>3 DEF FindByID, Start, ProcessPayment, MarkProcessed, Count, RecordProcessingDuration
      <4>2. wk'[w].pc = "check" \/ wk'[w].order = wk[w].order
        BY <3>3 DEF FindByID, Start, ProcessPayment, MarkProcessed, Count, RecordProcessingDuration,
                    WorkerGoes, WorkerLoops, PoolTypeOK
      <4> QED BY <3>1, <4>1, <4>2 DEF Held
    <3> QED BY <1>6, <3>2, <3>3 DEF WorkerSteps
  <2>3. \A o \in Orders : status[o] # NoRow => status'[o] # NoRow
    BY <1>6 DEF WorkerSteps, Check, WaitNotified, WaitDone, FindByID, Start, ProcessPayment,
                MarkProcessed, Count, RecordProcessingDuration, SetStatus, PoolTypeOK
  <2> QED BY <2>1, <2>2, <2>3, PlaceKept DEF Pending
<1>7. CASE CancelContext \/ Render \/ UNCHANGED vars
  <2>1. UNCHANGED <<msgs, cl, wk, status>>
    BY <1>7 DEF CancelContext, Render, SnapshotSamples, LoadProcessed, vars
  <2> QED BY <2>1, PlaceKept DEF Pending, Held
<1> QED BY <1>1, <1>2, <1>3, <1>4, <1>5, <1>6, <1>7 DEF Next, ClientSteps, Requests

-----------------------------------------------------------------------------
\* A step that touches no order and puts nobody where there is more to know.
LEMMA KnowKept ==
  ASSUME KnowInv, UNCHANGED orderVars,
         \A o \in Orders : Queued(o)' => Queued(o) \/ \E c \in Clients : Pending(c, o),
         \A c \in Clients, o \in Orders : Pending(c, o)' => Pending(c, o),
         \A w \in Workers : wk'[w] = wk[w] \/ wk'[w].pc \notin {"load", "start", "pay", "mark"},
         \A c \in Clients : cl'[c] = cl[c] \/ cl'[c].pc # "write"
  PROVE  KnowInv'
<1>1. FreshUncharged'
  BY DEF KnowInv, FreshUncharged, orderVars
<1>2. WorkerKnows'
  BY DEF KnowInv, WorkerKnows, orderVars
<1>3. ClientKnows'
  BY DEF KnowInv, ClientKnows, orderVars
<1>4. PaidIsSettled'
  BY DEF KnowInv, PaidIsSettled, orderVars
<1> QED BY <1>1, <1>2, <1>3, <1>4 DEF KnowInv

\* A step of worker w on the order o that it holds.
LEMMA KnowAtWork ==
  ASSUME PoolTypeOK, PlaceInv, KnowInv, NEW w \in Workers, wk[w].pc \in AtWork,
         NEW s \in AllStatuses, NEW n \in Nat, NEW b \in BOOLEAN,
         status' = [status EXCEPT ![wk[w].order] = s],
         payments' = [payments EXCEPT ![wk[w].order] = n],
         processedAt' = [processedAt EXCEPT ![wk[w].order] = b],
         \A v \in Workers : v # w => wk'[v] = wk[v],
         UNCHANGED <<msgs, cl>>,
         processedAt[wk[w].order] => b,
         s = Paid => b /\ wk[w].order \notin Declined,
         LET o == wk'[w].order
         IN  /\ wk'[w].pc \in {"load", "start", "pay"} /\ o \in Orders => payments'[o] = 0 /\ ~processedAt'[o]
             /\ wk'[w].pc = "start" => status'[o] \in {Created, Canceled}
             /\ wk'[w].pc = "pay" => status'[o] \in {Processing, Canceled}
             /\ wk'[w].pc = "mark" => payments'[o] = 1 /\ ~processedAt'[o]
  PROVE  KnowInv'
<1> DEFINE o == wk[w].order
<1>1. o \in Orders /\ Held(w, o)
  BY DEF PoolTypeOK, Held
<1>2. /\ \A p \in Orders : p # o =>
            status'[p] = status[p] /\ payments'[p] = payments[p] /\ processedAt'[p] = processedAt[p]
      /\ status'[o] = s /\ payments'[o] = n /\ (processedAt'[o] <=> b) /\ s # NoRow
  BY <1>1 DEF PoolTypeOK, AllStatuses, Created, Processing, Paid, Shipped, Canceled, Failed, NoRow
<1>3. ~Queued(o) /\ (\A c \in Clients : ~Pending(c, o)) /\ \A v \in Workers : v # w => ~Held(v, o)
  BY <1>1 DEF PlaceInv, OnePlace
<1>4. /\ \A p \in Orders : Queued(p)' <=> Queued(p)
      /\ \A c \in Clients, p \in Orders : Pending(c, p)' <=> Pending(c, p)
  BY DEF Queued, Pending
<1>5. FreshUncharged'
  BY <1>2, <1>3, <1>4 DEF KnowInv, FreshUncharged
<1>6. WorkerKnows'
  <2>1. \A v \in Workers : v # w /\ wk[v].pc \in {"load"} \cup AtWork => wk[v].order # o
    BY <1>3 DEF Held
  <2>2. \A v \in Workers : wk[v].pc \in AtWork => wk[v].order \in Orders
    BY DEF PoolTypeOK
  <2>3. ASSUME NEW v \in Workers, v # w
        PROVE  LET q == wk'[v].order
               IN  /\ wk'[v].pc \in {"load", "start", "pay"} /\ q \in Orders => payments'[q] = 0 /\ ~processedAt'[q]
                   /\ wk'[v].pc = "start" => status'[q] \in {Created, Canceled}
                   /\ wk'[v].pc = "pay" => status'[q] \in {Processing, Canceled}
                   /\ wk'[v].pc = "mark" => payments'[q] = 1 /\ ~processedAt'[q]
    BY <1>2, <2>1, <2>2, <2>3 DEF KnowInv, WorkerKnows, AtWork
  <2> QED BY <2>3 DEF WorkerKnows
<1>7. ClientKnows'
  <2>1. \A c \in Clients : cl[c].pc = "write" => cl[c].order \in Orders
    BY DEF PoolTypeOK
  <2>2. \A p \in Orders : (status[p] # NoRow => status'[p] # NoRow) /\ (processedAt[p] => processedAt'[p])
    BY <1>2
  <2>3. SUFFICES ASSUME NEW c \in Clients, cl[c].pc = "write"
                 PROVE  /\ status'[cl[c].order] # NoRow
                        /\ cl[c].to = Canceled
                           \/ (cl[c].to = Shipped /\ processedAt'[cl[c].order] /\ cl[c].order \notin Declined)
    BY Zenon DEF ClientKnows
  <2>4. /\ status[cl[c].order] # NoRow
        /\ cl[c].to = Canceled \/ (cl[c].to = Shipped /\ processedAt[cl[c].order] /\ cl[c].order \notin Declined)
    BY <2>3 DEF KnowInv, ClientKnows
  <2> QED BY <2>1, <2>2, <2>3, <2>4
<1>8. PaidIsSettled'
  BY <1>2 DEF KnowInv, PaidIsSettled
<1> QED BY <1>5, <1>6, <1>7, <1>8 DEF KnowInv

LEMMA KnowWorkerStep ==
  ASSUME PoolTypeOK, PlaceInv, KnowInv, NEW w \in Workers, WorkerSteps(w)
  PROVE  KnowInv'
<1> USE DEF orderVars, queueVars, AtWork
<1> DEFINE o == wk[w].order
<1>1. /\ \A v \in Workers : v # w => wk'[v] = wk[v]
      /\ UNCHANGED cl
  BY DEF WorkerSteps, Check, WaitNotified, WaitDone, FindByID, Start, ProcessPayment,
         MarkProcessed, Count, RecordProcessingDuration, WorkerGoes, WorkerLoops, PoolTypeOK
<1>2. \A c \in Clients, p \in Orders : Pending(c, p)' <=> Pending(c, p)
  BY <1>1 DEF Pending
<1>3. CASE Check(w) /\ msgs # <<>>
  <2>1. /\ Len(msgs) \in Nat /\ Len(msgs) > 0 /\ Head(msgs) = msgs[1] /\ Len(msgs') = Len(msgs) - 1
        /\ \A i \in 1..Len(msgs') : msgs'[i] = msgs[i + 1]
    <3>1. msgs' = Tail(msgs) /\ msgs \in Seq(Ids)
      BY <1>3 DEF Check, PoolTypeOK
    <3>2. Len(msgs) \in Nat /\ Len(msgs) # 0
      BY <1>3, <3>1, EmptySeq
    <3> QED BY <1>3, <3>1, <3>2, HeadTailProperties
  <2>2. \A p \in Orders : Queued(p)' => Queued(p)
    <3> SUFFICES ASSUME NEW p \in Orders, NEW i \in 1..Len(msgs'), msgs'[i] = p
                 PROVE  Queued(p)
      BY DEF Queued
    <3>1. i + 1 \in 1..Len(msgs) /\ msgs[i + 1] = p
      BY <2>1
    <3> QED BY <3>1 DEF Queued
  <2>3. 1 \in 1..Len(msgs)
    BY <2>1
  <2>4. Queued(Head(msgs))
    BY <2>1, <2>3 DEF Queued
  <2>5. wk'[w].pc = "load" /\ wk'[w].order = Head(msgs) /\ UNCHANGED orderVars
    BY <1>3 DEF Check, WorkerGoes, PoolTypeOK
  <2>6. FreshUncharged' /\ PaidIsSettled' /\ ClientKnows'
    BY <1>1, <1>2, <2>2, <2>5 DEF KnowInv, FreshUncharged, PaidIsSettled, ClientKnows
  <2>7. WorkerKnows'
    BY <1>1, <2>4, <2>5 DEF KnowInv, FreshUncharged, WorkerKnows
  <2> QED BY <2>6, <2>7 DEF KnowInv
<1>4. CASE (Check(w) /\ msgs = <<>>) \/ WaitNotified(w) \/ WaitDone(w) \/ Count(w)
           \/ RecordProcessingDuration(w)
  <2>1. UNCHANGED orderVars /\ UNCHANGED msgs
    BY <1>4 DEF Check, WaitNotified, WaitDone, Count, RecordProcessingDuration
  <2>2. wk'[w].pc \notin {"load", "start", "pay", "mark"}
    BY <1>4 DEF Check, WaitNotified, WaitDone, Count, RecordProcessingDuration, WorkerGoes,
                WorkerLoops, PoolTypeOK
  <2> QED BY <1>1, <1>2, <2>1, <2>2, KnowKept DEF Queued
<1>5. CASE FindByID(w)
  <2>1. UNCHANGED orderVars /\ UNCHANGED msgs
    BY <1>5 DEF FindByID
  <2>2. CASE ~Processable(o)
    <3>1. wk'[w].pc = "check"
      BY <1>5, <2>2 DEF FindByID, WorkerGoes, WorkerLoops, PoolTypeOK
    <3> QED BY <1>1, <1>2, <2>1, <3>1, KnowKept DEF Queued
  <2>3. CASE Processable(o)
    <3>1. wk[w].pc = "load" /\ wk'[w].pc = "start" /\ wk'[w].order = o /\ o \in Orders /\ status[o] = Created
      BY <1>5, <2>3 DEF FindByID, WorkerGoes, PoolTypeOK, Processable
    <3>2. FreshUncharged' /\ PaidIsSettled' /\ ClientKnows'
      BY <1>1, <1>2, <2>1 DEF KnowInv, FreshUncharged, PaidIsSettled, ClientKnows, Queued
    <3>3. WorkerKnows'
      BY <1>1, <2>1, <3>1 DEF KnowInv, WorkerKnows
    <3> QED BY <3>2, <3>3 DEF KnowInv
  <2> QED BY <2>2, <2>3
<1>6. CASE Start(w)
  <2>1. o \in Orders /\ payments[o] = 0 /\ ~processedAt[o]
    BY <1>6 DEF Start, PoolTypeOK, KnowInv, WorkerKnows
  <2>2. wk'[w].pc = "pay" /\ wk'[w].order = o /\ UNCHANGED msgs
    BY <1>6 DEF Start, WorkerGoes, PoolTypeOK
  <2>3. /\ status' = [status EXCEPT ![o] = Processing]
        /\ payments' = [payments EXCEPT ![o] = 0]
        /\ processedAt' = [processedAt EXCEPT ![o] = FALSE]
    BY <1>6, <2>1 DEF Start, SetStatus, PoolTypeOK
  <2>4. status'[o] = Processing /\ payments'[o] = 0 /\ ~processedAt'[o]
    BY <2>1, <2>3 DEF PoolTypeOK
  <2>5. Processing \in AllStatuses /\ Processing # Paid /\ wk[w].pc \in AtWork
    BY <1>6 DEF Start, AllStatuses, Processing, Paid
  <2> QED
    BY <1>1, <2>1, <2>2, <2>3, <2>4, <2>5, KnowAtWork
<1>7. CASE ProcessPayment(w)
  <2>1. o \in Orders /\ payments[o] = 0 /\ ~processedAt[o] /\ status[o] \in {Processing, Canceled}
    BY <1>7 DEF ProcessPayment, PoolTypeOK, KnowInv, WorkerKnows
  <2>2. wk'[w].pc = "mark" /\ wk'[w].order = o /\ UNCHANGED msgs
    BY <1>7 DEF ProcessPayment, WorkerGoes, PoolTypeOK
  <2>3. /\ status' = [status EXCEPT ![o] = status[o]]
        /\ payments' = [payments EXCEPT ![o] = 1]
        /\ processedAt' = [processedAt EXCEPT ![o] = FALSE]
    BY <1>7, <2>1 DEF ProcessPayment, PoolTypeOK
  <2>4. payments'[o] = 1 /\ ~processedAt'[o]
    BY <2>1, <2>3 DEF PoolTypeOK
  <2>5. status[o] \in AllStatuses /\ status[o] # Paid /\ wk[w].pc \in AtWork
    BY <1>7, <2>1 DEF ProcessPayment, AllStatuses, Processing, Canceled, Paid
  <2> QED
    BY <1>1, <2>1, <2>2, <2>3, <2>4, <2>5, KnowAtWork
<1>8. CASE MarkProcessed(w)
  <2> DEFINE s == IF o \in Declined THEN Failed ELSE Paid
  <2>1. o \in Orders /\ payments[o] \in Nat
    BY <1>8 DEF MarkProcessed, PoolTypeOK
  <2>2. wk'[w].pc = "count" /\ UNCHANGED msgs
    BY <1>8 DEF MarkProcessed, WorkerGoes, PoolTypeOK
  <2>3. /\ status' = [status EXCEPT ![o] = s]
        /\ payments' = [payments EXCEPT ![o] = payments[o]]
        /\ processedAt' = [processedAt EXCEPT ![o] = TRUE]
    BY <1>8, <2>1 DEF MarkProcessed, SetStatus, PoolTypeOK
  <2>4. s \in AllStatuses /\ (s = Paid => o \notin Declined)
    BY DEF AllStatuses, Failed, Paid
  <2> HIDE DEF s
  <2> QED
    BY <1>1, <1>8, <2>1, <2>2, <2>3, <2>4, KnowAtWork DEF MarkProcessed
<1> QED BY <1>3, <1>4, <1>5, <1>6, <1>7, <1>8 DEF WorkerSteps

LEMMA KnowClientStep ==
  ASSUME PoolTypeOK, PlaceInv, KnowInv, NEW c \in Clients, ClientSteps(c) \/ Requests(c)
  PROVE  KnowInv'
<1> USE DEF orderVars, queueVars
<1>1. /\ \A d \in Clients : d # c => cl'[d] = cl[d]
      /\ UNCHANGED <<wk, payments, processedAt>>
  BY DEF ClientSteps, Requests, PublishOrderCreated, IncOrdersCreated, Enqueue, Notify, UpdateStatus,
         Create, Cancel, Ship, EnqueueUnknown, Close, Request, ClientGoes, ClientReturns, PoolTypeOK
<1>2. CASE \E o \in Orders : Create(c, o)
  <2> PICK o \in Orders : Create(c, o)
    BY <1>2
  <2>1. /\ cl'[c].pc = "publish" /\ cl'[c].order = o /\ cl[c].pc = "idle" /\ UNCHANGED msgs
    BY DEF Create, ClientGoes, PoolTypeOK
  <2>2. /\ status[o] = NoRow /\ status'[o] = Created
        /\ \A p \in Orders : p # o => status'[p] = status[p]
    BY DEF Create, SetStatus, PoolTypeOK
  <2>3. ~Queued(o) /\ \A w \in Workers : ~Held(w, o)
    BY <2>2 DEF PlaceInv, PlacedExists
  <2>4. payments[o] = 0 /\ ~processedAt[o]
    BY <2>2 DEF KnowInv, FreshUncharged
  <2>5. FreshUncharged'
    <3>1. \A d \in Clients, p \in Orders : Pending(d, p)' => Pending(d, p) \/ p = o
      BY <1>1, <2>1 DEF Pending
    <3>2. \A p \in Orders : Queued(p)' => Queued(p)
      BY <2>1 DEF Queued
    <3> QED BY <1>1, <2>2, <2>4, <3>1, <3>2 DEF KnowInv, FreshUncharged
  <2>6. WorkerKnows'
    <3>1. \A w \in Workers : wk[w].pc \in AtWork => wk[w].order \in Orders /\ wk[w].order # o
      BY <2>3 DEF PoolTypeOK, Held
    <3> QED BY <1>1, <2>2, <3>1 DEF KnowInv, WorkerKnows, AtWork
  <2>7. ClientKnows'
    <3> SUFFICES ASSUME NEW d \in Clients, cl'[d].pc = "write"
                 PROVE  /\ status'[cl'[d].order] # NoRow
                        /\ cl'[d].to = Canceled
                           \/ (cl'[d].to = Shipped /\ processedAt'[cl'[d].order] /\ cl'[d].order \notin Declined)
      BY DEF ClientKnows
    <3>1. d # c /\ cl'[d] = cl[d]
      BY <1>1, <2>1
    <3>2. cl[d].order \in Orders /\ status[cl[d].order] # NoRow
      BY <3>1 DEF PoolTypeOK, KnowInv, ClientKnows
    <3>3. status'[cl[d].order] = status[cl[d].order]
      BY <2>2, <3>2
    <3> QED BY <1>1, <3>1, <3>2, <3>3 DEF KnowInv, ClientKnows
  <2>8. PaidIsSettled'
    BY <1>1, <2>2 DEF KnowInv, PaidIsSettled, Created, Paid
  <2> QED BY <2>5, <2>6, <2>7, <2>8 DEF KnowInv
<1>3. CASE PublishOrderCreated(c) \/ IncOrdersCreated(c)
  <2>1. cl[c].pc \in {"publish", "count", "enqueue"} /\ UNCHANGED orderVars /\ UNCHANGED msgs
    BY <1>3 DEF PublishOrderCreated, IncOrdersCreated
  <2>2. cl'[c].pc = "idle" \/ (cl'[c].order = cl[c].order /\ cl'[c].pc # "write")
    BY <1>3 DEF PublishOrderCreated, IncOrdersCreated, ClientGoes, ClientReturns, PoolTypeOK
  <2>3. \A d \in Clients, o \in Orders : Pending(d, o)' => Pending(d, o)
    BY <1>1, <2>1, <2>2 DEF Pending
  <2> QED BY <1>1, <2>1, <2>2, <2>3, KnowKept DEF Queued
<1>4. CASE Enqueue(c) \/ (\E u \in Unknown : EnqueueUnknown(c, u)) \/ Close(c) \/ Notify(c)
  <2>1. UNCHANGED orderVars /\ cl'[c].pc \in {"notify", "idle"}
    BY <1>4 DEF Enqueue, EnqueueUnknown, Close, Notify, ClientGoes, ClientReturns, PoolTypeOK
  <2>2. \A d \in Clients, o \in Orders : Pending(d, o)' => Pending(d, o)
    BY <1>1, <2>1 DEF Pending
  <2>3. \A o \in Orders : Queued(o)' => Queued(o) \/ Pending(c, o)
    <3>1. CASE Enqueue(c)
      <4>1. /\ Len(msgs) \in Nat /\ Len(msgs') = Len(msgs) + 1 /\ msgs'[Len(msgs) + 1] = cl[c].order
            /\ \A i \in 1..Len(msgs) : msgs'[i] = msgs[i]
        BY <3>1 DEF Enqueue, PoolTypeOK
      <4> QED BY <3>1, <4>1 DEF Queued, Pending, Enqueue
    <3>2. CASE \E u \in Unknown : EnqueueUnknown(c, u)
      <4> PICK u \in Unknown : EnqueueUnknown(c, u)
        BY <3>2
      <4>1. /\ Len(msgs) \in Nat /\ Len(msgs') = Len(msgs) + 1 /\ msgs'[Len(msgs) + 1] = u
            /\ \A i \in 1..Len(msgs) : msgs'[i] = msgs[i]
        BY DEF EnqueueUnknown, PoolTypeOK, Ids
      <4>2. u \notin Orders
        BY PoolAssumption
      <4> QED BY <4>1, <4>2 DEF Queued
    <3>3. CASE Close(c) \/ Notify(c)
      BY <3>3 DEF Close, Notify, Queued
    <3> QED BY <1>4, <3>1, <3>2, <3>3
  <2> QED BY <1>1, <2>1, <2>2, <2>3, KnowKept
<1>5. CASE \E o \in Orders : Cancel(c, o) \/ Ship(c, o)
  <2> PICK o \in Orders : Cancel(c, o) \/ Ship(c, o)
    BY <1>5
  <2>1. /\ cl'[c].pc = "write" /\ cl'[c].order = o /\ UNCHANGED msgs /\ UNCHANGED orderVars
        /\ (cl'[c].to = Canceled /\ status[o] = Created) \/ (cl'[c].to = Shipped /\ status[o] = Paid)
    BY DEF Cancel, Ship, Request, ClientGoes, PoolTypeOK
  <2>2. status[o] # NoRow /\ (status[o] = Paid => processedAt[o] /\ o \notin Declined)
    BY <2>1 DEF KnowInv, PaidIsSettled, Created, Paid, NoRow
  <2>3. \A d \in Clients, p \in Orders : Pending(d, p)' => Pending(d, p)
    BY <1>1, <2>1 DEF Pending
  <2>4. FreshUncharged' /\ PaidIsSettled' /\ WorkerKnows'
    BY <1>1, <2>1, <2>3 DEF KnowInv, FreshUncharged, PaidIsSettled, WorkerKnows, Queued
  <2>5. ClientKnows'
    BY <1>1, <2>1, <2>2 DEF KnowInv, ClientKnows
  <2> QED BY <2>4, <2>5 DEF KnowInv
<1>6. CASE UpdateStatus(c)
  <2> DEFINE o == cl[c].order
  <2>1. o \in Orders /\ status[o] # NoRow /\ cl'[c].pc = "idle" /\ UNCHANGED msgs
        /\ (cl[c].to = Canceled \/ (cl[c].to = Shipped /\ processedAt[o]))
    BY <1>6 DEF UpdateStatus, ClientReturns, ClientGoes, PoolTypeOK, KnowInv, ClientKnows
  <2>2. /\ status'[o] = cl[c].to /\ \A p \in Orders : p # o => status'[p] = status[p]
    BY <1>6, <2>1 DEF UpdateStatus, SetStatus, PoolTypeOK
  <2>3. status'[o] \in {Canceled, Shipped} /\ status'[o] # NoRow /\ status'[o] # Paid
        /\ (status'[o] = Canceled \/ processedAt[o])
    BY <2>1, <2>2 DEF Canceled, Shipped, Paid, NoRow
  <2>4. \A d \in Clients, p \in Orders : Pending(d, p)' => Pending(d, p)
    BY <1>1, <2>1 DEF Pending
  <2>5. FreshUncharged'
    <3>1. \A p \in Orders : status'[p] = NoRow => status[p] = NoRow
      BY <2>2, <2>3
    <3> QED BY <1>1, <2>1, <2>4, <3>1 DEF KnowInv, FreshUncharged, Queued
  <2>6. WorkerKnows'
    <3> SUFFICES ASSUME NEW w \in Workers
                 PROVE  LET q == wk[w].order
                        IN  /\ wk[w].pc \in {"load", "start", "pay"} /\ q \in Orders => payments[q] = 0 /\ ~processedAt[q]
                            /\ wk[w].pc = "start" => status'[q] \in {Created, Canceled}
                            /\ wk[w].pc = "pay" => status'[q] \in {Processing, Canceled}
                            /\ wk[w].pc = "mark" => payments[q] = 1 /\ ~processedAt[q]
      BY <1>1 DEF WorkerKnows
    <3>1. wk[w].pc \in {"start", "pay"} => wk[w].order \in Orders /\ ~processedAt[wk[w].order]
      BY DEF PoolTypeOK, AtWork, KnowInv, WorkerKnows
    <3>2. wk[w].pc \in {"start", "pay"} =>
             status'[wk[w].order] = Canceled \/ status'[wk[w].order] = status[wk[w].order]
      BY <2>2, <2>3, <3>1
    <3> QED BY <3>2 DEF KnowInv, WorkerKnows
  <2>7. ClientKnows'
    <3> SUFFICES ASSUME NEW d \in Clients, cl'[d].pc = "write"
                 PROVE  /\ status'[cl'[d].order] # NoRow
                        /\ cl'[d].to = Canceled
                           \/ (cl'[d].to = Shipped /\ processedAt'[cl'[d].order] /\ cl'[d].order \notin Declined)
      BY DEF ClientKnows
    <3>1. d # c /\ cl'[d] = cl[d]
      BY <1>1, <2>1
    <3>2. cl[d].order \in Orders /\ status[cl[d].order] # NoRow
      BY <3>1 DEF PoolTypeOK, KnowInv, ClientKnows
    <3>3. status'[cl[d].order] # NoRow
      BY <2>2, <2>3, <3>2
    <3> QED BY <1>1, <3>1, <3>2, <3>3 DEF KnowInv, ClientKnows
  <2>8. PaidIsSettled'
    BY <1>1, <2>2, <2>3 DEF KnowInv, PaidIsSettled
  <2> QED BY <2>5, <2>6, <2>7, <2>8 DEF KnowInv
<1> QED BY <1>2, <1>3, <1>4, <1>5, <1>6 DEF ClientSteps, Requests

\* Types, the one place of each order, and what its holder knows.
OrderInv == PoolTypeOK /\ PlaceInv /\ KnowInv

LEMMA OrderInvariant == Spec => []OrderInv
<1>1. Init => OrderInv
  <2> SUFFICES ASSUME Init PROVE OrderInv
    OBVIOUS
  <2>1. PoolTypeOK
    BY PoolTypeInit
  <2>2. Len(msgs) = 0 /\ (\A o \in Orders : status[o] = NoRow /\ payments[o] = 0 /\ ~processedAt[o])
        /\ (\A c \in Clients : cl[c].pc = "idle") /\ \A w \in Workers : wk[w].pc = "check"
    BY DEF Init
  <2>3. (\A o \in Orders : ~Queued(o)) /\ QueuedOnce
    BY <2>2 DEF Queued, QueuedOnce
  <2>4. \A o \in Orders : (\A c \in Clients : ~Pending(c, o)) /\ \A w \in Workers : ~Held(w, o)
    BY <2>2 DEF Pending, Held, AtWork
  <2>5. PlaceInv
    BY <2>3, <2>4 DEF PlaceInv, OnePlace, PlacedExists
  <2>6. KnowInv
    BY <2>2 DEF KnowInv, FreshUncharged, WorkerKnows, ClientKnows, PaidIsSettled, NoRow, Paid
  <2> QED BY <2>1, <2>5, <2>6 DEF OrderInv
<1>2. OrderInv /\ [Next]_vars => OrderInv'
  <2> SUFFICES ASSUME OrderInv, [Next]_vars PROVE OrderInv'
    OBVIOUS
  <2>1. PoolTypeOK' /\ PlaceInv'
    BY PoolTypeStep, PlaceStep DEF OrderInv, KnowInv
  <2>2. CASE CancelContext \/ Render \/ UNCHANGED vars
    <3>1. UNCHANGED orderVars /\ UNCHANGED <<msgs, cl, wk>>
      BY <2>2 DEF CancelContext, Render, SnapshotSamples, LoadProcessed, vars, orderVars, queueVars
    <3> QED BY <2>1, <3>1, KnowKept DEF OrderInv, Queued, Pending
  <2> QED BY <2>1, <2>2, KnowClientStep, KnowWorkerStep DEF OrderInv, Next
<1> QED BY <1>1, <1>2, PTL DEF Spec

-----------------------------------------------------------------------------
LEMMA PoolStepIsLifecycleStep ==
  ASSUME OrderInv, [Next]_vars
  PROVE  [Lifecycle!LifecycleNext]_(Lifecycle!lifecycleVars)
<1> USE DEF Lifecycle!lifecycleVars, Lifecycle!NoRow, NoRow,
            Created, Processing, Paid, Shipped, Canceled, Failed,
            Lifecycle!Created, Lifecycle!Processing, Lifecycle!Paid, Lifecycle!Shipped,
            Lifecycle!Canceled, Lifecycle!Failed, orderVars, queueVars, SetStatus
<1>t. PoolTypeOK /\ KnowInv
  BY DEF OrderInv
<1>1. ASSUME NEW c \in Clients, NEW o \in Orders, Create(c, o)
      PROVE  [Lifecycle!LifecycleNext]_(Lifecycle!lifecycleVars)
  <2>1. Lifecycle!Open(o)
    BY <1>1 DEF Create, Lifecycle!Open
  <2> QED BY <2>1 DEF Lifecycle!LifecycleNext
<1>2. ASSUME NEW c \in Clients, UpdateStatus(c)
      PROVE  [Lifecycle!LifecycleNext]_(Lifecycle!lifecycleVars)
  <2> DEFINE o == cl[c].order
  <2>1. /\ o \in Orders /\ status[o] # NoRow
        /\ cl[c].to = Canceled \/ (cl[c].to = Shipped /\ processedAt[o] /\ o \notin Declined)
    BY <1>t, <1>2 DEF UpdateStatus, PoolTypeOK, KnowInv, ClientKnows
  <2>2. status' = [status EXCEPT ![o] = cl[c].to] /\ UNCHANGED <<processedAt, payments>>
    BY <1>2 DEF UpdateStatus
  <2>3. Lifecycle!Cancel(o) \/ Lifecycle!Ship(o)
    BY <2>1, <2>2 DEF Lifecycle!Cancel, Lifecycle!Ship
  <2> QED BY <2>1, <2>3 DEF Lifecycle!LifecycleNext
<1>3. ASSUME NEW w \in Workers, Start(w)
      PROVE  [Lifecycle!LifecycleNext]_(Lifecycle!lifecycleVars)
  <2>1. /\ wk[w].order \in Orders /\ payments[wk[w].order] = 0 /\ ~processedAt[wk[w].order]
        /\ status[wk[w].order] \in {Created, Canceled}
    BY <1>t, <1>3 DEF Start, PoolTypeOK, AtWork, KnowInv, WorkerKnows
  <2>2. Lifecycle!Start(wk[w].order)
    BY <1>3, <2>1 DEF Start, Lifecycle!Start
  <2> QED BY <2>1, <2>2 DEF Lifecycle!LifecycleNext
<1>4. ASSUME NEW w \in Workers, ProcessPayment(w)
      PROVE  [Lifecycle!LifecycleNext]_(Lifecycle!lifecycleVars)
  <2>1. /\ wk[w].order \in Orders /\ payments[wk[w].order] = 0
        /\ status[wk[w].order] \in {Processing, Canceled}
    BY <1>t, <1>4 DEF ProcessPayment, PoolTypeOK, AtWork, KnowInv, WorkerKnows
  <2>2. payments' = [payments EXCEPT ![wk[w].order] = 1] /\ UNCHANGED <<status, processedAt>>
    BY <1>4, <2>1 DEF ProcessPayment
  <2>3. Lifecycle!Charge(wk[w].order)
    BY <2>1, <2>2 DEF Lifecycle!Charge
  <2> QED BY <2>1, <2>3 DEF Lifecycle!LifecycleNext
<1>5. ASSUME NEW w \in Workers, MarkProcessed(w)
      PROVE  [Lifecycle!LifecycleNext]_(Lifecycle!lifecycleVars)
  <2>1. wk[w].order \in Orders /\ payments[wk[w].order] = 1 /\ ~processedAt[wk[w].order]
    BY <1>t, <1>5 DEF MarkProcessed, PoolTypeOK, AtWork, KnowInv, WorkerKnows
  <2>2. Lifecycle!Settle(wk[w].order)
    BY <1>5, <2>1 DEF MarkProcessed, Lifecycle!Settle
  <2> QED BY <2>1, <2>2 DEF Lifecycle!LifecycleNext
<1>6. CASE UNCHANGED orderVars
  BY <1>6
<1> QED
  BY <1>1, <1>2, <1>3, <1>4, <1>5, <1>6
     DEF Next, vars, ClientSteps, Requests, WorkerSteps, PublishOrderCreated, IncOrdersCreated, Enqueue,
         EnqueueUnknown, Close, Notify, Cancel, Ship, Request, CancelContext, Check, WaitNotified,
         WaitDone, FindByID, Count, RecordProcessingDuration, Render, SnapshotSamples, LoadProcessed

\* For any number of workers and clients, the pool over the in-memory adapters
\* implements the lifecycle: each order is in one place, so it is charged once.
THEOREM PoolKeepsLifecycle == Spec => PoolImplementsLifecycle
<1>1. Init => Lifecycle!LifecycleInit
  BY DEF Init, Lifecycle!LifecycleInit, Lifecycle!NoRow, NoRow
<1>2. OrderInv /\ [Next]_vars => [Lifecycle!LifecycleNext]_(Lifecycle!lifecycleVars)
  BY PoolStepIsLifecycleStep
<1> QED
  BY <1>1, <1>2, OrderInvariant, PTL DEF Spec, PoolImplementsLifecycle, Lifecycle!LifecycleSpec

-----------------------------------------------------------------------------
(* The counters.  The workers about to count, and the settled orders, are      *)
(* finite sets that a step of a worker changes by one element.                *)

Counting(S) == {w \in Workers : wk[w].pc = "count" /\ wk[w].order \in S}
Observing == {w \in Workers : wk[w].pc = "observe" /\ wk[w].order \in Orders}
SettledIn(S) == {o \in S : processedAt[o]}
Accepted == Orders \ Declined

Sizes ==
    /\ IsFiniteSet(Counting(Accepted)) /\ IsFiniteSet(Counting(Declined)) /\ IsFiniteSet(Observing)
    /\ IsFiniteSet(SettledIn(Accepted)) /\ IsFiniteSet(SettledIn(Declined))
    /\ Cardinality(Counting(Accepted)) \in Nat /\ Cardinality(Counting(Declined)) \in Nat
    /\ Cardinality(Observing) \in Nat
    /\ Cardinality(SettledIn(Accepted)) \in Nat /\ Cardinality(SettledIn(Declined)) \in Nat

LEMMA FiniteSizes == Sizes
<1>1. Counting(Accepted) \in SUBSET Workers /\ Counting(Declined) \in SUBSET Workers
      /\ Observing \in SUBSET Workers
  BY DEF Counting, Observing
<1>2. SettledIn(Accepted) \in SUBSET Orders /\ SettledIn(Declined) \in SUBSET Orders
  BY PoolAssumption DEF SettledIn, Accepted
<1>3. IsFiniteSet(Counting(Accepted)) /\ IsFiniteSet(Counting(Declined)) /\ IsFiniteSet(Observing)
  BY <1>1, PoolAssumption, FS_Subset
<1>4. IsFiniteSet(SettledIn(Accepted)) /\ IsFiniteSet(SettledIn(Declined))
  BY <1>2, PoolAssumption, FS_Subset
<1> QED BY <1>3, <1>4, FS_CardinalityType DEF Sizes

LEMMA CountsRead ==
  CountsAgree <=>
    /\ total.processed + Cardinality(Counting(Accepted)) = Cardinality(SettledIn(Accepted))
    /\ total.failed + Cardinality(Counting(Declined)) = Cardinality(SettledIn(Declined))
    /\ total.samples + Cardinality(Observing) = total.processed
BY DEF CountsAgree, Between, Settled, Counting, Observing, SettledIn, Accepted

LEMMA CountsReadNext ==
  CountsAgree' <=>
    /\ total'.processed + Cardinality(Counting(Accepted)') = Cardinality(SettledIn(Accepted)')
    /\ total'.failed + Cardinality(Counting(Declined)') = Cardinality(SettledIn(Declined)')
    /\ total'.samples + Cardinality(Observing') = total'.processed
BY DEF CountsAgree, Between, Settled, Counting, Observing, SettledIn, Accepted

LEMMA CountsStep ==
  ASSUME OrderInv, CountsAgree, [Next]_vars
  PROVE  /\ CountsAgree'
         /\ total'.samples \in Nat /\ total'.samples >= total.samples
<1> USE DEF orderVars, queueVars, AtWork
<1>t. /\ PoolTypeOK /\ WorkerKnows /\ Sizes
      /\ total \in Counters /\ total.processed \in Nat /\ total.failed \in Nat /\ total.samples \in Nat
  BY FiniteSizes DEF OrderInv, KnowInv, PoolTypeOK, Counters
<1>c. /\ total.processed + Cardinality(Counting(Accepted)) = Cardinality(SettledIn(Accepted))
      /\ total.failed + Cardinality(Counting(Declined)) = Cardinality(SettledIn(Declined))
      /\ total.samples + Cardinality(Observing) = total.processed
  BY CountsRead
<1>k. ASSUME \A w \in Workers : wk'[w] = wk[w] \/ (wk[w].pc \notin {"count", "observe"}
                                                /\ wk'[w].pc \notin {"count", "observe"}),
             UNCHANGED processedAt,
             total'.processed = total.processed, total'.failed = total.failed,
             total'.samples = total.samples
      PROVE  CountsAgree' /\ total'.samples \in Nat /\ total'.samples >= total.samples
  <2>1. /\ Counting(Accepted)' = Counting(Accepted) /\ Counting(Declined)' = Counting(Declined)
        /\ Observing' = Observing
    BY <1>k DEF Counting, Observing, Accepted
  <2>2. SettledIn(Accepted)' = SettledIn(Accepted) /\ SettledIn(Declined)' = SettledIn(Declined)
    BY <1>k DEF SettledIn, Accepted
  <2> QED BY <1>k, <1>c, <1>t, <2>1, <2>2, CountsReadNext
<1>1. ASSUME NEW w \in Workers, MarkProcessed(w)
      PROVE  CountsAgree' /\ total'.samples \in Nat /\ total'.samples >= total.samples
  <2> DEFINE o == wk[w].order
  <2>1. o \in Orders /\ wk[w].pc = "mark" /\ processedAt[o] = FALSE /\ total' = total
    BY <1>t, <1>1 DEF MarkProcessed, PoolTypeOK, WorkerKnows
  <2>2. /\ wk'[w].pc = "count" /\ wk'[w].order = o /\ \A v \in Workers : v # w => wk'[v] = wk[v]
        /\ processedAt'[o] = TRUE /\ \A p \in Orders : p # o => processedAt'[p] = processedAt[p]
    BY <1>t, <1>1, <2>1 DEF MarkProcessed, WorkerGoes, PoolTypeOK
  <2>3. Observing' = Observing /\ w \notin Counting(Accepted) /\ w \notin Counting(Declined)
        /\ o \notin SettledIn(Accepted) /\ o \notin SettledIn(Declined)
    BY <2>1, <2>2 DEF Observing, Counting, SettledIn
  <2>4. CASE o \in Declined
    <3>1. Counting(Declined)' = Counting(Declined) \cup {w} /\ Counting(Accepted)' = Counting(Accepted)
      BY <2>1, <2>2, <2>4 DEF Counting, Accepted
    <3>2. SettledIn(Declined)' = SettledIn(Declined) \cup {o} /\ SettledIn(Accepted)' = SettledIn(Accepted)
      BY <2>1, <2>2, <2>4, PoolAssumption DEF SettledIn, Accepted
    <3>3. Cardinality(Counting(Declined)') = Cardinality(Counting(Declined)) + 1
      BY <1>t, <2>3, <3>1, FS_AddElement DEF Sizes
    <3>4. Cardinality(SettledIn(Declined)') = Cardinality(SettledIn(Declined)) + 1
      BY <1>t, <2>3, <3>2, FS_AddElement DEF Sizes
    <3> QED BY <1>c, <1>t, <2>1, <2>3, <3>1, <3>2, <3>3, <3>4, CountsReadNext DEF Sizes
  <2>5. CASE o \notin Declined
    <3>1. Counting(Accepted)' = Counting(Accepted) \cup {w} /\ Counting(Declined)' = Counting(Declined)
      BY <2>1, <2>2, <2>5 DEF Counting, Accepted
    <3>2. SettledIn(Accepted)' = SettledIn(Accepted) \cup {o} /\ SettledIn(Declined)' = SettledIn(Declined)
      BY <2>1, <2>2, <2>5, PoolAssumption DEF SettledIn, Accepted
    <3>3. Cardinality(Counting(Accepted)') = Cardinality(Counting(Accepted)) + 1
      BY <1>t, <2>3, <3>1, FS_AddElement DEF Sizes
    <3>4. Cardinality(SettledIn(Accepted)') = Cardinality(SettledIn(Accepted)) + 1
      BY <1>t, <2>3, <3>2, FS_AddElement DEF Sizes
    <3> QED BY <1>c, <1>t, <2>1, <2>3, <3>1, <3>2, <3>3, <3>4, CountsReadNext DEF Sizes
  <2> QED BY <2>4, <2>5
<1>2. ASSUME NEW w \in Workers, Count(w)
      PROVE  CountsAgree' /\ total'.samples \in Nat /\ total'.samples >= total.samples
  <2> DEFINE o == wk[w].order
  <2>1. o \in Orders /\ wk[w].pc = "count" /\ UNCHANGED processedAt
    BY <1>t, <1>2 DEF Count, PoolTypeOK
  <2>2. \A v \in Workers : v # w => wk'[v] = wk[v]
    BY <1>t, <1>2 DEF Count, WorkerGoes, WorkerLoops, PoolTypeOK
  <2>3. SettledIn(Accepted)' = SettledIn(Accepted) /\ SettledIn(Declined)' = SettledIn(Declined)
    BY <2>1 DEF SettledIn, Accepted
  <2>4. CASE o \in Declined
    <3>1. wk'[w].pc = "check" /\ total' = [total EXCEPT !.failed = @ + 1]
      BY <1>t, <1>2, <2>4 DEF Count, WorkerGoes, WorkerLoops, PoolTypeOK
    <3>2. total'.failed = total.failed + 1 /\ total'.processed = total.processed /\ total'.samples = total.samples
      BY <1>t, <3>1 DEF Counters
    <3>3. /\ Counting(Declined)' = Counting(Declined) \ {w} /\ w \in Counting(Declined)
          /\ Counting(Accepted)' = Counting(Accepted) /\ Observing' = Observing
      BY <2>1, <2>2, <2>4, <3>1 DEF Counting, Observing, Accepted
    <3>4. Cardinality(Counting(Declined)') = Cardinality(Counting(Declined)) - 1
      BY <1>t, <3>3, FS_RemoveElement DEF Sizes
    <3> QED BY <1>c, <1>t, <2>3, <3>2, <3>3, <3>4, CountsReadNext DEF Sizes
  <2>5. CASE o \notin Declined
    <3>1. wk'[w].pc = "observe" /\ wk'[w].order = o /\ total' = [total EXCEPT !.processed = @ + 1]
      BY <1>t, <1>2, <2>5 DEF Count, WorkerGoes, PoolTypeOK
    <3>2. total'.processed = total.processed + 1 /\ total'.failed = total.failed /\ total'.samples = total.samples
      BY <1>t, <3>1 DEF Counters
    <3>3. /\ Counting(Accepted)' = Counting(Accepted) \ {w} /\ w \in Counting(Accepted)
          /\ Counting(Declined)' = Counting(Declined)
          /\ Observing' = Observing \cup {w} /\ w \notin Observing
      BY <2>1, <2>2, <2>5, <3>1 DEF Counting, Observing, Accepted
    <3>4. Cardinality(Counting(Accepted)') = Cardinality(Counting(Accepted)) - 1
      BY <1>t, <3>3, FS_RemoveElement DEF Sizes
    <3>5. Cardinality(Observing') = Cardinality(Observing) + 1
      BY <1>t, <3>3, FS_AddElement DEF Sizes
    <3> QED BY <1>c, <1>t, <2>3, <3>2, <3>3, <3>4, <3>5, CountsReadNext DEF Sizes
  <2> QED BY <2>4, <2>5
<1>3. ASSUME NEW w \in Workers, RecordProcessingDuration(w)
      PROVE  CountsAgree' /\ total'.samples \in Nat /\ total'.samples >= total.samples
  <2>1. wk[w].order \in Orders /\ wk[w].pc = "observe" /\ UNCHANGED processedAt
    BY <1>t, <1>3 DEF RecordProcessingDuration, PoolTypeOK
  <2>2. /\ wk'[w].pc = "check" /\ \A v \in Workers : v # w => wk'[v] = wk[v]
        /\ total' = [total EXCEPT !.samples = @ + 1]
    BY <1>t, <1>3 DEF RecordProcessingDuration, WorkerGoes, WorkerLoops, PoolTypeOK
  <2>3. SettledIn(Accepted)' = SettledIn(Accepted) /\ SettledIn(Declined)' = SettledIn(Declined)
    BY <2>1 DEF SettledIn, Accepted
  <2>4. total'.samples = total.samples + 1 /\ total'.failed = total.failed /\ total'.processed = total.processed
    BY <1>t, <2>2 DEF Counters
  <2>5. /\ Counting(Accepted)' = Counting(Accepted) /\ Counting(Declined)' = Counting(Declined)
        /\ Observing' = Observing \ {w} /\ w \in Observing
    BY <2>1, <2>2 DEF Counting, Observing, Accepted
  <2>6. Cardinality(Observing') = Cardinality(Observing) - 1
    BY <1>t, <2>5, FS_RemoveElement DEF Sizes
  <2> QED BY <1>c, <1>t, <2>3, <2>4, <2>5, <2>6, CountsReadNext DEF Sizes
<1>4. ASSUME NEW w \in Workers,
             Check(w) \/ WaitNotified(w) \/ WaitDone(w) \/ FindByID(w) \/ Start(w) \/ ProcessPayment(w)
      PROVE  CountsAgree' /\ total'.samples \in Nat /\ total'.samples >= total.samples
  <2>1. /\ wk[w].pc \notin {"count", "observe"} /\ wk'[w].pc \notin {"count", "observe"}
        /\ UNCHANGED <<processedAt, total>>
    BY <1>t, <1>4 DEF Check, WaitNotified, WaitDone, FindByID, Start, ProcessPayment, WorkerGoes,
                      WorkerLoops, PoolTypeOK
  <2>2. \A v \in Workers : v # w => wk'[v] = wk[v]
    BY <1>t, <1>4 DEF Check, WaitNotified, WaitDone, FindByID, Start, ProcessPayment, WorkerGoes,
                      WorkerLoops, PoolTypeOK
  <2> QED BY <1>k, <2>1, <2>2
<1>5. ASSUME NEW c \in Clients, ClientSteps(c) \/ Requests(c)
      PROVE  CountsAgree' /\ total'.samples \in Nat /\ total'.samples >= total.samples
  <2>1. UNCHANGED <<wk, processedAt>>
    BY <1>5 DEF ClientSteps, Requests, PublishOrderCreated, IncOrdersCreated, Enqueue, Notify,
                UpdateStatus, Create, Cancel, Ship, Request, EnqueueUnknown, Close
  <2>2. total' = total \/ total' = [total EXCEPT !.created = @ + 1]
    BY <1>5 DEF ClientSteps, Requests, PublishOrderCreated, IncOrdersCreated, Enqueue, Notify,
                UpdateStatus, Create, Cancel, Ship, Request, EnqueueUnknown, Close
  <2>3. total'.processed = total.processed /\ total'.failed = total.failed /\ total'.samples = total.samples
    BY <1>t, <2>2 DEF Counters
  <2> QED BY <1>k, <2>1, <2>3
<1>6. CASE CancelContext \/ Render \/ UNCHANGED vars
  <2>1. UNCHANGED <<wk, processedAt, total>>
    BY <1>6 DEF CancelContext, Render, SnapshotSamples, LoadProcessed, vars
  <2> QED BY <1>k, <2>1
<1> QED BY <1>1, <1>2, <1>3, <1>4, <1>5, <1>6 DEF Next, WorkerSteps

\* The two values of a rendering, between its two reads.
ReadsBehind == rd.pc = "load" => rd.samples <= total.samples

MeterInv == OrderInv /\ CountsAgree /\ ReadsBehind /\ RenderedIsConsistent

LEMMA MeterStep ==
  ASSUME MeterInv, [Next]_vars, OrderInv'
  PROVE  MeterInv'
<1>1. /\ OrderInv /\ CountsAgree /\ CountsAgree'
      /\ total'.samples \in Nat /\ total'.samples >= total.samples
  BY CountsStep DEF MeterInv
<1>2. /\ rd \in [pc : {"idle", "load", "rendered"}, samples : Nat, processed : Nat]
      /\ total.samples \in Nat /\ total.processed \in Nat /\ rd.samples \in Nat
  BY <1>1 DEF OrderInv, PoolTypeOK
<1>3. total.samples <= total.processed
  BY <1>1, <1>2, CountsRead, FiniteSizes DEF Sizes
<1>4. CASE Render
  <2>1. CASE SnapshotSamples
    <3>1. rd'.pc = "load" /\ rd'.samples = total.samples /\ total' = total
      BY <1>2, <2>1 DEF SnapshotSamples
    <3> QED BY <1>1, <1>2, <3>1 DEF MeterInv, ReadsBehind, RenderedIsConsistent
  <2>2. CASE LoadProcessed
    <3>1. /\ rd.pc = "load" /\ rd'.pc = "rendered" /\ rd'.samples = rd.samples
          /\ rd'.processed = total.processed
      BY <1>2, <2>2 DEF LoadProcessed
    <3> QED BY <1>1, <1>2, <1>3, <3>1 DEF MeterInv, ReadsBehind, RenderedIsConsistent
  <2> QED BY <1>4, <2>1, <2>2 DEF Render
<1>5. CASE UNCHANGED rd
  BY <1>1, <1>2, <1>5 DEF MeterInv, ReadsBehind, RenderedIsConsistent
<1> QED
  BY <1>4, <1>5 DEF Next, vars, ClientSteps, Requests, WorkerSteps, PublishOrderCreated, IncOrdersCreated,
         Enqueue, EnqueueUnknown, Close, Notify, Create, UpdateStatus, Cancel, Ship, Request, CancelContext,
         Check, WaitNotified, WaitDone, FindByID, Start, ProcessPayment, MarkProcessed, Count,
         RecordProcessingDuration

LEMMA MeterInvariant == Spec => []MeterInv
<1>1. Init => CountsAgree /\ ReadsBehind /\ RenderedIsConsistent
  <2> SUFFICES ASSUME Init PROVE CountsAgree /\ ReadsBehind /\ RenderedIsConsistent
    OBVIOUS
  <2>1. /\ Counting(Accepted) = {} /\ Counting(Declined) = {} /\ Observing = {}
        /\ SettledIn(Accepted) = {} /\ SettledIn(Declined) = {}
    BY PoolAssumption DEF Init, Counting, Observing, SettledIn, Accepted
  <2>2. total.processed = 0 /\ total.failed = 0 /\ total.samples = 0 /\ rd.pc = "idle"
    BY DEF Init
  <2> QED BY <2>1, <2>2, FS_EmptySet, CountsRead DEF ReadsBehind, RenderedIsConsistent
<1>2. MeterInv /\ [Next]_vars /\ OrderInv' => MeterInv'
  BY MeterStep
<1>3. OrderInv /\ CountsAgree /\ ReadsBehind /\ RenderedIsConsistent => MeterInv
  BY DEF MeterInv
<1> QED BY <1>1, <1>2, <1>3, OrderInvariant, PTL DEF Spec

\* Each settled order is counted once, by the worker that settled it.
THEOREM EachOrderIsCountedOnce == Spec => []CountsAgree
<1>1. MeterInv => CountsAgree
  BY DEF MeterInv
<1> QED BY <1>1, MeterInvariant, PTL

\* What /metrics shows is consistent, whatever happens between its reads.
THEOREM RenderingsAreConsistent == Spec => []RenderedIsConsistent
<1>1. MeterInv => RenderedIsConsistent
  BY DEF MeterInv
<1> QED BY <1>1, MeterInvariant, PTL

=============================================================================
