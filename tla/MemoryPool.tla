----------------------------- MODULE MemoryPool -----------------------------
(***************************************************************************)
(* The worker pool of dev/phase-6-worker-metrics, one process over the       *)
(* in-memory adapters that internal/order still ships: InMemoryRepository,    *)
(* FakeQueue with its one-slot notify channel, FakeProducer,                 *)
(* FakePaymentProcessor, and the Collector that /metrics renders.  Goroutines *)
(* interleave between the critical sections of their mutexes.  Nothing is     *)
(* retried: an error of Process is only logged.                             *)
(***************************************************************************)
EXTENDS Naturals, Sequences, FiniteSets, OrderStatus

CONSTANTS
    Workers,    \* goroutines of the pool
    Clients,    \* goroutines that create, queue, cancel and ship orders
    Orders,     \* ids of the orders that may be created
    Unknown,    \* ids on the queue that no order has
    Declined,   \* orders that FailFor names
    NoOrder     \* no order

ASSUME PoolAssumption ==
    /\ Declined \subseteq Orders
    /\ Orders \cap Unknown = {}
    /\ NoOrder \notin Orders \cup Unknown
    /\ IsFiniteSet(Orders) /\ IsFiniteSet(Workers)

VARIABLES
    status,        \* status of each order, NoRow when the map does not hold it
    processedAt,   \* whether ProcessedAt is set
    payments,      \* calls of ProcessPayment that reached a verdict
    msgs,          \* FakeQueue.msgs
    token,         \* whether the notify channel is full
    closed,        \* FakeQueue.closed
    canceled,      \* whether ctx is done
    wk,            \* each worker: where it is and the order of its message
    cl,            \* each client: where it is, its order, the status it will write
    sent,          \* the unknown ids put on the queue
    total,         \* the counters of the Collector
    rd             \* a rendering of /metrics: where it is and what it has read

orderVars == <<status, processedAt, payments>>
queueVars == <<msgs, token, closed, canceled, sent>>
vars == <<orderVars, queueVars, wk, cl, total, rd>>

NoRow == "ABSENT"
Ids == Orders \cup Unknown

-----------------------------------------------------------------------------
Init ==
    /\ status = [o \in Orders |-> NoRow]
    /\ processedAt = [o \in Orders |-> FALSE]
    /\ payments = [o \in Orders |-> 0]
    /\ msgs = <<>>
    /\ token = FALSE /\ closed = FALSE /\ canceled = FALSE
    /\ sent = {}
    /\ wk = [w \in Workers |-> [pc |-> "check", order |-> NoOrder]]
    /\ cl = [c \in Clients |-> [pc |-> "idle", order |-> NoOrder, to |-> NoRow]]
    /\ total = [created |-> 0, processed |-> 0, failed |-> 0, samples |-> 0]
    /\ rd = [pc |-> "idle", samples |-> 0, processed |-> 0]

-----------------------------------------------------------------------------
(* Clients.                                                                *)

ClientGoes(c, pc, o, to) == cl' = [cl EXCEPT ![c] = [pc |-> pc, order |-> o, to |-> to]]
ClientReturns(c) == ClientGoes(c, "idle", NoOrder, NoRow)

SetStatus(o, s) == status' = [status EXCEPT ![o] = s]

\* Service.Create up to the return of CreateWithItems.
Create(c, o) ==
    /\ cl[c].pc = "idle"
    /\ status[o] = NoRow
    /\ SetStatus(o, Created)
    /\ ClientGoes(c, "publish", o, NoRow)
    /\ UNCHANGED <<processedAt, payments, queueVars, wk, total, rd>>

\* FakeProducer records the message, or fails when FailNext is set; then Create
\* returns an error for an order that exists.
PublishOrderCreated(c) ==
    /\ cl[c].pc = "publish"
    /\ \/ ClientGoes(c, "count", cl[c].order, NoRow)
       \/ ClientReturns(c)
    /\ UNCHANGED <<orderVars, queueVars, wk, total, rd>>

IncOrdersCreated(c) ==
    /\ cl[c].pc = "count"
    /\ total' = [total EXCEPT !.created = @ + 1]
    /\ ClientGoes(c, "enqueue", cl[c].order, NoRow)
    /\ UNCHANGED <<orderVars, queueVars, wk, rd>>

\* Mutant: nobody is notified.
EnqueueQuietly(c) ==
    /\ cl[c].pc = "enqueue"
    /\ msgs' = Append(msgs, cl[c].order)
    /\ ClientReturns(c)
    /\ UNCHANGED <<orderVars, token, closed, canceled, sent, wk, total, rd>>

\* The first half of Enqueue: the message is appended under the mutex.
Enqueue(c) ==
    /\ cl[c].pc = "enqueue"
    /\ msgs' = Append(msgs, cl[c].order)
    /\ ClientGoes(c, "notify", NoOrder, NoRow)
    /\ UNCHANGED <<orderVars, token, closed, canceled, sent, wk, total, rd>>

EnqueueUnknown(c, u) ==
    /\ cl[c].pc = "idle"
    /\ u \notin sent
    /\ sent' = sent \cup {u}
    /\ msgs' = Append(msgs, u)
    /\ ClientGoes(c, "notify", NoOrder, NoRow)
    /\ UNCHANGED <<orderVars, token, closed, canceled, wk, total, rd>>

\* The first half of Close.
Close(c) ==
    /\ cl[c].pc = "idle"
    /\ ~closed
    /\ closed' = TRUE
    /\ ClientGoes(c, "notify", NoOrder, NoRow)
    /\ UNCHANGED <<orderVars, msgs, token, canceled, sent, wk, total, rd>>

\* The second half of both: the send, which is dropped when the slot is taken.
Notify(c) ==
    /\ cl[c].pc = "notify"
    /\ token' = TRUE
    /\ ClientReturns(c)
    /\ UNCHANGED <<orderVars, msgs, closed, canceled, sent, wk, total, rd>>

\* Service.transition: Cancel and Ship read the order and compare its status.
Request(c, o, to, required) ==
    /\ cl[c].pc = "idle"
    /\ status[o] = required
    /\ CanTransition(status[o], to)
    /\ ClientGoes(c, "write", o, to)
    /\ UNCHANGED <<orderVars, queueVars, wk, total, rd>>

Cancel(c, o) == Request(c, o, Canceled, Created)
Ship(c, o) == Request(c, o, Shipped, Paid)

\* UpdateStatus overwrites whatever the order has become in between.
UpdateStatus(c) ==
    /\ cl[c].pc = "write"
    /\ SetStatus(cl[c].order, cl[c].to)
    /\ ClientReturns(c)
    /\ UNCHANGED <<processedAt, payments, queueVars, wk, total, rd>>

\* SIGINT or SIGTERM.
CancelContext ==
    /\ ~canceled
    /\ canceled' = TRUE
    /\ UNCHANGED <<orderVars, msgs, token, closed, sent, wk, cl, total, rd>>

-----------------------------------------------------------------------------
(* Workers: runLoop, Dequeue and Process.                                   *)

WorkerGoes(w, pc, o) == wk' = [wk EXCEPT ![w] = [pc |-> pc, order |-> o]]
WorkerLoops(w) == WorkerGoes(w, "check", NoOrder)

\* Dequeue under the mutex: messages come before the closed flag.
Check(w) ==
    /\ wk[w].pc = "check"
    /\ \/ /\ msgs # <<>>
          /\ msgs' = Tail(msgs)
          /\ WorkerGoes(w, "load", Head(msgs))
       \/ /\ msgs = <<>> /\ closed
          /\ WorkerGoes(w, "stopped", NoOrder)
          /\ UNCHANGED msgs
       \/ /\ msgs = <<>> /\ ~closed
          /\ WorkerGoes(w, "wait", NoOrder)
          /\ UNCHANGED msgs
    /\ UNCHANGED <<orderVars, token, closed, canceled, sent, cl, total, rd>>

\* Mutant: a worker that was woken is given to the context first.
WaitNotifiedThenCanceled(w) ==
    /\ wk[w].pc = "wait"
    /\ token
    /\ token' = FALSE
    /\ IF canceled THEN WorkerGoes(w, "stopped", NoOrder) ELSE WorkerLoops(w)
    /\ UNCHANGED <<orderVars, msgs, closed, canceled, sent, cl, total, rd>>

\* Dequeue outside the mutex: one of the two cases that are ready.
WaitNotified(w) ==
    /\ wk[w].pc = "wait"
    /\ token
    /\ token' = FALSE
    /\ WorkerLoops(w)
    /\ UNCHANGED <<orderVars, msgs, closed, canceled, sent, cl, total, rd>>

\* Mutant: a worker that waits looks at the flag of the queue, not at the context.
WaitClosed(w) ==
    /\ wk[w].pc = "wait"
    /\ closed
    /\ WorkerGoes(w, "stopped", NoOrder)
    /\ UNCHANGED <<orderVars, queueVars, cl, total, rd>>

WaitDone(w) ==
    /\ wk[w].pc = "wait"
    /\ canceled
    /\ WorkerGoes(w, "stopped", NoOrder)
    /\ UNCHANGED <<orderVars, queueVars, cl, total, rd>>

\* Process ignores an id that no order has, and an order that is not CREATED.
Processable(o) == o \in Orders /\ status[o] = Created

FindByID(w) ==
    /\ wk[w].pc = "load"
    /\ IF Processable(wk[w].order)
       THEN WorkerGoes(w, "start", wk[w].order)
       ELSE WorkerLoops(w)
    /\ UNCHANGED <<orderVars, queueVars, cl, total, rd>>

Start(w) ==
    /\ wk[w].pc = "start"
    /\ SetStatus(wk[w].order, Processing)
    /\ WorkerGoes(w, "pay", wk[w].order)
    /\ UNCHANGED <<processedAt, payments, queueVars, cl, total, rd>>

ProcessPayment(w) ==
    /\ wk[w].pc = "pay"
    /\ payments' = [payments EXCEPT ![wk[w].order] = @ + 1]
    /\ WorkerGoes(w, "mark", wk[w].order)
    /\ UNCHANGED <<status, processedAt, queueVars, cl, total, rd>>

\* Mutant: the error of the payment is not looked at.
MarkPaid(w) ==
    /\ wk[w].pc = "mark"
    /\ SetStatus(wk[w].order, Paid)
    /\ processedAt' = [processedAt EXCEPT ![wk[w].order] = TRUE]
    /\ WorkerGoes(w, "count", wk[w].order)
    /\ UNCHANGED <<payments, queueVars, cl, total, rd>>

MarkProcessed(w) ==
    /\ wk[w].pc = "mark"
    /\ SetStatus(wk[w].order, IF wk[w].order \in Declined THEN Failed ELSE Paid)
    /\ processedAt' = [processedAt EXCEPT ![wk[w].order] = TRUE]
    /\ WorkerGoes(w, "count", wk[w].order)
    /\ UNCHANGED <<payments, queueVars, cl, total, rd>>

\* Mutant: the branch of the failure does not return.
CountFallingThrough(w) ==
    /\ wk[w].pc = "count"
    /\ IF wk[w].order \in Declined
       THEN total' = [total EXCEPT !.failed = @ + 1, !.processed = @ + 1] /\ WorkerLoops(w)
       ELSE total' = [total EXCEPT !.processed = @ + 1] /\ WorkerGoes(w, "observe", wk[w].order)
    /\ UNCHANGED <<orderVars, queueVars, cl, rd>>

Count(w) ==
    /\ wk[w].pc = "count"
    /\ IF wk[w].order \in Declined
       THEN total' = [total EXCEPT !.failed = @ + 1] /\ WorkerLoops(w)
       ELSE total' = [total EXCEPT !.processed = @ + 1] /\ WorkerGoes(w, "observe", wk[w].order)
    /\ UNCHANGED <<orderVars, queueVars, cl, rd>>

RecordProcessingDuration(w) ==
    /\ wk[w].pc = "observe"
    /\ total' = [total EXCEPT !.samples = @ + 1]
    /\ WorkerLoops(w)
    /\ UNCHANGED <<orderVars, queueVars, cl, rd>>

-----------------------------------------------------------------------------
(* Snapshot: the samples under the mutex, then one atomic load after the      *)
(* other.  Only the two values that a property relates are kept.             *)

SnapshotSamples ==
    /\ rd.pc = "idle"
    /\ rd' = [rd EXCEPT !.pc = "load", !.samples = total.samples]
    /\ UNCHANGED <<orderVars, queueVars, wk, cl, total>>

LoadProcessed ==
    /\ rd.pc = "load"
    /\ rd' = [rd EXCEPT !.pc = "rendered", !.processed = total.processed]
    /\ UNCHANGED <<orderVars, queueVars, wk, cl, total>>

-----------------------------------------------------------------------------
ClientSteps(c) ==
    \/ PublishOrderCreated(c)
    \/ IncOrdersCreated(c)
    \/ Enqueue(c)
    \/ Notify(c)
    \/ UpdateStatus(c)

Requests(c) ==
    \/ \E o \in Orders : Create(c, o) \/ Cancel(c, o) \/ Ship(c, o)
    \/ \E u \in Unknown : EnqueueUnknown(c, u)
    \/ Close(c)

WorkerSteps(w) ==
    \/ Check(w) \/ WaitNotified(w) \/ WaitDone(w)
    \/ FindByID(w) \/ Start(w) \/ ProcessPayment(w) \/ MarkProcessed(w)
    \/ Count(w) \/ RecordProcessingDuration(w)

\* Mutant: the counters are loaded before the samples are copied.
RenderCountersFirst ==
    /\ \/ /\ rd.pc = "idle"
          /\ rd' = [rd EXCEPT !.pc = "load", !.processed = total.processed]
       \/ /\ rd.pc = "load"
          /\ rd' = [rd EXCEPT !.pc = "rendered", !.samples = total.samples]
    /\ UNCHANGED <<orderVars, queueVars, wk, cl, total>>

Render == SnapshotSamples \/ LoadProcessed

Next ==
    \/ \E c \in Clients : ClientSteps(c) \/ Requests(c)
    \/ CancelContext
    \/ \E w \in Workers : WorkerSteps(w)
    \/ Render

\* Go runs every goroutine that can run.  Nobody has to make a request, to send a
\* signal or to scrape.
Fairness ==
    /\ \A c \in Clients : WF_vars(ClientSteps(c))
    /\ \A w \in Workers : WF_vars(WorkerSteps(w))

Spec == Init /\ [][Next]_vars /\ Fairness

-----------------------------------------------------------------------------
AtWork == {"start", "pay", "mark", "count", "observe"}

PoolTypeOK ==
    /\ status \in [Orders -> AllStatuses \cup {NoRow}]
    /\ processedAt \in [Orders -> BOOLEAN]
    /\ payments \in [Orders -> Nat]
    /\ msgs \in Seq(Ids)
    /\ token \in BOOLEAN /\ closed \in BOOLEAN /\ canceled \in BOOLEAN
    /\ sent \subseteq Unknown
    /\ wk \in [Workers -> [pc : {"check", "wait", "load", "stopped"} \cup AtWork,
                          order : Ids \cup {NoOrder}]]
    /\ \A w \in Workers : /\ wk[w].pc = "load" => wk[w].order \in Ids
                          /\ wk[w].pc \in AtWork => wk[w].order \in Orders
    /\ cl \in [Clients -> [pc : {"idle", "publish", "count", "enqueue", "notify", "write"},
                          order : Orders \cup {NoOrder}, to : AllStatuses \cup {NoRow}]]
    /\ \A c \in Clients : cl[c].pc \in {"publish", "count", "enqueue", "write"} => cl[c].order \in Orders
    /\ total \in [created : Nat, processed : Nat, failed : Nat, samples : Nat]
    /\ rd \in [pc : {"idle", "load", "rendered"}, samples : Nat, processed : Nat]

(* No wake-up is lost: while a worker waits and a message is queued, the notify *)
(* channel is full, or somebody is about to fill it, or another worker is awake  *)
(* and will look at the queue again (FakeQueue.Enqueue, FakeQueue.Dequeue).     *)
NoLostWakeup ==
    msgs # <<>> /\ (\E w \in Workers : wk[w].pc = "wait") =>
        \/ token
        \/ \E c \in Clients : cl[c].pc = "notify"
        \/ \E w \in Workers : wk[w].pc \notin {"wait", "stopped"}

(* Once the queue is closed the workers are not all left asleep: until one of them  *)
(* has seen the flag, the token of Close is in the channel or about to be.  It is    *)
(* one token, and a worker that stops sends none, so only one worker is promised    *)
(* to be woken (FakeQueue.Close, FakeQueue.Dequeue).                              *)
CloseWakesOne ==
    closed /\ (\A w \in Workers : wk[w].pc = "wait") =>
        token \/ \E c \in Clients : cl[c].pc = "notify"

Between(pc, S) == Cardinality({w \in Workers : wk[w].pc = pc /\ wk[w].order \in S})
Settled(S) == Cardinality({o \in S : processedAt[o]})

(* The counters lag behind the orders by no more than the workers that are about *)
(* to count, and each settled order is counted once (Service.Process, Collector). *)
CountsAgree ==
    /\ total.processed + Between("count", Orders \ Declined) = Settled(Orders \ Declined)
    /\ total.failed + Between("count", Declined) = Settled(Declined)
    /\ total.samples + Between("observe", Orders) = total.processed

(* A rendering of /metrics never shows more duration samples than processed       *)
(* orders, although it is not one atomic look: Process counts before it samples,  *)
(* and Snapshot reads in the opposite order (Collector.Snapshot).                *)
RenderedIsConsistent ==
    rd.pc = "rendered" => rd.samples <= rd.processed

AllStopped == \A w \in Workers : wk[w].pc = "stopped"

(* A queue that is not empty is emptied, unless the pool is told to stop first or  *)
(* is gone: the one-slot channel wakes workers enough for every message that       *)
(* Enqueue appended (FakeQueue, OrderWorker.runLoop).                             *)
QueueDrains == msgs # <<>> ~> msgs = <<>> \/ canceled \/ AllStopped

(* Cancelling the context ends the whole pool, whatever is queued (OrderWorker.Run). *)
CancelStops == canceled ~> AllStopped

Lifecycle == INSTANCE OrderLifecycle WITH settled <- processedAt, charged <- payments

(* Over the in-memory adapters too, each order keeps what the service promises     *)
(* (OrderLifecycle): started while uncharged, charged once, settled once by the     *)
(* outcome of the charge, shipped only when paid (Service.Process, transition).    *)
PoolImplementsLifecycle == Lifecycle!LifecycleSpec

=============================================================================
