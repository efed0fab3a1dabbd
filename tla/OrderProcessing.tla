-------------------------- MODULE OrderProcessing --------------------------
(***************************************************************************)
(* The order service at work: API request handlers that create, cancel and *)
(* ship orders, the Redis list that carries "order created" messages, the  *)
(* worker pool that charges and settles each order, its retries and its    *)
(* dead-letter list, all over one PostgreSQL table of orders.              *)
(*                                                                         *)
(* The API process and the worker process share the table and the lists    *)
(* and nothing else.  A handler or a worker takes one step per database    *)
(* statement, Redis command or payment, and every such call may fail in    *)
(* the ways FaultKinds names.                                              *)
(***************************************************************************)
EXTENDS Naturals, Sequences, FiniteSets, OrderStatus

CONSTANTS
    Orders,      \* order ids the API may generate
    Handlers,    \* concurrent API request goroutines
    Workers,     \* goroutines of the worker pool (ORDER_WORKER_COUNT)
    Kinds,       \* the kinds of request that clients send
    Declined,    \* orders whose total makes the payment fail
    Sentinel,    \* orders whose total is ORDER_TRANSIENT_FAILURE_TOTAL
    MaxRetries,  \* ORDER_MAX_RETRIES
    FaultKinds,  \* what may go wrong
    None         \* no order

RequestKinds == {"create", "cancel", "ship"}

AllFaults ==
    { "dbFail",       \* a statement fails and has no effect
      "dbLostAck",    \* a statement takes effect and its reply is lost
      "pushFail",     \* an LPUSH fails (or the client went away) and has no effect
      "pushLostAck",  \* an LPUSH takes effect and its reply is lost
      "pushDup",      \* the Redis client repeats an LPUSH whose reply was lost
      "popLost",      \* a BRPOP removes a message and its reply is lost
      "popErr",       \* a BRPOP fails with the queue untouched
      "apiCrash",     \* the API process dies and is restarted
      "workerCrash",  \* the worker process dies and is restarted
      "sigterm" }     \* the worker process is told to shut down

ASSUME ConstantsAssumption ==
    /\ Kinds \subseteq RequestKinds
    /\ FaultKinds \subseteq AllFaults
    /\ None \notin Orders \cup AllStatuses

ASSUME MaxRetriesAssumption == MaxRetries \in Nat

VARIABLES
    status,       \* orders.status, or Absent when there is no row
    processedAt,  \* whether orders.processed_at is set
    queue,        \* the list orders:processing, next message first
    dlq,          \* the list orders:dead-letter, oldest first
    hd,           \* the API handlers
    wk,           \* the worker goroutines
    pool,         \* whether the worker process received a signal
    metrics,      \* the counters of both processes
    acked,        \* history: orders whose creation was answered 201
    attempts,     \* history: times a worker received a message for the order
    payments      \* history: calls of ProcessPayment for the order

vars == <<status, processedAt, queue, dlq, hd, wk, pool, metrics,
          acked, attempts, payments>>

rows  == <<status, processedAt>>
lists == <<queue, dlq>>

-----------------------------------------------------------------------------
(* Data. *)

Absent == "ABSENT"

Message == [order : Orders, retry : 0..MaxRetries]

HandlerPc == {"idle", "publish", "write"}

\* An API goroutine: the request's order, and the status it is about to write.
HandlerState == [pc : HandlerPc, order : Orders \cup {None},
                 to : {Canceled, Shipped, None}]
IdleHandler == [pc |-> "idle", order |-> None, to |-> None]

\* Where a worker is in runLoop, Process and handleProcessError.  At "dequeue"
\* it is about to send its BRPOP or waits in it.
WorkerPc == {"dequeue", "load", "start", "pay", "finish", "retry", "stopped"}

WorkerState == [pc : WorkerPc, order : Orders \cup {None}, retry : 0..MaxRetries]
WorkerAt(pc) == [pc |-> pc, order |-> None, retry |-> 0]

\* Mutant: a worker returns after its first message.
LoopTopOnce == WorkerAt("stopped")

\* The top of the loop: a Dequeue called with a canceled context returns at once.
LoopTop == WorkerAt(IF pool = "draining" THEN "stopped" ELSE "dequeue")

\* The outcomes of a read, of a write and of an LPUSH.
ReadOutcomes == {"ok"} \cup (FaultKinds \cap {"dbFail"})
WriteOutcomes == {"ok"} \cup (FaultKinds \cap {"dbFail", "dbLostAck"})
PushOutcomes == {"ok"} \cup (FaultKinds \cap {"pushFail", "pushLostAck", "pushDup"})

\* Mutant: errors are ignored.
ReportedAlways(x) == TRUE

\* The caller is told that the call succeeded.
Reported(x) == x \in {"ok", "pushDup"}

\* LPUSH of m onto list q; BRPOP takes from the other end.
LPush(q, m, x) ==
    CASE x = "pushFail" -> q
      [] x = "pushDup"  -> Append(Append(q, m), m)
      [] OTHER          -> Append(q, m)

\* UPDATE orders SET status = s WHERE id = o: no condition on the old status.
UpdateStatus(o, s, x) ==
    status' = IF x = "dbFail" THEN status ELSE [status EXCEPT ![o] = s]

-----------------------------------------------------------------------------
(* API handlers. *)

\* Service.Create up to the commit of CreateWithItems.  The id is a fresh UUID.
CreateOrder(h) ==
    /\ "create" \in Kinds
    /\ hd[h].pc = "idle"
    /\ \E o \in Orders, x \in WriteOutcomes :
          /\ status[o] = Absent
          /\ UpdateStatus(o, Created, x)
          /\ hd' = IF Reported(x)
                   THEN [hd EXCEPT ![h] = [pc |-> "publish", order |-> o, to |-> None]]
                   ELSE hd
    /\ UNCHANGED <<processedAt, lists, wk, pool, metrics, acked, attempts, payments>>

\* The rest of Service.Create: publish after the commit, count, answer 201;
\* or log the inconsistency and answer 500.
PublishOrderCreated(h) ==
    /\ hd[h].pc = "publish"
    /\ \E x \in PushOutcomes :
          /\ queue' = LPush(queue, [order |-> hd[h].order, retry |-> 0], x)
          /\ IF Reported(x)
             THEN /\ metrics' = [metrics EXCEPT !.created = @ + 1]
                  /\ acked' = acked \cup {hd[h].order}
             ELSE UNCHANGED <<metrics, acked>>
    /\ hd' = [hd EXCEPT ![h] = IdleHandler]
    /\ UNCHANGED <<rows, dlq, wk, pool, attempts, payments>>

Required(to) == IF to = Canceled THEN Created ELSE Paid

\* Service.transition up to the status check.  A request that fails here (404,
\* 400, 500) changes nothing and its handler stays idle.
ReadForTransition(h) ==
    /\ hd[h].pc = "idle"
    /\ \E o \in Orders, to \in {Canceled, Shipped} :
          /\ IF to = Canceled THEN "cancel" \in Kinds ELSE "ship" \in Kinds
          /\ status[o] = Required(to)
          /\ CanTransition(status[o], to)
          /\ hd' = [hd EXCEPT ![h] = [pc |-> "write", order |-> o, to |-> to]]
    /\ UNCHANGED <<rows, lists, wk, pool, metrics, acked, attempts, payments>>

\* The rest of Service.transition: the unconditional UPDATE.
WriteTransition(h) ==
    /\ hd[h].pc = "write"
    /\ \E x \in WriteOutcomes : UpdateStatus(hd[h].order, hd[h].to, x)
    /\ hd' = [hd EXCEPT ![h] = IdleHandler]
    /\ UNCHANGED <<processedAt, lists, wk, pool, metrics, acked, attempts, payments>>

-----------------------------------------------------------------------------
(* Workers. *)

\* BRPOP delivers the oldest message.
Dequeue(w) ==
    /\ wk[w].pc = "dequeue"
    /\ queue # <<>>
    /\ LET m == Head(queue)
       IN  /\ wk' = [wk EXCEPT ![w] = [pc |-> "load", order |-> m.order, retry |-> m.retry]]
           /\ attempts' = [attempts EXCEPT ![m.order] = @ + 1]
    /\ queue' = Tail(queue)
    /\ UNCHANGED <<rows, dlq, hd, pool, metrics, acked, payments>>

\* BRPOP removes the message and its reply is lost.  The client repeats the
\* BRPOP, unless the context was canceled; when it gives up, the error ends runLoop.
DequeueLost(w) ==
    /\ "popLost" \in FaultKinds
    /\ wk[w].pc = "dequeue"
    /\ queue # <<>>
    /\ queue' = Tail(queue)
    /\ \/ wk' = [wk EXCEPT ![w] = WorkerAt("stopped")]
       \/ pool = "running" /\ UNCHANGED wk
    /\ UNCHANGED <<rows, dlq, hd, pool, metrics, acked, attempts, payments>>

\* BRPOP fails with the queue untouched: the error ends runLoop.  The cause is an
\* I/O error, or a context canceled before the command was sent: the client is
\* built without ContextTimeoutEnabled and does not interrupt a BRPOP that waits,
\* so nothing makes this step happen.
DequeueError(w) ==
    /\ "popErr" \in FaultKinds \/ pool = "draining"
    /\ wk[w].pc = "dequeue"
    /\ wk' = [wk EXCEPT ![w] = WorkerAt("stopped")]
    /\ UNCHANGED <<rows, lists, hd, pool, metrics, acked, attempts, payments>>

\* Mutants: Process also accepts orders that were started, or any but a canceled one.
ProcessableAgain(s) == s \in {Created, Processing}
ProcessableUnlessCanceled(s) == s # Canceled

\* Process ignores an order in any other status.
Processable(s) == s = Created /\ CanTransition(s, Processing)

\* Process reads the order: an error is retried, an order that is missing or
\* not CREATED is ignored, a CREATED one goes on.
LoadOrder(w) ==
    /\ wk[w].pc = "load"
    /\ \E x \in ReadOutcomes :
          wk' = [wk EXCEPT ![w] =
                    IF ~Reported(x) THEN [@ EXCEPT !.pc = "retry"]
                    ELSE IF ~Processable(status[wk[w].order]) THEN LoopTop
                    ELSE [@ EXCEPT !.pc = "start"]]
    /\ UNCHANGED <<rows, lists, hd, pool, metrics, acked, attempts, payments>>

\* transientFailureRepo.UpdateStatus fails for a sentinel order.
SimulatedFailure(w) ==
    /\ wk[w].pc = "start"
    /\ wk[w].order \in Sentinel
    /\ wk' = [wk EXCEPT ![w].pc = "retry"]
    /\ UNCHANGED <<rows, lists, hd, pool, metrics, acked, attempts, payments>>

\* Process moves the order to PROCESSING.  A sentinel order gets here only
\* when the hook could not read its total.
StartProcessing(w) ==
    /\ wk[w].pc = "start"
    /\ wk[w].order \in Sentinel => "dbFail" \in FaultKinds
    /\ \E x \in WriteOutcomes :
          /\ UpdateStatus(wk[w].order, Processing, x)
          /\ wk' = [wk EXCEPT ![w].pc = IF Reported(x) THEN "pay" ELSE "retry"]
    /\ UNCHANGED <<processedAt, lists, hd, pool, metrics, acked, attempts, payments>>

\* ProcessPayment: its result depends on the order's total alone.
ProcessPayment(w) ==
    /\ wk[w].pc = "pay"
    /\ payments' = [payments EXCEPT ![wk[w].order] = @ + 1]
    /\ wk' = [wk EXCEPT ![w].pc = "finish"]
    /\ UNCHANGED <<rows, lists, hd, pool, metrics, acked, attempts>>

\* Mutant: the test of the payment error is inverted.
OutcomeInverted(o) == IF o \in Declined THEN Paid ELSE Failed

Outcome(o) == IF o \in Declined THEN Failed ELSE Paid

\* MarkProcessed settles the order; the counters move only after it succeeds.
MarkProcessed(w) ==
    /\ wk[w].pc = "finish"
    /\ LET o == wk[w].order
       IN  \E x \in WriteOutcomes :
              /\ UpdateStatus(o, Outcome(o), x)
              /\ processedAt' = IF x = "dbFail" THEN processedAt
                                ELSE [processedAt EXCEPT ![o] = TRUE]
              /\ IF Reported(x)
                 THEN /\ wk' = [wk EXCEPT ![w] = LoopTop]
                      /\ metrics' = IF o \in Declined
                                    THEN [metrics EXCEPT !.failed = @ + 1]
                                    ELSE [metrics EXCEPT !.processed = @ + 1]
                 ELSE /\ wk' = [wk EXCEPT ![w].pc = "retry"]
                      /\ UNCHANGED metrics
    /\ UNCHANGED <<lists, hd, pool, acked, attempts, payments>>

\* Mutants: the limit is one less, the count is not incremented.
MayRetryOneLess(n) == n + 1 < MaxRetries
NextRetryKept(n) == n

MayRetry(n) == n < MaxRetries
NextRetry(n) == n + 1

\* handleProcessError below the limit: requeue at the back, one retry more.
\* The worker goes on whether or not the LPUSH succeeds.
Requeue(w) ==
    /\ wk[w].pc = "retry"
    /\ MayRetry(wk[w].retry)
    /\ \E x \in PushOutcomes :
          queue' = LPush(queue, [order |-> wk[w].order, retry |-> NextRetry(wk[w].retry)], x)
    /\ wk' = [wk EXCEPT ![w] = LoopTop]
    /\ UNCHANGED <<rows, dlq, hd, pool, metrics, acked, attempts, payments>>

\* handleProcessError at the limit: dead-letter the message as it is.
DeadLetter(w) ==
    /\ wk[w].pc = "retry"
    /\ ~MayRetry(wk[w].retry)
    /\ \E x \in PushOutcomes :
          dlq' = LPush(dlq, [order |-> wk[w].order, retry |-> wk[w].retry], x)
    /\ wk' = [wk EXCEPT ![w] = LoopTop]
    /\ UNCHANGED <<rows, queue, hd, pool, metrics, acked, attempts, payments>>

-----------------------------------------------------------------------------
(* Processes. *)

\* The API process dies between two steps of its handlers.
ApiCrash ==
    /\ "apiCrash" \in FaultKinds
    /\ hd' = [h \in Handlers |-> IdleHandler]
    /\ metrics' = [metrics EXCEPT !.created = 0]
    /\ UNCHANGED <<rows, lists, wk, pool, acked, attempts, payments>>

\* A fresh worker process: all goroutines at the top of the loop.
FreshPool ==
    /\ wk' = [w \in Workers |-> WorkerAt("dequeue")]
    /\ pool' = "running"
    /\ metrics' = [metrics EXCEPT !.processed = 0, !.failed = 0]
    /\ UNCHANGED <<rows, lists, hd, acked, attempts, payments>>

\* The worker process dies, or run() returns early without waiting for the
\* pool (the metrics listener failed, or its Shutdown did).
WorkerCrash ==
    /\ "workerCrash" \in FaultKinds
    /\ FreshPool

\* SIGINT or SIGTERM cancels the context of the pool.
Signal ==
    /\ "sigterm" \in FaultKinds
    /\ pool = "running"
    /\ pool' = "draining"
    /\ UNCHANGED <<rows, lists, hd, wk, metrics, acked, attempts, payments>>

\* Mutants: run() does not wait for poolDone, or waits until nothing is queued too.
RestartWithoutDrain == pool = "draining" /\ FreshPool
RestartWhenEmpty ==
    /\ pool = "draining" /\ queue = <<>>
    /\ \A w \in Workers : wk[w].pc = "stopped"
    /\ FreshPool

\* run() returns once every goroutine has left runLoop, and a new process starts.
Restart ==
    /\ pool = "draining"
    /\ \A w \in Workers : wk[w].pc = "stopped"
    /\ FreshPool

-----------------------------------------------------------------------------

Init ==
    /\ status = [o \in Orders |-> Absent]
    /\ processedAt = [o \in Orders |-> FALSE]
    /\ queue = <<>>
    /\ dlq = <<>>
    /\ hd = [h \in Handlers |-> IdleHandler]
    /\ wk = [w \in Workers |-> WorkerAt("dequeue")]
    /\ pool = "running"
    /\ metrics = [created |-> 0, processed |-> 0, failed |-> 0]
    /\ acked = {}
    /\ attempts = [o \in Orders |-> 0]
    /\ payments = [o \in Orders |-> 0]

HandlerStep(h) ==
    \/ CreateOrder(h)
    \/ PublishOrderCreated(h)
    \/ ReadForTransition(h)
    \/ WriteTransition(h)

\* Process and handleProcessError for the message a worker holds.
HandleMessage(w) ==
    \/ LoadOrder(w)
    \/ SimulatedFailure(w)
    \/ StartProcessing(w)
    \/ ProcessPayment(w)
    \/ MarkProcessed(w)
    \/ Requeue(w)
    \/ DeadLetter(w)

WorkerStep(w) ==
    \/ Dequeue(w)
    \/ DequeueLost(w)
    \/ DequeueError(w)
    \/ HandleMessage(w)

\* No request is running and no worker can make progress: every BRPOP that is
\* still waiting waits on an empty list.
Quiescent ==
    /\ \A h \in Handlers : hd[h].pc = "idle"
    /\ \A w \in Workers : wk[w].pc = "stopped" \/ (wk[w].pc = "dequeue" /\ queue = <<>>)
    /\ UNCHANGED vars

Next ==
    \/ \E h \in Handlers : HandlerStep(h)
    \/ \E w \in Workers : WorkerStep(w)
    \/ ApiCrash
    \/ WorkerCrash
    \/ Signal
    \/ Restart
    \/ Quiescent

Spec == Init /\ [][Next]_vars

\* A started request runs to its end, a worker whose BRPOP can return a message
\* does so and finishes what it took; a drained process is replaced.  Clients,
\* crashes and signals are not fair, nor is the cancellation of a BRPOP.
Fairness ==
    /\ \A h \in Handlers : WF_vars(PublishOrderCreated(h) \/ WriteTransition(h))
    /\ \A w \in Workers : WF_vars(Dequeue(w))
    /\ \A w \in Workers : WF_vars(HandleMessage(w))
    /\ WF_vars(Restart)

FairSpec == Spec /\ Fairness

-----------------------------------------------------------------------------
(* Properties. *)

\* Every variable has its type.
TypeOK ==
    /\ status \in [Orders -> AllStatuses \cup {Absent}]
    /\ processedAt \in [Orders -> BOOLEAN]
    /\ queue \in Seq(Message)
    /\ dlq \in Seq(Message)
    /\ hd \in [Handlers -> HandlerState]
    /\ wk \in [Workers -> WorkerState]
    /\ pool \in {"running", "draining"}
    /\ metrics \in [created : Nat, processed : Nat, failed : Nat]
    /\ acked \subseteq Orders
    /\ attempts \in [Orders -> Nat]
    /\ payments \in [Orders -> Nat]

Queued(o) == \E i \in 1..Len(queue) : queue[i].order = o
DeadLettered(o) == \E i \in 1..Len(dlq) : dlq[i].order = o
Held(o) == \E w \in Workers : wk[w].order = o

\* A message for the order is in a list or in the hands of a worker.
InFlight(o) == Queued(o) \/ Held(o) \/ DeadLettered(o)

\* Process never charges an order twice, whatever calls fail, whatever crashes
\* and however often its message is retried: a retry that finds the order no
\* longer CREATED is ignored.  (It takes LPUSH not being repeated.)
AtMostOnePayment == \A o \in Orders : payments[o] <= 1

\* handleProcessError dead-letters a message after exactly one attempt and
\* MaxRetries retries, and the message carries that retry count.
DeadLetterExhausted ==
    \A i \in 1..Len(dlq) :
        /\ dlq[i].retry = MaxRetries
        /\ attempts[dlq[i].order] = MaxRetries + 1

\* Create publishes only after its transaction has committed: a message, queued,
\* held or dead-lettered, always names an existing order.
MessageHasRow == \A o \in Orders : InFlight(o) => status[o] # Absent

\* An order that is PAID or SHIPPED was charged, its payment was accepted and
\* its processing time is recorded, however requests and retries interleave; a
\* FAILED one was charged and declined.
SettledMeansCharged ==
    \A o \in Orders :
        /\ status[o] \in {Paid, Shipped} => payments[o] > 0 /\ processedAt[o] /\ o \notin Declined
        /\ status[o] = Failed => payments[o] > 0 /\ processedAt[o] /\ o \in Declined

\* The counters of the collectors never exceed what happened: created orders
\* against answers 201, settled orders against recorded processing times.
MetricsNeverOvercount ==
    /\ metrics.created <= Cardinality(acked)
    /\ metrics.processed <= Cardinality({o \in Orders : processedAt[o] /\ o \notin Declined})
    /\ metrics.failed <= Cardinality({o \in Orders : processedAt[o] /\ o \in Declined})

\* While no message is lost (no failed LPUSH, no lost BRPOP reply, no worker
\* crash), an order answered 201 that is still CREATED has its message in
\* flight: failing statements, API crashes and shutdowns do not strand it.
AckedStaysInFlight ==
    \A o \in acked : status[o] = Created => InFlight(o)

\* Each status change of an existing order is one the transition table allows.
StatusMoves ==
    [][\A o \in Orders :
          status[o] # Absent /\ status'[o] # status[o] => CanTransition(status[o], status'[o])]_vars

\* The unconditional UPDATEs of Cancel and of a worker that raced with it are
\* the only writes that leave the table: every other status change is in it.
OnlyCancelLeavesTable ==
    [][\A o \in Orders :
          status[o] # Absent /\ status'[o] # status[o]
             => \/ CanTransition(status[o], status'[o])
                \/ Canceled \in {status[o], status'[o]}]_vars

\* Process starts only orders that are CREATED at that moment (BR-ORD-009).
WorkerStartsCreated ==
    [][\A o \in Orders :
          status'[o] = Processing /\ status[o] # Processing => status[o] = Created]_vars

\* A transient error of Process is retried until it succeeds or the message is
\* dead-lettered: no order is left PROCESSING with no message to its name.
ProcessingIsRetried == \A o \in Orders : status[o] = Processing => InFlight(o)

\* Run blocks until the context is canceled: before that some worker is running.
PoolStaysUp == pool = "running" => \E w \in Workers : wk[w].pc # "stopped"

Settled(o) == status[o] \in {Paid, Failed, Shipped, Canceled}

\* With no failing call, and unless the worker process is shut down again and
\* again for ever, every order answered 201 is settled for good; one the transient
\* failure hook rejects is canceled or ends on the dead-letter list.
AckedSettles ==
    <>[](pool = "running") \/ <>[](pool = "draining") =>
        \A o \in Orders :
            o \in acked ~> [](Settled(o) \/ (o \in Sentinel /\ DeadLettered(o)))

\* Retries end: however statements and LPUSHes fail, the message of every order
\* eventually leaves the queue and the workers for good.
RetriesEnd ==
    \A o \in Orders : o \in acked ~> [](~Queued(o) /\ ~Held(o))

\* A worker process that was told to shut down finishes the messages its workers
\* hold and is replaced, unless the queue runs empty while the last of its workers
\* wait in BRPOP, which the signal does not interrupt.
DrainWaitsForMessageOnly ==
    pool = "draining" ~>
        \/ pool = "running"
        \/ queue = <<>> /\ \A w \in Workers : wk[w].pc \in {"dequeue", "stopped"}

=============================================================================
