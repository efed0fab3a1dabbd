------------------------- MODULE OrderProcessingInv -------------------------
(***************************************************************************)
(* The inductive invariant behind the safety properties of OrderProcessing,*)
(* in two layers: RowInv holds whatever fails, TokenInv as long as the     *)
(* Redis client does not repeat an LPUSH.                                  *)
(***************************************************************************)
EXTENDS OrderProcessing

\* Only a goroutine at work names an order.
IdleNamesNone ==
    /\ \A h \in Handlers : hd[h].order = None <=> hd[h].pc = "idle"
    /\ \A h \in Handlers : hd[h].pc = "write" => hd[h].to # None
    /\ \A w \in Workers : wk[w].order = None <=> wk[w].pc \in {"dequeue", "stopped"}

\* Messages and running requests name orders that exist.
NamesExist ==
    /\ \A i \in 1..Len(queue) : status[queue[i].order] # Absent
    /\ \A i \in 1..Len(dlq) : status[dlq[i].order] # Absent
    /\ \A h \in Handlers : hd[h].pc # "idle" => status[hd[h].order] # Absent
    /\ \A w \in Workers : wk[w].order \in Orders => status[wk[w].order] # Absent

\* Money moved before an order is settled or its shipping is under way.
ChargedFirst ==
    /\ SettledMeansCharged
    /\ \A w \in Workers : wk[w].pc = "finish" => payments[wk[w].order] > 0
    /\ \A h \in Handlers : hd[h].pc = "write" /\ hd[h].to = Shipped
          => payments[hd[h].order] > 0 /\ processedAt[hd[h].order] /\ hd[h].order \notin Declined

RowInv == TypeOK /\ IdleNamesNone /\ NamesExist /\ ChargedFirst

-----------------------------------------------------------------------------

\* There is at most one live message per order: on the queue, or held by one
\* worker, or yet to be published by the one handler that created the order.
OneToken ==
    /\ \A i, j \in 1..Len(queue) : queue[i].order = queue[j].order => i = j
    /\ \A v, w \in Workers : wk[v].order \in Orders /\ wk[v].order = wk[w].order => v = w
    /\ \A i \in 1..Len(queue), w \in Workers : wk[w].order # queue[i].order

PublishingIsFresh ==
    \A h \in Handlers : hd[h].pc = "publish" =>
        /\ attempts[hd[h].order] = 0
        /\ \A i \in 1..Len(queue) : queue[i].order # hd[h].order
        /\ \A w \in Workers : wk[w].order # hd[h].order
        /\ \A g \in Handlers : hd[g].pc = "publish" /\ hd[g].order = hd[h].order => g = h

\* The retry count of a live message is the number of attempts already made.
RetryCountsAttempts ==
    /\ \A o \in Orders : status[o] = Absent => attempts[o] = 0
    /\ \A i \in 1..Len(queue) : queue[i].retry = attempts[queue[i].order]
    /\ \A w \in Workers : wk[w].order \in Orders => wk[w].retry + 1 = attempts[wk[w].order]
    /\ DeadLetterExhausted

\* What the worker that holds an order knows of it: nobody else moves the
\* order, except that Cancel may have overwritten its status.
WorkerKnows ==
    \A w \in Workers :
        /\ wk[w].pc = "start" => /\ status[wk[w].order] \in {Created, Canceled}
                                 /\ payments[wk[w].order] = 0
                                 /\ ~processedAt[wk[w].order]
        /\ wk[w].pc = "pay" => /\ status[wk[w].order] \in {Processing, Canceled}
                               /\ payments[wk[w].order] = 0
                               /\ ~processedAt[wk[w].order]
        /\ wk[w].pc = "finish" => /\ status[wk[w].order] \in {Processing, Canceled}
                                  /\ ~processedAt[wk[w].order]

\* A charged order never looks CREATED again, so a retry of it is ignored.
ChargedOnce ==
    \A o \in Orders :
        /\ payments[o] <= 1
        /\ payments[o] > 0 => status[o] \notin {Absent, Created}
        /\ processedAt[o] => status[o] \notin {Absent, Created, Processing}

\* The invariant that TLAPS proves inductive: one live message per order, whose
\* retry count is the order's attempts so far, and a worker that alone moves the
\* order it holds.  Process's "not CREATED, ignore" test rests on it.
TokenInv ==
    /\ RowInv
    /\ OneToken
    /\ PublishingIsFresh
    /\ RetryCountsAttempts
    /\ WorkerKnows
    /\ ChargedOnce

-----------------------------------------------------------------------------

Lifecycle == INSTANCE OrderLifecycle WITH settled <- processedAt, charged <- payments

\* The API, the workers, their retries and their crashes together implement the
\* lifecycle of an order: nothing but a late Cancel leaves it.
ImplementsLifecycle == Lifecycle!LifecycleSpec

=============================================================================
