---------------------------- MODULE DebounceBuffer ----------------------------
(***************************************************************************)
(* The listener's debounce buffer (relay_core/listener_engine.py,          *)
(* DebounceBuffer) and the asyncio tasks that drive it: the listener task  *)
(* that adds the fills of each WebSocket message, one timer task per order *)
(* (quiet window or retry backoff), and the flush() tasks a disconnect     *)
(* starts in the background.                                               *)
(*                                                                         *)
(* asyncio runs one task at a time and switches only at an await, so an    *)
(* action is what a task does from one await to the next.  Every send is   *)
(* one call of _send_and_mark in a worker thread: submitting it ends an    *)
(* action, its outcome starts another.                                     *)
(*                                                                         *)
(* Time is abstract: a sleeping timer may fire at any moment, a fill may   *)
(* grow older than max_fill_age_s at any moment.                           *)
(***************************************************************************)
EXTENDS Naturals, FiniteSets

CONSTANTS
    Fills,        \* executions, one per execId
    Orders,       \* orderIds
    OrderOf,      \* the order each fill belongs to
    Errors,       \* parse errors
    Threads,      \* the worker threads asyncio.to_thread sends in
    Flushers,     \* the background flush() tasks that can run at a time
    MaxRetries,   \* len(retry_delays_s)
    MaxReceipts,  \* bound: how often the feed reports each fill
    Debouncing    \* debounce_ms > 0

ASSUME OrderOfAssumption == OrderOf \in [Fills -> Orders]
ASSUME MaxRetriesAssumption == MaxRetries \in Nat
ASSUME MaxReceiptsAssumption == MaxReceipts \in [Fills -> Nat]
ASSUME DebouncingAssumption == Debouncing \in BOOLEAN
ASSUME FlushersAssumption == Flushers \cap {"listener", "timer", "nobody"} = {}

VARIABLES
    bucket,      \* _buffers: the fills waiting per order
    keys,        \* the orders that have an entry in _buffers, perhaps an empty one
    attempts,    \* _attempts: failed sends per order, 0 for no entry
    armed,       \* _flush_tasks: the order has a sleeping timer
    orphans,     \* sleeping timers flush() took out of _flush_tasks but did not cancel
    flushing,    \* _flushing
    parseErrors, \* _parse_errors
    thread,      \* the batch each worker thread is sending
    todo,        \* fills of the current message the listener has yet to add
    completing,  \* those of them that come with order_complete
    msgErrors,   \* parse errors of the current message
    active,      \* flush() tasks that exist
    starting,    \* those of them that have not run yet
    draining,    \* the orders each of the others has yet to visit
    stale,       \* fills executed more than max_fill_age_s ago
    received,    \* how often each fill has been reported
    delivered,   \* fills a successful send carried
    dropped      \* fills reported as dropped

bufferVars   == <<bucket, keys, attempts, armed, orphans, flushing, parseErrors>>
listenerVars == <<todo, completing, msgErrors>>
flusherVars  == <<active, starting, draining>>
vars == <<bufferVars, thread, listenerVars, flusherVars, stale, received,
          delivered, dropped>>

-----------------------------------------------------------------------------
Owners == {"listener", "timer"} \cup Flushers

(* One call of _send_and_mark: the task that awaits it, the coroutine that made
   it (_flush_order, send_now, or flush's drain of orphan parse errors), and
   the orders whose retry state its outcome decides. *)
Batch == [by : Owners, kind : {"order", "now", "errors"},
          orders : SUBSET Orders, fills : SUBSET Fills, errors : SUBSET Errors]

Free == [by |-> "nobody"]

Busy == {t \in Threads : thread[t] # Free}

Awaiting(task) == \E t \in Busy : thread[t].by = task

OfOrder(fills, o) == {f \in fills : OrderOf[f] = o}

Init ==
    /\ bucket = [o \in Orders |-> {}]
    /\ keys = {}
    /\ attempts = [o \in Orders |-> 0]
    /\ armed = [o \in Orders |-> FALSE]
    /\ orphans = [o \in Orders |-> 0]
    /\ flushing = {}
    /\ parseErrors = {}
    /\ thread = [t \in Threads |-> Free]
    /\ todo = {} /\ completing = {} /\ msgErrors = {}
    /\ active = {} /\ starting = {}
    /\ draining = [w \in Flushers |-> {}]
    /\ stale = {}
    /\ received = [f \in Fills |-> 0]
    /\ delivered = {} /\ dropped = {}

-----------------------------------------------------------------------------
(* Shared pieces of the handlers. *)

\* asyncio.to_thread(_send_and_mark, ...)
Submit(batch) ==
    \E t \in Threads :
        /\ thread[t] = Free
        /\ thread' = [thread EXCEPT ![t] = batch]

\* Mutant: what has gone stale since it was buffered is discarded without a report.
ReportedStaleNever(popped) == {}

\* drop_stale: the fills of a popped bucket that are reported as stale.
ReportedStale(popped) == popped \cap stale

(* _flush_order: pop the order's bucket, drop what has gone stale, take the
   accumulated parse errors along, and send unless nothing is left. *)
FlushOrder(task, o, popped) ==
    LET fresh == popped \ stale
    IN  /\ bucket' = [bucket EXCEPT ![o] = {}]
        /\ keys' = keys \ {o}
        /\ dropped' = dropped \cup ReportedStale(popped)
        /\ parseErrors' = {}
        /\ \/ /\ fresh = {} /\ parseErrors = {}
              /\ attempts' = [attempts EXCEPT ![o] = 0]
              /\ UNCHANGED <<thread, flushing>>
           \/ /\ fresh # {} \/ parseErrors # {}
              /\ flushing' = flushing \cup {o}
              /\ Submit([by |-> task, kind |-> "order", orders |-> {o},
                         fills |-> fresh, errors |-> parseErrors])
              /\ UNCHANGED attempts

-----------------------------------------------------------------------------
(* The listener task. *)

ListenerReady == todo = {} /\ msgErrors = {} /\ ~Awaiting("listener")

(* A message with at least one markable fill arrives (_handle_event).  A message
   that carries only parse errors leaves the buffer alone. *)
Receive(fills, complete, errors) ==
    /\ ListenerReady
    /\ fills # {}
    /\ \A f \in fills : received[f] < MaxReceipts[f]
    /\ received' = [f \in Fills |-> IF f \in fills THEN received[f] + 1 ELSE received[f]]
    /\ todo' = fills
    /\ completing' = complete
    /\ msgErrors' = errors
    /\ UNCHANGED <<bufferVars, thread, flusherVars, stale, delivered, dropped>>

CanAdd(f) == Debouncing /\ f \in todo /\ ~Awaiting("listener")

\* add: a stale fill is dropped on arrival.
AddStale(f) ==
    /\ CanAdd(f)
    /\ f \in stale
    /\ dropped' = dropped \cup {f}
    /\ todo' = todo \ {f}
    /\ completing' = completing \ {f}
    /\ UNCHANGED <<bufferVars, thread, msgErrors, flusherVars, stale, received, delivered>>

\* add: the fill joins its order's bucket and restarts the order's quiet window.
AddBuffered(f) ==
    LET o == OrderOf[f]
    IN  /\ CanAdd(f)
        /\ f \notin stale /\ f \notin completing
        /\ bucket' = [bucket EXCEPT ![o] = @ \cup {f}]
        /\ keys' = keys \cup {o}
        /\ armed' = [armed EXCEPT ![o] = TRUE]
        /\ todo' = todo \ {f}
        /\ UNCHANGED <<attempts, orphans, flushing, parseErrors, thread, completing,
                       msgErrors, flusherVars, stale, received, delivered, dropped>>

(* add with order_complete: the timer is cancelled and the order flushed at once;
   the listener awaits the send. *)
AddComplete(f) ==
    LET o == OrderOf[f]
    IN  /\ CanAdd(f)
        /\ f \notin stale /\ f \in completing
        /\ armed' = [armed EXCEPT ![o] = FALSE]
        /\ FlushOrder("listener", o, bucket[o] \cup {f})
        /\ todo' = todo \ {f}
        /\ completing' = completing \ {f}
        /\ UNCHANGED <<orphans, msgErrors, flusherVars, stale, received, delivered>>

\* The message's fills are all added: its parse errors wait for the next flush.
ExtendErrors ==
    /\ Debouncing
    /\ todo = {} /\ msgErrors # {} /\ ~Awaiting("listener")
    /\ parseErrors' = parseErrors \cup msgErrors
    /\ msgErrors' = {}
    /\ UNCHANGED <<bucket, keys, attempts, armed, orphans, flushing, thread, todo,
                   completing, flusherVars, stale, received, delivered, dropped>>

(* send_now, for debounce_ms = 0: the message's fresh fills go out as one batch.
   Its parse errors ride along, or vanish when no fill is fresh. *)
SendNow ==
    LET fresh == todo \ stale
    IN  /\ ~Debouncing
        /\ todo # {}
        /\ dropped' = dropped \cup ReportedStale(todo)
        /\ \/ fresh = {} /\ UNCHANGED thread
           \/ /\ fresh # {}
              /\ Submit([by |-> "listener", kind |-> "now",
                         orders |-> {OrderOf[f] : f \in fresh},
                         fills |-> fresh, errors |-> msgErrors])
        /\ todo' = {} /\ completing' = {} /\ msgErrors' = {}
        /\ UNCHANGED <<bufferVars, flusherVars, stale, received, delivered>>

-----------------------------------------------------------------------------
(* The timer tasks (_delayed_flush). *)

\* The order's timer leaves its slot before it flushes.
TimerFires(o) ==
    /\ armed[o]
    /\ armed' = [armed EXCEPT ![o] = FALSE]
    /\ FlushOrder("timer", o, bucket[o])
    /\ UNCHANGED <<orphans, listenerVars, flusherVars, stale, received, delivered>>

\* A timer that is no longer in the slot leaves whatever is there alone.
OrphanFires(o) ==
    /\ orphans[o] > 0
    /\ orphans' = [orphans EXCEPT ![o] = @ - 1]
    /\ FlushOrder("timer", o, bucket[o])
    /\ UNCHANGED <<armed, listenerVars, flusherVars, stale, received, delivered>>

-----------------------------------------------------------------------------
(* The flush() tasks. *)

\* The connection is lost between two messages: a flush() task is created.
Disconnect(w) ==
    /\ ListenerReady
    /\ w \notin active
    /\ active' = active \cup {w}
    /\ starting' = starting \cup {w}
    /\ UNCHANGED <<bufferVars, thread, listenerVars, draining, stale, received, delivered,
                   dropped>>

\* The orders a flush() task has yet to visit: it lists the keys when it first runs.
ToVisit(w) == IF w \in starting THEN keys ELSE draining[w]

FlushContinues(w, rest) ==
    /\ w \in active /\ ~Awaiting(w)
    /\ starting' = starting \ {w}
    /\ draining' = [draining EXCEPT ![w] = rest]

\* The order sits out a retry backoff.
WaitsForRetry(o) == attempts[o] > 0 /\ armed[o]

(* The next iteration of flush's loop that does anything: `passed' are orders it
   reached first and left to their retry timer.  The order's timer is taken out
   of its slot, and cancelled unless a send of that order is in progress. *)
FlushNext(w, o, passed) ==
    /\ o \in ToVisit(w) \ passed
    /\ \A p \in passed : WaitsForRetry(p)
    /\ ~WaitsForRetry(o)
    /\ FlushContinues(w, ToVisit(w) \ (passed \cup {o}))
    /\ armed' = [armed EXCEPT ![o] = FALSE]
    /\ orphans' = [orphans EXCEPT ![o] = IF armed[o] /\ o \in flushing THEN @ + 1 ELSE @]
    /\ FlushOrder(w, o, bucket[o])
    /\ UNCHANGED <<listenerVars, active, stale, received, delivered>>

\* The loop is over and no parse error is left without fills to ride with.
FlushEnds(w) ==
    /\ \A p \in ToVisit(w) : WaitsForRetry(p)
    /\ parseErrors = {}
    /\ FlushContinues(w, {})
    /\ active' = active \ {w}
    /\ UNCHANGED <<bufferVars, thread, listenerVars, stale, received, delivered, dropped>>

\* The loop is over: the orphan parse errors are sent on their own.
FlushErrors(w) ==
    /\ \A p \in ToVisit(w) : WaitsForRetry(p)
    /\ parseErrors # {}
    /\ FlushContinues(w, {})
    /\ parseErrors' = {}
    /\ Submit([by |-> w, kind |-> "errors", orders |-> {}, fills |-> {},
               errors |-> parseErrors])
    /\ UNCHANGED <<bucket, keys, attempts, armed, orphans, flushing, listenerVars,
                   active, stale, received, delivered, dropped>>

-----------------------------------------------------------------------------
(* The outcome of a send, handled by the task that awaited it. *)

\* What the awaiting task does next: only the drain of parse errors ends its task.
TaskAfter(batch) ==
    active' = IF batch.kind = "errors" THEN active \ {batch.by} ELSE active

\* _flushing.discard, in the finally of _flush_order.
NoLongerFlushing(batch) ==
    flushing' = IF batch.kind = "order" THEN flushing \ batch.orders ELSE flushing

\* Mutant: success leaves the retry count behind.
SentKeepsAttempts(t) ==
    LET batch == thread[t]
    IN  /\ batch # Free
        /\ thread' = [thread EXCEPT ![t] = Free]
        /\ delivered' = delivered \cup batch.fills
        /\ NoLongerFlushing(batch)
        /\ TaskAfter(batch)
        /\ UNCHANGED <<bucket, keys, attempts, armed, orphans, parseErrors, listenerVars,
                       starting, draining, stale, received, dropped>>

Sent(t) ==
    LET batch == thread[t]
    IN  /\ batch # Free
        /\ thread' = [thread EXCEPT ![t] = Free]
        /\ delivered' = delivered \cup batch.fills
        /\ attempts' = [o \in Orders |->
               IF batch.kind = "order" /\ o \in batch.orders THEN 0 ELSE attempts[o]]
        /\ NoLongerFlushing(batch)
        /\ TaskAfter(batch)
        /\ UNCHANGED <<bucket, keys, armed, orphans, parseErrors, listenerVars, starting,
                       draining, stale, received, dropped>>

\* Mutant: one retry more than there are delays.
RetriedOnceMore(batch, transient) ==
    {o \in batch.orders : transient /\ attempts[o] <= MaxRetries}

\* The orders of a failed batch that get another attempt.
Retried(batch, transient) ==
    {o \in batch.orders : transient /\ attempts[o] < MaxRetries}

\* Mutant: the failed batch replaces what was buffered meanwhile.
RestoredOver(o, fills) == OfOrder(fills, o)

\* _restore: the failed batch, merged with the fills added meanwhile.
Restored(o, fills) == bucket[o] \cup OfOrder(fills, o)

\* Mutant: no retry timer while the order still counts as flushing.
RetryArmedUnlessFlushing(again) ==
    [o \in Orders |-> armed[o] \/ (o \in again /\ o \notin flushing)]

(* A retried order has a timer afterwards: the retry timer, or the quiet-window timer
   of a fill added while the send was in flight. *)
RetryArmed(again) == [o \in Orders |-> armed[o] \/ o \in again]

(* _on_flush_failure for each order of the batch: restore its fills and arm a retry
   timer, or drop and report them.  The parse errors share the fate of `first',
   the first order of the batch. *)
SendFailed(t, transient, first) ==
    LET batch == thread[t]
        again == Retried(batch, transient)
        givenUp == batch.orders \ again
    IN  /\ batch # Free /\ batch.kind # "errors"
        /\ first \in batch.orders
        /\ thread' = [thread EXCEPT ![t] = Free]
        /\ attempts' = [o \in Orders |-> IF o \in again THEN attempts[o] + 1
                                         ELSE IF o \in givenUp THEN 0 ELSE attempts[o]]
        /\ bucket' = [o \in Orders |->
               IF o \in again THEN Restored(o, batch.fills) ELSE bucket[o]]
        /\ keys' = keys \cup again
        /\ armed' = RetryArmed(again)
        /\ parseErrors' = IF first \in again THEN parseErrors \cup batch.errors
                                             ELSE parseErrors
        /\ dropped' = dropped \cup {f \in batch.fills : OrderOf[f] \in givenUp}
        /\ NoLongerFlushing(batch)
        /\ UNCHANGED <<orphans, listenerVars, flusherVars, stale, received, delivered>>

\* flush's drain of parse errors failed: they wait for the next flush.
ErrorsFailed(t) ==
    LET batch == thread[t]
    IN  /\ batch # Free /\ batch.kind = "errors"
        /\ thread' = [thread EXCEPT ![t] = Free]
        /\ parseErrors' = parseErrors \cup batch.errors
        /\ TaskAfter(batch)
        /\ UNCHANGED <<bucket, keys, attempts, armed, orphans, flushing, listenerVars,
                       starting, draining, stale, received, delivered, dropped>>

\* Time passes: a fill becomes older than max_fill_age_s.
Expire(f) ==
    /\ f \notin stale
    /\ stale' = stale \cup {f}
    /\ UNCHANGED <<bufferVars, thread, listenerVars, flusherVars, received, delivered,
                   dropped>>

-----------------------------------------------------------------------------
ListenerStep ==
    \/ \E f \in Fills : AddStale(f) \/ AddBuffered(f) \/ AddComplete(f)
    \/ ExtendErrors
    \/ SendNow

FlusherStep(w) ==
    \/ \E o \in Orders : \E passed \in SUBSET ToVisit(w) : FlushNext(w, o, passed)
    \/ FlushEnds(w)
    \/ FlushErrors(w)

Outcome(t) ==
    \/ Sent(t)
    \/ \E transient \in BOOLEAN, first \in Orders : SendFailed(t, transient, first)
    \/ ErrorsFailed(t)

Next ==
    \/ \E fills \in SUBSET Fills : \E complete \in SUBSET fills, errors \in SUBSET Errors :
           Receive(fills, complete, errors)
    \/ ListenerStep
    \/ \E o \in Orders : TimerFires(o) \/ OrphanFires(o)
    \/ \E w \in Flushers : Disconnect(w) \/ FlusherStep(w)
    \/ \E t \in Threads : Outcome(t)
    \/ \E f \in Fills : Expire(f)

(* asyncio resumes every task that is ready, timers fire when their delay is over,
   and a send ends: notify bounds its attempts and each has a timeout.  Nothing
   says that a message arrives, that the connection is lost or that time passes. *)
Fairness ==
    /\ WF_vars(ListenerStep)
    /\ \A o \in Orders : WF_vars(TimerFires(o)) /\ WF_vars(OrphanFires(o))
    /\ \A w \in Flushers : WF_vars(FlusherStep(w))
    /\ \A t \in Threads : WF_vars(Outcome(t))

SafetySpec == Init /\ [][Next]_vars
Spec == SafetySpec /\ Fairness

-----------------------------------------------------------------------------
(* Type invariant. *)
TypeOK ==
    /\ bucket \in [Orders -> SUBSET Fills]
    /\ keys \in SUBSET Orders
    /\ attempts \in [Orders -> 0..MaxRetries]
    /\ armed \in [Orders -> BOOLEAN]
    /\ orphans \in [Orders -> Nat]
    /\ flushing \in SUBSET Orders
    /\ parseErrors \in SUBSET Errors
    /\ thread \in [Threads -> Batch \cup {Free}]
    /\ todo \in SUBSET Fills /\ completing \in SUBSET Fills /\ msgErrors \in SUBSET Errors
    /\ active \in SUBSET Flushers /\ starting \in SUBSET Flushers
    /\ draining \in [Flushers -> SUBSET Orders]
    /\ stale \in SUBSET Fills
    /\ received \in [Fills -> Nat]
    /\ delivered \in SUBSET Fills /\ dropped \in SUBSET Fills

Buffered == UNION {bucket[o] : o \in Orders}
InFlight == UNION {thread[t].fills : t \in Busy}
Held == todo \cup Buffered \cup InFlight

(* No fill stays in the buffer indefinitely: every order with fills waiting has a
   timer sleeping that will flush it.  This is about every place that takes a timer
   out of its slot (add, flush, a firing timer) racing with every place that puts
   fills back (a failed send). *)
NoStrandedFill ==
    \A o \in Orders : bucket[o] # {} => (armed[o] \/ orphans[o] > 0)

(* The retry count of an order is kept only while a retry is due or being sent, so a
   later, unrelated batch of the order starts with its whole budget and the dict
   does not grow. *)
AttemptsBelongToARetry ==
    \A o \in Orders : attempts[o] > 0 =>
        \/ armed[o] \/ orphans[o] > 0
        \/ \E t \in Busy : thread[t].kind = "order" /\ o \in thread[t].orders

(* Every fill the listener accepted is delivered, reported as dropped, or still
   held: waiting for a timer, for a send that is running, or for the rest of its
   message. *)
NoSilentLoss ==
    \A f \in Fills : received[f] > 0 => f \in delivered \cup dropped \cup Held

(* The buffer implements the custody it promises: fills leave it only by being
   delivered or reported, and every one leaves. *)
CustodyOfFills == INSTANCE FillCustody WITH held <- Held

KeepsCustody == CustodyOfFills!Custody

=============================================================================
