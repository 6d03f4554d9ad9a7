------------------------------- MODULE Delivery -------------------------------
(***************************************************************************)
(* The two paths of one relay that deliver the same executions: listener   *)
(* sends (relay_core/listener_engine.py, _send_and_mark, each in a worker  *)
(* thread) and poll cycles (relay_core/poller_engine.py, poll_once), over  *)
(* the state they share: the processed_fills table (relay_core/dedup), the *)
(* in-flight registry (relay_core/inflight.py) and the poller's timestamp  *)
(* watermark.                                                              *)
(*                                                                         *)
(* The two paths describe one execution differently: the WebSocket feed    *)
(* reports fills, the REST feed reports trades, each with its own          *)
(* identifiers and, on some brokers, its own order ids; a REST trade may   *)
(* consolidate several fills.  The constants say how, so that one module   *)
(* covers Kraken (same order ids, consolidated trades) and IBKR (unrelated *)
(* order ids, aliases for combo legs).                                     *)
(*                                                                         *)
(* An action is one step of a thread between two accesses to shared state: *)
(* every SQLite statement batch with its commit, every call on the         *)
(* registry, and every notify.                                             *)
(***************************************************************************)
EXTENDS Naturals, FiniteSets, FiniteSetsExt

CONSTANTS
    Fills,       \* executions, as the WebSocket feed reports them
    Trades,      \* executions, as the REST feed reports them
    TradeOf,     \* the REST trade each fill is part of
    Orders,      \* order ids
    WsOrder,     \* a fill's orderId on the WebSocket path
    RestOrder,   \* a trade's orderId on the REST path
    Ids,         \* execution ids
    WsId,        \* a fill's execId on the WebSocket path
    RestId,      \* a trade's execId on the REST path
    Aliases,     \* BrokerRelay.dedup_aliases
    TradeTime,   \* a trade's execution time, in epoch seconds
    Threads,     \* worker threads the listener sends in
    Window,      \* 2 * config.interval, in ticks of the clock
    MaxClock,    \* bound: ticks of the clock
    MaxSends,    \* bound: sends the listener attempts of one fill
    MaxCrashes   \* bound: restarts of the relay

NoOrder == "NULL"
Poller == "poller"

ASSUME IdentityAssumption ==
    /\ TradeOf \in [Fills -> Trades]
    /\ WsOrder \in [Fills -> Orders] /\ RestOrder \in [Trades -> Orders]
    /\ WsId \in [Fills -> Ids] /\ RestId \in [Trades -> Ids]
    /\ Aliases \in [Ids -> SUBSET Ids]
    /\ TradeTime \in [Trades -> Nat \ {0}]
    /\ NoOrder \notin Orders
    /\ IsFiniteSet(Trades)
(* Ids tell executions apart: no fill has the id of another or goes by it, no two trades have
   the same, and a REST id that a fill goes by is that of the fill's trade.  Sibling fills may
   share an alias, and the trade that has it. *)
ASSUME DistinctIdsAssumption ==
    /\ \A f, g \in Fills : WsId[g] \in {WsId[f]} \cup Aliases[WsId[f]] => f = g
    /\ \A q, r \in Trades : RestId[q] = RestId[r] => q = r
    /\ \A f \in Fills, r \in Trades : RestId[r] \in {WsId[f]} \cup Aliases[WsId[f]] => TradeOf[f] = r
ASSUME ThreadsAssumption == IsFiniteSet(Threads) /\ Poller \notin Threads
ASSUME BoundAssumption ==
    Window \in Nat /\ MaxClock \in Nat /\ MaxSends \in Nat /\ MaxCrashes \in Nat

VARIABLES
    published,   \* trades the REST feed reports
    row,         \* processed_fills: order_id and processed_at per exec_id
    clock,       \* wall-clock time
    watermark,   \* last_poll_ts, 0 when there is none
    inflight,    \* INFLIGHT_ORDERS: how many sends have registered each order
    lpc,         \* where each listener thread stands
    batch,       \* the fills it sends
    ppc,         \* where the poll cycle stands
    fresh,       \* poll_once's new_fills
    deferred,    \* poll_once's deferred_fills
    delivered,   \* fills some notifier has received
    marked,      \* fills whose delivery has been recorded
    seen,        \* marked, as of each reader's first look at the table
    sends,       \* sends the listener attempted of each fill
    crashes      \* restarts so far

listener == <<lpc, batch, sends>>
poller   == <<ppc, fresh, deferred>>
store    == <<row, watermark>>
vars == <<published, store, clock, inflight, listener, poller, delivered, marked, seen,
          crashes>>

-----------------------------------------------------------------------------
NoRow  == [order |-> NoOrder, at |-> MaxClock + 1]
Rows   == [order : Orders \cup {NoOrder}, at : 0..MaxClock] \cup {NoRow}

Present(id) == row[id] # NoRow

FillsOf(trades) == {f \in Fills : TradeOf[f] \in trades}
OrdersOf(fills) == {WsOrder[f] : f \in fills}

Init ==
    /\ published = {}
    /\ row = [id \in Ids |-> NoRow]
    /\ clock = 0
    /\ watermark = 0
    /\ inflight = [o \in Orders |-> 0]
    /\ lpc = [t \in Threads |-> "idle"]
    /\ batch = [t \in Threads |-> {}]
    /\ ppc = "idle" /\ fresh = {} /\ deferred = {}
    /\ delivered = {} /\ marked = {}
    /\ seen = [r \in Threads \cup {Poller} |-> {}]
    /\ sends = [f \in Fills |-> 0]
    /\ crashes = 0

-----------------------------------------------------------------------------
(* The environment: the REST feed and the clock. *)

\* The feed is assumed to publish trades in the order of their times.
Publish(r) ==
    /\ r \notin published
    /\ \A q \in Trades : TradeTime[q] < TradeTime[r] => q \in published
    /\ published' = published \cup {r}
    /\ UNCHANGED <<store, clock, inflight, listener, poller, delivered, marked, seen, crashes>>

Tick ==
    /\ clock < MaxClock
    /\ clock' = clock + 1
    /\ UNCHANGED <<published, store, inflight, listener, poller, delivered, marked, seen,
                   crashes>>

-----------------------------------------------------------------------------
(* processed_fills. *)

\* Mutant: processed_at is ahead of the clock, as local time is of UTC.
MarkedAhead(ids, order) ==
    [id \in Ids |-> IF id \in ids /\ ~Present(id)
                    THEN [order |-> order[id], at |-> clock + Window] ELSE row[id]]

\* INSERT OR IGNORE of each id, committed together.
Marked(ids, order) ==
    [id \in Ids |-> IF id \in ids /\ ~Present(id) THEN [order |-> order[id], at |-> clock]
                    ELSE row[id]]

\* Mutant: the aliases are not recorded.
OwnKeyOf(f) == {WsId[f]}

\* The ids a listener send records for a fill: its own and its aliases.
KeysOf(f) == {WsId[f]} \cup Aliases[WsId[f]]

\* Mutant: only rows that the listener wrote count.
ProcessedByListener(f) ==
    \E id \in {WsId[f]} \cup Aliases[WsId[f]] : Present(id) /\ row[id].order # NoOrder

\* Mutant: an alias counts whoever wrote the row.
ProcessedByAnyone(f) == \E id \in {WsId[f]} \cup Aliases[WsId[f]] : Present(id)

(* get_processed_rows as the listener uses it: its own exec id counts whoever wrote
   the row, an alias only when the poller did. *)
AlreadyProcessed(f) ==
    \/ Present(WsId[f])
    \/ \E id \in Aliases[WsId[f]] : Present(id) /\ row[id].order = NoOrder

\* get_recently_processed_order_ids.
RecentlyProcessed(order) ==
    \E id \in Ids : Present(id) /\ row[id].order = order /\ clock < row[id].at + Window

-----------------------------------------------------------------------------
(* INFLIGHT_ORDERS, a counted registry. *)

Registered(orders) == [o \in Orders |-> IF o \in orders THEN inflight[o] + 1 ELSE inflight[o]]

\* Mutant: the registry is a set, so the first release of an order forgets all sends.
ReleasedAll(orders) == [o \in Orders |-> IF o \in orders THEN 0 ELSE inflight[o]]

Released(orders) ==
    [o \in Orders |-> IF o \in orders /\ inflight[o] > 0 THEN inflight[o] - 1 ELSE inflight[o]]

-----------------------------------------------------------------------------
(* A notify call.  The relay counts it as successful or not; a receiver that answers
   too late has the payload although the relay counts a failure. *)
Receives(fills) == delivered' = delivered \cup fills
Misses == UNCHANGED delivered

-----------------------------------------------------------------------------
(* A listener send: _send_and_mark. *)

(* The fills of a batch are looked up in the table; those not processed yet go on.
   The buffer retries failed sends and the feed may replay, so a fill can come again. *)
Lookup(t, fills) ==
    LET new == {f \in fills : ~AlreadyProcessed(f)}
    IN  /\ lpc[t] = "idle"
        /\ new # {}
        /\ \A f \in fills : sends[f] < MaxSends
        /\ sends' = [f \in Fills |-> IF f \in fills THEN sends[f] + 1 ELSE sends[f]]
        /\ batch' = [batch EXCEPT ![t] = new]
        /\ lpc' = [lpc EXCEPT ![t] = "register"]
        /\ seen' = [seen EXCEPT ![t] = marked]
        /\ UNCHANGED <<published, store, clock, inflight, poller, delivered, marked, crashes>>

Register(t) ==
    /\ lpc[t] = "register"
    /\ inflight' = Registered(OrdersOf(batch[t]))
    /\ lpc' = [lpc EXCEPT ![t] = "notify"]
    /\ UNCHANGED <<published, store, clock, batch, sends, poller, delivered, marked, seen,
                   crashes>>

\* notify returns: mark next.
NotifySucceeds(t) ==
    /\ lpc[t] = "notify"
    /\ Receives(batch[t])
    /\ lpc' = [lpc EXCEPT ![t] = "mark"]
    /\ UNCHANGED <<published, store, clock, inflight, batch, sends, poller, marked, seen,
                   crashes>>

\* Mutant: a failure is swallowed and the batch is marked.
NotifyFailsAndMarks(t) ==
    /\ lpc[t] = "notify"
    /\ Receives(batch[t]) \/ Misses
    /\ lpc' = [lpc EXCEPT ![t] = "mark"]
    /\ UNCHANGED <<published, store, clock, inflight, batch, sends, poller, marked, seen,
                   crashes>>

\* notify raises: mark is skipped, the finally clause releases.
NotifyFails(t) ==
    /\ lpc[t] = "notify"
    /\ Receives(batch[t]) \/ Misses
    /\ lpc' = [lpc EXCEPT ![t] = "release"]
    /\ UNCHANGED <<published, store, clock, inflight, batch, sends, poller, marked, seen,
                   crashes>>

\* mark_processed_batch_with_orders.
Mark(t) ==
    LET ids == UNION {KeysOf(f) : f \in batch[t]}
        order == [id \in ids |-> WsOrder[CHOOSE f \in batch[t] : id \in KeysOf(f)]]
    IN  /\ lpc[t] = "mark"
        /\ row' = Marked(ids, order)
        /\ marked' = marked \cup batch[t]
        /\ lpc' = [lpc EXCEPT ![t] = "release"]
        /\ UNCHANGED <<published, watermark, clock, inflight, batch, sends, poller, delivered,
                       seen, crashes>>

Release(t) ==
    /\ lpc[t] = "release"
    /\ inflight' = Released(OrdersOf(batch[t]))
    /\ lpc' = [lpc EXCEPT ![t] = "idle"]
    /\ batch' = [batch EXCEPT ![t] = {}]
    /\ UNCHANGED <<published, store, clock, sends, poller, delivered, marked, seen, crashes>>

-----------------------------------------------------------------------------
(* A poll cycle: poll_once.  The per-poller lock admits one at a time. *)

\* Mutant: the pre-filter drops the second the watermark stands at.
CandidatesAfter == {r \in published : TradeTime[r] > watermark}

\* The trades at or after the watermark; no watermark lets all through.
Candidates == {r \in published : TradeTime[r] >= watermark}

Fetch ==
    /\ ppc = "idle"
    /\ Candidates # {}
    /\ fresh' = Candidates
    /\ ppc' = "exec_dedup"
    /\ UNCHANGED <<published, store, clock, inflight, listener, deferred, delivered, marked,
                   seen, crashes>>

\* What remains of the cycle when nothing is left to send.
GoOn(next, left) ==
    /\ fresh' = left
    /\ ppc' = IF left = {} THEN "idle" ELSE next

\* get_processed_ids.
ExecDedup ==
    /\ ppc = "exec_dedup"
    /\ GoOn("order_dedup", {r \in fresh : ~Present(RestId[r])})
    /\ seen' = [seen EXCEPT ![Poller] = marked]
    /\ UNCHANGED <<published, store, clock, inflight, listener, deferred, delivered, marked,
                   crashes>>

\* The order-level dedup drops trades whose order the listener processed recently.
OrderDedup ==
    /\ ppc = "order_dedup"
    /\ GoOn("defer", {r \in fresh : ~RecentlyProcessed(RestOrder[r])})
    /\ UNCHANGED <<published, store, clock, inflight, listener, deferred, delivered, marked,
                   seen, crashes>>

\* Trades of an order the listener is sending are deferred to the next cycle.
Defer ==
    LET held == {r \in fresh : inflight[RestOrder[r]] > 0}
    IN  /\ ppc = "defer"
        /\ GoOn("notify", fresh \ held)
        /\ deferred' = IF fresh = held THEN {} ELSE held
        /\ UNCHANGED <<published, store, clock, inflight, listener, delivered, marked, seen,
                       crashes>>

PollNotifySucceeds ==
    /\ ppc = "notify"
    /\ Receives(FillsOf(fresh))
    /\ ppc' = "mark"
    /\ UNCHANGED <<published, store, clock, inflight, listener, fresh, deferred, marked, seen,
                   crashes>>

\* NotificationError ends the cycle with nothing marked.
PollNotifyFails ==
    /\ ppc = "notify"
    /\ Receives(FillsOf(fresh)) \/ Misses
    /\ ppc' = "idle" /\ fresh' = {} /\ deferred' = {}
    /\ UNCHANGED <<published, store, clock, inflight, listener, marked, seen, crashes>>

\* mark_processed_batch: order_id stays NULL.
PollMark ==
    /\ ppc = "mark"
    /\ row' = Marked({RestId[r] : r \in fresh}, [id \in Ids |-> NoOrder])
    /\ marked' = marked \cup FillsOf(fresh)
    /\ ppc' = "watermark"
    /\ UNCHANGED <<published, watermark, clock, inflight, listener, fresh, deferred, delivered,
                   seen, crashes>>

Times(trades) == {TradeTime[r] : r \in trades}

\* Mutant: deferred trades do not cap the watermark.
UncappedWatermark == Max(Times(fresh))

\* The latest trade sent, but never past a deferred one.
NewWatermark == Min({Max(Times(fresh))} \cup Times(deferred))

AdvanceWatermark ==
    /\ ppc = "watermark"
    /\ watermark' = NewWatermark
    /\ ppc' = "idle" /\ fresh' = {} /\ deferred' = {}
    /\ UNCHANGED <<published, row, clock, inflight, listener, delivered, marked, seen, crashes>>

-----------------------------------------------------------------------------
(* The relay stops and starts again: threads and the registry are gone, the two
   databases stay. *)
Crash ==
    /\ crashes < MaxCrashes
    /\ crashes' = crashes + 1
    /\ lpc' = [t \in Threads |-> "idle"]
    /\ batch' = [t \in Threads |-> {}]
    /\ ppc' = "idle" /\ fresh' = {} /\ deferred' = {}
    /\ inflight' = [o \in Orders |-> 0]
    /\ UNCHANGED <<published, store, clock, sends, delivered, marked, seen>>

-----------------------------------------------------------------------------
ListenerStep(t) ==
    Register(t) \/ NotifySucceeds(t) \/ NotifyFails(t) \/ Mark(t) \/ Release(t)

PollStep ==
    \/ Fetch \/ ExecDedup \/ OrderDedup \/ Defer
    \/ PollNotifySucceeds \/ PollNotifyFails \/ PollMark \/ AdvanceWatermark

Next ==
    \/ \E r \in Trades : Publish(r)
    \/ Tick
    \/ \E t \in Threads : (\E fills \in SUBSET Fills : Lookup(t, fills)) \/ ListenerStep(t)
    \/ PollStep
    \/ Crash

(* A thread that has started goes on, the poll loop runs a cycle every interval, and a
   receiver that keeps being called answers in time again and again. *)
Fairness ==
    /\ \A t \in Threads : WF_vars(ListenerStep(t))
    /\ WF_vars(PollStep)
    /\ SF_vars(PollNotifySucceeds)
    /\ WF_vars(Tick)

SafetySpec == Init /\ [][Next]_vars
Spec == SafetySpec /\ Fairness

-----------------------------------------------------------------------------
TypeOK ==
    /\ published \in SUBSET Trades
    /\ row \in [Ids -> Rows]
    /\ clock \in 0..MaxClock
    /\ watermark \in Nat
    /\ inflight \in [Orders -> Nat]
    /\ lpc \in [Threads -> {"idle", "register", "notify", "mark", "release"}]
    /\ batch \in [Threads -> SUBSET Fills]
    /\ ppc \in {"idle", "exec_dedup", "order_dedup", "defer", "notify", "mark", "watermark"}
    /\ fresh \in SUBSET Trades /\ deferred \in SUBSET Trades
    /\ delivered \in SUBSET Fills /\ marked \in SUBSET Fills
    /\ seen \in [Threads \cup {Poller} -> SUBSET Fills]
    /\ sends \in [Fills -> Nat] /\ crashes \in 0..MaxCrashes

\* What a thread or a cycle has found new and not yet sent.
InHand ==
    [s \in Threads \cup {Poller} |->
        IF s = Poller THEN IF ppc \in {"order_dedup", "defer", "notify"} THEN FillsOf(fresh) ELSE {}
        ELSE IF lpc[s] \in {"register", "notify"} THEN batch[s] ELSE {}]

\* No other fill goes by the id the REST feed has for r, or is part of r with one that does.
Alone(r) == \A f \in Fills : RestId[r] \in KeysOf(f) => FillsOf({r}) = {f}

(* Mark-after-notify: whatever either path would recognise as already processed has
   reached a receiver, whichever path recorded it and wherever a crash fell.  A row that the
   listener wrote under an alias hides no sibling from the listener; from the poller, which has
   one id for all of them, it hides those of the trade that were not sent. *)
MarkedIsDelivered ==
    /\ \A f \in Fills : AlreadyProcessed(f) => f \in delivered
    /\ \A r \in Trades : Present(RestId[r]) =>
           IF Alone(r) THEN FillsOf({r}) \subseteq delivered ELSE FillsOf({r}) \cap delivered # {}

(* A fill no receiver has is still ahead of the watermark, so a later poll cycle sees
   it: neither a deferral, nor a failed send of the listener, nor a crash can drop it. *)
UndeliveredStaysInReach ==
    \A r \in published : ~(FillsOf({r}) \subseteq delivered) => r \in Candidates

(* While a listener send of an order is between register and release, the poller can
   see it, however many sends of that order overlap. *)
SendsAreVisible ==
    \A t \in Threads : lpc[t] \in {"notify", "mark", "release"} =>
        \A o \in OrdersOf(batch[t]) : inflight[o] > 0

(* No fill is sent again once its delivery was on record: the path that reads the
   table after the other path committed its mark leaves the fill out.  Of the siblings of an
   alias the listener cannot tell which ones the poller's trade was: one may come again ("a
   wrong alias degrades to a duplicate webhook"). *)
NoRepeatAfterMark ==
    /\ \A t \in Threads : \A f \in batch[t] \cap seen[t] : ~Alone(TradeOf[f])
    /\ ppc = "notify" => FillsOf(fresh) \cap seen[Poller] = {}

(* "At-least-once, never at-most-once" (README.md): both paths, every retry and every restart
   together do what RelayPromise says of one relay.  A trade is passed by only once it is
   delivered, recorded only after, and taken up by nobody once it is recorded. *)
Relay == INSTANCE RelayPromise WITH
    Senders <- Threads \cup {Poller}, reported <- published, inReach <- Candidates,
    inHand <- InHand, recorded <- marked

KeepsItsPromise == Relay!Promise

(* At-least-once: every published trade is delivered in full in the end; of siblings that
   share the trade's id, some. *)
AtLeastOnce ==
    \A r \in Trades :
        r \in published ~> IF Alone(r) THEN FillsOf({r}) \subseteq delivered
                                      ELSE FillsOf({r}) \cap delivered # {}
=============================================================================
