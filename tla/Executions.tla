----------------------------- MODULE Executions -----------------------------
(***************************************************************************)
(* From what IBKR's bridge says of an account's executions to the trades   *)
(* a consumer adds up: an execution is reported when it happens            *)
(* (execDetailsEvent) and again with its commission                        *)
(* (commissionReportEvent), either of them once more after a reconnect.    *)
(* The adapter (relays/ibkr/__init__.py) makes a fill of a report or says  *)
(* why not, the listener splits the fills (listener_engine.py), and        *)
(* aggregate_fills (shared/utilities.py) makes trades of what is flushed.  *)
(* Sending succeeds here: how a batch is delivered is in DebounceBuffer    *)
(* and Delivery.  Prices and fees are left out, times but for which is     *)
(* the latest.                                                             *)
(***************************************************************************)
EXTENDS Integers, FiniteSetsExt

CONSTANT
    Account      \* its executions: id, order, secType, symbol, localSymbol, side, shares, time, defects

VARIABLES
    execEvents,  \* IBKR_BRIDGE_EXEC_EVENTS: whether reports without a commission are sent
    buffer,      \* fills that wait for their order's quiet window
    marked,      \* execution ids in the dedup table
    sent,        \* trades the consumer has
    reported,    \* executions whose commission was reported
    errors       \* executions of which an error was logged

vars == <<execEvents, buffer, marked, sent, reported, errors>>

-----------------------------------------------------------------------------
(* _map_fill *)

\* A combo's summary is no leg of it, and what cannot be read makes no fill.
Rejected(e) ==
    \/ "execId" \in e.defects
    \/ e.secType = "BAG"
    \/ e.defects \cap {"side", "time"} # {}
    \/ e.secType = "OPT" /\ e.defects \cap {"localSymbol", "multiplier", "optionContract"} # {}

SymbolOf(e) == IF e.secType = "OPT" THEN e.localSymbol ELSE e.symbol

\* Whatever sign the broker gives the volume, it has the side's.
Signed(side, volume) == LET magnitude == IF volume < 0 THEN -volume ELSE volume
                        IN  IF side = "buy" THEN magnitude ELSE -magnitude

FillOf(e, type) ==
    [execId |-> e.id, orderId |-> e.order, symbol |-> SymbolOf(e), side |-> e.side,
     volume |-> Signed(e.side, e.shares), time |-> e.time, source |-> type]

-----------------------------------------------------------------------------
(* aggregate_fills *)

\* Mutant: the fills of an order are one trade.
OrderOnly(fill) == <<fill.orderId>>

GroupKey(fill) == <<fill.orderId, fill.symbol>>

\* The sum is a trade's volume, which has the sign of the trade's side: the last fill's.
TradeOf(group) ==
    LET last == CHOOSE fill \in group : \A other \in group : other.time <= fill.time
    IN  [orderId |-> last.orderId, symbol |-> last.symbol, side |-> last.side, source |-> last.source,
         volume |-> Signed(last.side, SumFunction([fill \in group |-> fill.volume])),
         execIds |-> {fill.execId : fill \in group}]

\* Fills without an order are in no trade; the bridge numbers them all, 0 if need be.
Trades(fills) ==
    {TradeOf({fill \in fills : GroupKey(fill) = k}) : k \in {GroupKey(fill) : fill \in fills}}

-----------------------------------------------------------------------------
Init ==
    /\ execEvents \in BOOLEAN
    /\ buffer = {} /\ marked = {} /\ sent = {} /\ errors = {} /\ reported = {}

SaysWhyNot(e) == errors' = errors \cup {e} /\ UNCHANGED <<buffer, sent>>

\* A preliminary trade: neither buffered nor marked.
ExecDetails(e) ==
    /\ IF Rejected(e) THEN SaysWhyNot(e)
       ELSE /\ sent' = IF execEvents THEN sent \cup Trades({FillOf(e, "execDetailsEvent")}) ELSE sent
            /\ UNCHANGED <<buffer, errors>>
    /\ UNCHANGED <<execEvents, marked, reported>>

\* The bucket of an order has an execution once.
CommissionReport(e) ==
    /\ reported' = reported \cup {e}
    /\ IF Rejected(e) THEN SaysWhyNot(e)
       ELSE buffer' = buffer \cup {FillOf(e, "commissionReportEvent")} /\ UNCHANGED <<sent, errors>>
    /\ UNCHANGED <<execEvents, marked>>

\* The quiet window of an order ends: what is not in the dedup table is sent and marked.
Flush(order) ==
    LET bucket == {fill \in buffer : fill.orderId = order}
        new    == Trades({fill \in bucket : fill.execId \notin marked})
    IN  /\ bucket # {}
        /\ buffer' = buffer \ bucket
        /\ sent' = sent \cup new
        /\ marked' = marked \cup UNION {trade.execIds : trade \in new}
        /\ UNCHANGED <<execEvents, reported, errors>>

Next ==
    \/ \E e \in Account : ExecDetails(e) \/ CommissionReport(e)
    \/ \E order \in {e.order : e \in Account} : Flush(order)

Spec == Init /\ [][Next]_vars

-----------------------------------------------------------------------------
(* Only executions the adapter took are in the buffer and the dedup table. *)
TypeOK ==
    /\ execEvents \in BOOLEAN /\ reported \subseteq Account
    /\ errors \subseteq {e \in Account : Rejected(e)}
    /\ buffer \subseteq {FillOf(e, "commissionReportEvent") : e \in Account \ errors}
    /\ marked \subseteq {e.id : e \in reported \ errors}

Instrument(e) == IF e.secType = "OPT" THEN e.localSymbol ELSE e.symbol

\* Executions that are in a fill which was never flushed.
Waiting == {e \in reported : e.id \notin marked /\ \E fill \in buffer : fill.execId = e.id}

(* An order buys a symbol or sells it.  The code does not check it: what the broker gives no
   order is of order 0, all of it. *)
OneSided ==
    \A e, g \in {x \in Account : ~Rejected(x)} :
        e.order = g.order /\ SymbolOf(e) = SymbolOf(g) => e.side = g.side

(* shared/models.py, Fill: "consumers can fold a stream of trades into a position with a plain
   SUM".  Grouped by symbol, the trades with a commission add up to what the account bought and
   sold of it in the executions reported, leg by leg, except those that wait in the buffer or
   cannot be read: neither the summary of a combo, nor a second report of an
   execution, nor its preliminary trade disturbs the sum, and no report is lost on the way.
   It takes an account that is OneSided. *)
ConsumerHoldsThePosition ==
    \A symbol \in {Instrument(e) : e \in Account} :
        LET trades == {trade \in sent : /\ trade.source = "commissionReportEvent"
                                        /\ trade.symbol = symbol}
            executions == {e \in reported \ Waiting : /\ Instrument(e) = symbol /\ e.secType # "BAG"
                                                     /\ e.defects = {}}
        IN  SumFunction([trade \in trades |-> trade.volume]) =
            SumFunction([e \in executions |-> IF e.side = "buy" THEN e.shares ELSE -e.shares])
=============================================================================
