--------------------------- MODULE ListenerSession ---------------------------
(***************************************************************************)
(* The life of a listener (relay_core/listener_engine.py, _listen and      *)
(* _listen_loop): it connects, receives events, loses the connection,      *)
(* waits and connects again, watched by a health watchdog.  The adapter is *)
(* IBKR's (relays/ibkr/__init__.py, _build_connect), whose connection      *)
(* resumes from a cursor: the sequence number of the last event received   *)
(* and the id of the bridge process that issued it, kept in memory and, as *)
(* far as the meta database takes it, on disk.                             *)
(*                                                                         *)
(* The bridge is external.  It numbers its events from 1 in every process  *)
(* and replays to a new connection what follows the cursor, or everything  *)
(* when the cursor names another process.  An event is a pair of the       *)
(* process and the number.  The debouncing buffer (DebounceBuffer) is      *)
(* reduced to the custody it implements (FillCustody): what it holds       *)
(* leaves it delivered or reported.                                        *)
(***************************************************************************)
EXTENDS Naturals, FiniteSets

CONSTANTS
    Processes,   \* number of bridge processes, one after the other
    Legacy,      \* those that predate bridgeId and stamp no id on their events
    MaxSeq,      \* bound: events a bridge process emits
    Emits,       \* bound: events each of them emits, MaxSeq at most
    MaxFaults,   \* bound: writes and reads failed, handlers that raise, refusals
    MaxStops,    \* bound: times the relay is stopped
    MaxDelay,    \* MAX_RETRY_DELAY, in units of INITIAL_RETRY_DELAY
    AlertAfter   \* outage_alert_after_s, in health checks; 0 disables the alert

ASSUME SessionAssumption ==
    /\ Processes \in Nat \ {0} /\ Legacy \subseteq 1..Processes
    /\ MaxSeq \in Nat \ {0} /\ Emits \in [1..Processes -> 0..MaxSeq]
    /\ MaxFaults \in Nat /\ MaxStops \in Nat
    /\ MaxDelay \in Nat \ {0} /\ AlertAfter \in Nat

VARIABLES
    bridge,    \* the bridge process that runs
    emitted,   \* how many events each process has emitted
    gateway,   \* the bridge is connected to IB Gateway
    listener,  \* where _listen_loop stands
    peer,      \* the process the open or last connection leads to
    open,      \* that connection still stands at the other end
    pos,       \* number of the last event received over it, or skipped by its replay
    message,   \* the event in hand
    cursor,    \* state["cursor"]: last number, and id or 0 for None
    saved,     \* the cursor in the meta database
    held,      \* events whose fills the debouncing buffer holds
    delay,     \* retry_delay
    up,        \* state.ws_down_reason is None
    check,     \* the health check: none in progress, the bridge asked, its answer good or bad
    streak,    \* failed health checks in a row, as far as AlertAfter
    faults, stops,
    received,  \* ghost: events a relay process has received
    blind      \* ghost: events a connection that named no process did not ask for

env     == <<bridge, emitted, gateway>>
socket  == <<peer, open, pos>>
watch   == <<check, streak>>
monitor == <<up, watch>>
bounds  == <<faults, stops>>
vars == <<env, listener, socket, message, cursor, saved, held, delay, monitor, bounds,
          received, blind>>

-----------------------------------------------------------------------------
Events == (1..Processes) \X (1..MaxSeq)
NoEvent == <<0, 0>>
NoCursor == [seq |-> 0, id |-> 0]

Fewer(a, b) == IF a < b THEN a ELSE b

\* The bridgeId an event of process b carries; 0 for none.
IdOf(b) == IF b \in Legacy THEN 0 ELSE b

Running == listener \notin {"off", "stopped"}

Init ==
    /\ bridge = 1 /\ emitted = [b \in 1..Processes |-> 0]
    /\ listener = "connecting"
    /\ peer = 0 /\ open = FALSE /\ pos = 0
    /\ message = NoEvent
    /\ cursor = NoCursor /\ saved = NoCursor
    /\ held = {}
    /\ delay = 1
    /\ gateway = TRUE
    /\ up = FALSE /\ check = "none" /\ streak = 0
    /\ faults = 0 /\ stops = 0
    /\ received = {} /\ blind = {}

Fault == faults < MaxFaults /\ faults' = faults + 1 /\ UNCHANGED stops

-----------------------------------------------------------------------------
(* The cursor. *)

(* _advance_bridge_cursor: an event of another process resets the cursor to its number,
   though it is lower; an event without an id only moves it forward. *)
Advanced(c, b, seq) ==
    IF IdOf(b) # 0 /\ IdOf(b) # c.id THEN [seq |-> seq, id |-> IdOf(b)]
    ELSE IF seq > c.seq THEN [c EXCEPT !.seq = seq] ELSE c

\* Mutant: the id is left out of the request.
AskedByNumber(c) == [seq |-> c.seq, id |-> 0]

\* _resume_query: a cursor without a number asks for nothing.
Asked(c) == IF c.seq = 0 THEN NoCursor ELSE c

(* Where the bridge begins: unasked, with what comes next; asked for what follows an
   event of another process, at its first event; else after the number. *)
ReplayStart(c) ==
    LET query == Asked(c)
    IN  IF query.seq = 0 THEN emitted[bridge]
        ELSE IF query.id # 0 /\ bridge \notin Legacy /\ query.id # bridge THEN 0
        ELSE Fewer(query.seq, emitted[bridge])

\* Events the connection will never carry although no cursor of this process excludes them.
Jumped(c) ==
    IF c.id # 0 /\ bridge \notin Legacy THEN {}
    ELSE {e \in Events : e[1] = bridge /\ e[2] <= ReplayStart(c)}

-----------------------------------------------------------------------------
(* _listen_loop. *)

\* Mutant: a connection that is made ends the outage.
ConnectEndsOutage ==
    /\ listener = "connecting"
    /\ listener' = "up"
    /\ peer' = bridge /\ open' = TRUE /\ pos' = ReplayStart(cursor)
    /\ blind' = blind \cup Jumped(cursor)
    /\ delay' = 1
    /\ up' = TRUE /\ streak' = 0
    /\ UNCHANGED <<env, message, cursor, saved, held, check, bounds, received>>

Connect ==
    /\ listener = "connecting"
    /\ listener' = "up"
    /\ peer' = bridge /\ open' = TRUE /\ pos' = ReplayStart(cursor)
    /\ blind' = blind \cup Jumped(cursor)
    /\ delay' = 1
    /\ up' = TRUE
    /\ UNCHANGED <<env, message, cursor, saved, held, watch, bounds, received>>

\* Mutant: a way out between two messages does not record that the connection is down.
LosesConnectionUnseen ==
    /\ listener' = "backoff"
    /\ open' = FALSE
    /\ message' = NoEvent
    /\ up' = (up /\ message = NoEvent)
    /\ UNCHANGED <<peer, pos>>

(* The way out of a connection: the reason is recorded for the watchdog, the buffer is
   flushed in the background and the loop goes to sleep. *)
LosesConnection ==
    /\ listener' = "backoff"
    /\ open' = FALSE
    /\ message' = NoEvent
    /\ up' = FALSE
    /\ UNCHANGED <<peer, pos>>

ConnectFails ==
    /\ listener = "connecting"
    /\ LosesConnection
    /\ UNCHANGED <<env, cursor, saved, held, delay, watch, bounds, received, blind>>

\* FatalListenerError: the loop returns and the watchdog is cancelled.  The buffer's timers
\* outlive them.
ConnectFatal ==
    /\ listener = "connecting"
    /\ Fault
    /\ listener' = "stopped"
    /\ check' = "none"
    /\ UNCHANGED <<env, socket, message, cursor, saved, held, delay, up, streak, received,
                   blind>>

\* Mutant: the wait grows without end.
BackoffGrows ==
    /\ listener = "backoff"
    /\ listener' = "connecting"
    /\ delay' = 2 * delay
    /\ UNCHANGED <<env, socket, message, cursor, saved, held, monitor, bounds, received,
                   blind>>

BackoffEnds ==
    /\ listener = "backoff"
    /\ listener' = "connecting"
    /\ delay' = Fewer(2 * delay, MaxDelay)
    /\ UNCHANGED <<env, socket, message, cursor, saved, held, monitor, bounds, received,
                   blind>>

(* _tracking_receive: the cursor moves on before the message is returned to the loop,
   and is written to the meta database when it has moved. *)
Receive ==
    /\ listener = "up"
    /\ pos < emitted[peer]
    /\ LET new == Advanced(cursor, peer, pos + 1)
       IN  /\ cursor' = new
           /\ listener' = IF new # cursor THEN "saving" ELSE "handling"
    /\ pos' = pos + 1
    /\ message' = <<peer, pos + 1>>
    /\ received' = received \cup {<<peer, pos + 1>>}
    /\ UNCHANGED <<env, peer, open, saved, held, delay, monitor, bounds, blind>>

\* Mutant: the id is written, the number is not.
SavedId == [saved EXCEPT !.id = cursor.id]

\* set_bridge_cursor: both keys in one transaction.
SavedPair == cursor

SaveSucceeds ==
    /\ listener = "saving"
    /\ saved' = SavedPair
    /\ listener' = "handling"
    /\ UNCHANGED <<env, socket, message, cursor, held, delay, monitor, bounds, received,
                   blind>>

\* "tracking in-memory only"
SaveFails ==
    /\ listener = "saving"
    /\ Fault
    /\ listener' = "handling"
    /\ UNCHANGED <<env, socket, message, cursor, saved, held, delay, monitor, received,
                   blind>>

\* The fills of the message go into the buffer.
Handle ==
    /\ listener = "handling"
    /\ listener' = "up"
    /\ held' = held \cup {message}
    /\ message' = NoEvent
    /\ UNCHANGED <<env, socket, cursor, saved, delay, monitor, bounds,
                   received, blind>>

\* A status event, or one the adapter has no fill for.
Ignore ==
    /\ listener = "handling"
    /\ listener' = "up"
    /\ message' = NoEvent
    /\ UNCHANGED <<env, socket, cursor, saved, held, delay, monitor, bounds,
                   received, blind>>

\* on_message raises: the connection is given up, and the message with it.
HandleRaises ==
    /\ listener = "handling"
    /\ Fault
    /\ LosesConnection
    /\ UNCHANGED <<env, cursor, saved, held, delay, watch, received, blind>>

\* The iteration over the socket ends, or an error message arrives.
ConnectionEnds ==
    /\ listener = "up" /\ ~open
    /\ LosesConnection
    /\ UNCHANGED <<env, cursor, saved, held, delay, watch, bounds, received, blind>>

-----------------------------------------------------------------------------
(* The buffer, as its custody: DebounceBuffer says how it gets there. *)

\* Its fills are delivered, or reported as dropped.
Settle(e) ==
    /\ e \in held /\ listener # "off"
    /\ held' = held \ {e}
    /\ UNCHANGED <<env, listener, socket, message, cursor, saved, delay, monitor, bounds,
                   received, blind>>

-----------------------------------------------------------------------------
(* _watch_health, once every HEALTH_CHECK_INTERVAL_S.  While the connection is down the check
   has failed; while it is up the bridge's /health decides, which is awaited: the listener
   goes on meanwhile, and what the check records is the answer, whatever the connection has
   come to. *)

Failed == streak' = Fewer(streak + 1, AlertAfter)

CheckBegins ==
    /\ Running /\ check = "none"
    /\ IF up THEN check' = "asked" /\ UNCHANGED streak
             ELSE Failed /\ UNCHANGED check
    /\ UNCHANGED <<env, listener, socket, message, cursor, saved, held, delay, up, bounds,
                   received, blind>>

\* Bad as well: out of reach, too late, or not to be read.
BridgeAnswers ==
    /\ check = "asked"
    /\ \/ check' = "bad"
       \/ gateway /\ check' = "good"
    /\ UNCHANGED <<env, listener, socket, message, cursor, saved, held, delay, up, streak,
                   bounds, received, blind>>

CheckEnds ==
    /\ check \in {"good", "bad"}
    /\ IF check = "good" THEN streak' = 0 ELSE Failed
    /\ check' = "none"
    /\ UNCHANGED <<env, listener, socket, message, cursor, saved, held, delay, up, bounds,
                   received, blind>>

WatchStep == CheckBegins \/ BridgeAnswers \/ CheckEnds

-----------------------------------------------------------------------------
(* The process. *)

\* The process ends; of all its state only the meta database stays.
Gone ==
    /\ listener' = "off"
    /\ peer' = 0 /\ open' = FALSE /\ pos' = 0
    /\ message' = NoEvent
    /\ cursor' = NoCursor
    /\ held' = {}
    /\ delay' = 1
    /\ up' = FALSE /\ check' = "none" /\ streak' = 0
    /\ UNCHANGED <<env, saved, received, blind>>

(* SIGTERM has no handler: the process is gone at once.  A KeyboardInterrupt cancels the
   loop, which sends what the buffer holds (Settle) before it ends; an order that waits
   out a retry backoff, or whose send fails, is left to a timer that ends with it. *)
Stop ==
    /\ listener # "off" /\ stops < MaxStops
    /\ stops' = stops + 1
    /\ Gone
    /\ UNCHANGED faults

\* _build_connect reads the cursor back, if the meta database can be read.
Start ==
    /\ listener = "off"
    /\ listener' = "connecting"
    /\ \/ cursor' = saved /\ UNCHANGED bounds
       \/ cursor' = NoCursor /\ Fault
    /\ UNCHANGED <<env, socket, message, saved, held, delay, monitor, received, blind>>

-----------------------------------------------------------------------------
(* The bridge. *)

Emit ==
    /\ emitted[bridge] < Emits[bridge]
    /\ emitted' = [emitted EXCEPT ![bridge] = @ + 1]
    /\ UNCHANGED <<bridge, gateway, listener, socket, message, cursor, saved, held, delay,
                   monitor, bounds, received, blind>>

BridgeRestarts ==
    /\ bridge < Processes
    /\ bridge' = bridge + 1
    /\ open' = FALSE
    /\ UNCHANGED <<emitted, gateway, listener, peer, pos, message, cursor, saved, held,
                   delay, monitor, bounds, received, blind>>

ConnectionLost ==
    /\ open
    /\ open' = FALSE
    /\ UNCHANGED <<env, listener, peer, pos, message, cursor, saved, held, delay, monitor,
                   bounds, received, blind>>

\* The gateway logs out or in again: nightly, or when its weekly login waits for approval.
GatewayTurns ==
    /\ gateway' = ~gateway
    /\ UNCHANGED <<bridge, emitted, listener, socket, message, cursor, saved, held, delay,
                   monitor, bounds, received, blind>>

-----------------------------------------------------------------------------
LoopStep ==
    \/ Connect \/ ConnectFails \/ ConnectFatal \/ BackoffEnds
    \/ Receive \/ SaveSucceeds \/ SaveFails \/ Handle \/ Ignore \/ HandleRaises
    \/ ConnectionEnds

Next ==
    \/ LoopStep
    \/ \E e \in Events : Settle(e)
    \/ WatchStep
    \/ Stop \/ Start
    \/ Emit \/ BridgeRestarts \/ ConnectionLost \/ GatewayTurns

(* asyncio resumes the loop and the watchdog, every wait in them has a timeout, and the
   container runtime restarts the process. *)
Fairness ==
    /\ WF_vars(LoopStep)
    /\ WF_vars(WatchStep)
    /\ WF_vars(Start)
    /\ \A e \in Events : WF_vars(Settle(e))

Spec == Init /\ [][Next]_vars /\ Fairness

-----------------------------------------------------------------------------
Cursors == [seq : 0..MaxSeq, id : 0..Processes]

TypeOK ==
    /\ bridge \in 1..Processes /\ emitted \in [1..Processes -> 0..MaxSeq]
    /\ listener \in {"connecting", "up", "saving", "handling", "backoff", "stopped",
                     "off"}
    /\ peer \in 0..Processes /\ open \in BOOLEAN /\ pos \in 0..MaxSeq
    /\ message \in Events \cup {NoEvent}
    /\ cursor \in Cursors /\ saved \in Cursors
    /\ held \subseteq received
    /\ delay \in 1..MaxDelay
    /\ gateway \in BOOLEAN /\ up \in BOOLEAN
    /\ check \in {"none", "asked", "good", "bad"} /\ streak \in 0..AlertAfter
    /\ faults \in 0..MaxFaults /\ stops \in 0..MaxStops
    /\ received \subseteq Events /\ blind \subseteq Events

(* "The bridge replays exactly the events the relay missed": what a connection to a
   process that stamps ids has gone past was received by the relay, now or before a
   restart, whatever was lost in between.  Only a relay that knows no process to resume
   from, as on its first start, begins in the middle. *)
NothingSkipped ==
    \A e \in Events :
        e[1] = peer /\ peer \notin Legacy /\ e[2] <= pos => e \in received \cup blind

Connected == listener \in {"up", "saving", "handling"}

(* A relay that is behind the running bridge catches up, as soon as a connection lasts: no event
   the bridge can still replay stays out of the relay, however often connections broke before,
   unless its process ends or its successor stamps no ids. *)
Behind ==
    \E n \in 1..emitted[bridge] : <<bridge, n>> \notin received \cup blind

CatchesUp == <>[]Connected => (Behind ~> (~Behind \/ bridge \in Legacy))

(* A broken feed is noticed, that is, checks fail in a row for as long as an alert takes:
   for good when the connection stays down, whichever way it was lost and however often it is
   tried, and when the gateway stays away behind a connection that stands or comes and goes;
   and when one or the other is missing, nothing puts the alert off but a check that was begun
   on a connection that stood and found the gateway there.  A connection that is made
   for a moment does not. *)
LastingOutageIsNoticed ==
    /\ <>[](Running /\ ~Connected) => <>[](streak = AlertAfter)
    /\ <>[](Running /\ ~gateway) => <>[](streak = AlertAfter)
    /\ (Running /\ ~(Connected /\ gateway)) ~>
           (streak = AlertAfter \/ check = "good" \/ ~Running)

(* "Persisted across relay restarts, so the bridge replays exactly the events the relay
   missed": what a process that ends still held comes back with the replay. *)
UndeliveredIsReplayed ==
    [][listener' = "off" =>
          \A e \in held : e[1] = bridge => e[2] > ReplayStart(saved)]_vars
=============================================================================
