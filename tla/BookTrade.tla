------------------------------- MODULE BookTrade -------------------------------
(***************************************************************************)
(* Cross-path dedup of book trades (relay_core/dedup, consume_book_trade_  *)
(* keys and mark_book_trade_keys, as poll_once and _send_and_mark use      *)
(* them).  An assignment, exercise or expiry is reported on both paths     *)
(* under unrelated identifiers, so the two reports are matched by economic *)
(* key: the path that notifies first leaves a key row, and a report on the *)
(* other path that finds the row consumes it instead of notifying.         *)
(*                                                                         *)
(* Two events can have the same key: equal tranches on consecutive nights. *)
(* A row is consumable for BOOK_TRADE_WINDOW_SECONDS after it was written, *)
(* whenever that was: a report may come any time after its event.  Time is *)
(* abstract: a row may outlive the window at any moment.                   *)
(***************************************************************************)
EXTENDS Naturals, FiniteSets

CONSTANTS
    Events,      \* book trades at the broker
    Keys,        \* economic keys
    KeyOf,       \* the key of each event
    NightOf,     \* the night each event is booked
    Workers,     \* threads that process reports
    PathOf,      \* the path of each: one poll cycle at a time, any number of sends
    LastNight,   \* bound: nights
    MaxNotified, \* bound: notifications per path and key
    MaxCrashes   \* bound: restarts of the relay

Paths == {"poll", "ws"}

ASSUME BookTradeAssumption ==
    /\ KeyOf \in [Events -> Keys]
    /\ NightOf \in [Events -> Nat]
    /\ PathOf \in [Workers -> Paths]
    /\ LastNight \in Nat /\ MaxNotified \in Nat /\ MaxCrashes \in Nat
    /\ IsFiniteSet(Events) /\ IsFiniteSet(Workers)

VARIABLES
    night,     \* the current night
    keyRow,    \* per path and key: "none", a consumable row, or one past the window
    execRow,   \* reports marked processed, as <<path, event>>
    wpc,       \* where each worker stands
    work,      \* the reports it has yet to try to consume a key for
    kept,      \* the reports it is going to notify
    notified,  \* notifications a receiver got, per path and key
    consumed,  \* rows consumed, per path that wrote them and key
    told,      \* events some receiver has got
    crashes

vars == <<night, keyRow, execRow, wpc, work, kept, notified, consumed, told, crashes>>

Other(path) == IF path = "poll" THEN "ws" ELSE "poll"

OfKey(events, k) == {e \in events : KeyOf[e] = k}

Init ==
    /\ night = 0
    /\ keyRow = [p \in Paths |-> [k \in Keys |-> "none"]]
    /\ execRow = {}
    /\ wpc = [w \in Workers |-> "idle"]
    /\ work = [w \in Workers |-> {}]
    /\ kept = [w \in Workers |-> {}]
    /\ notified = [p \in Paths |-> [k \in Keys |-> 0]]
    /\ consumed = [p \in Paths |-> [k \in Keys |-> 0]]
    /\ told = {}
    /\ crashes = 0

-----------------------------------------------------------------------------
(* A batch of reports passes the exec-id dedup.  A path may be late by any time, and
   may report again what it could not notify. *)
Start(w, events) ==
    /\ wpc[w] = "idle"
    /\ events # {}
    /\ \A e \in events : NightOf[e] <= night /\ <<PathOf[w], e>> \notin execRow
    /\ wpc' = [wpc EXCEPT ![w] = "consume"]
    /\ work' = [work EXCEPT ![w] = events]
    /\ UNCHANGED <<night, keyRow, execRow, kept, notified, consumed, told, crashes>>

\* Mutant: any path's row will do.
OwnKeyConsumable(path, e) == keyRow[path][KeyOf[e]] = "live"

\* The row the other path wrote, if it is within the window.
KeyConsumable(path, e) == keyRow[Other(path)][KeyOf[e]] = "live"

\* Mutant: the row is found, but not deleted.
KeptRow(path, k) == keyRow

DeletedRow(path, k) == [keyRow EXCEPT ![path][k] = "none"]

(* consume_book_trade_keys, one item: DELETE of the other path's row and INSERT of the
   report's own exec id in one transaction. *)
ConsumeHit(w, e) ==
    LET path == PathOf[w]
        k == KeyOf[e]
    IN  /\ wpc[w] = "consume" /\ e \in work[w]
        /\ KeyConsumable(path, e)
        /\ keyRow' = DeletedRow(Other(path), k)
        /\ execRow' = execRow \cup {<<path, e>>}
        /\ consumed' = [consumed EXCEPT ![Other(path)][k] = @ + 1]
        /\ work' = [work EXCEPT ![w] = @ \ {e}]
        /\ UNCHANGED <<night, wpc, kept, notified, told, crashes>>

ConsumeMiss(w, e) ==
    /\ wpc[w] = "consume" /\ e \in work[w]
    /\ ~KeyConsumable(PathOf[w], e)
    /\ work' = [work EXCEPT ![w] = @ \ {e}]
    /\ kept' = [kept EXCEPT ![w] = @ \cup {e}]
    /\ UNCHANGED <<night, keyRow, execRow, wpc, notified, consumed, told, crashes>>

\* Everything was consumed: nothing to notify.
NothingNew(w) ==
    /\ wpc[w] = "consume" /\ work[w] = {} /\ kept[w] = {}
    /\ wpc' = [wpc EXCEPT ![w] = "idle"]
    /\ UNCHANGED <<night, keyRow, execRow, work, kept, notified, consumed, told, crashes>>

-----------------------------------------------------------------------------
Ready(w) == wpc[w] = "consume" /\ work[w] = {} /\ kept[w] # {}

CountOf(w, k) == Cardinality(OfKey(kept[w], k))

Receives(w) ==
    /\ \A k \in Keys : notified[PathOf[w]][k] + CountOf(w, k) <= MaxNotified
    /\ notified' = [notified EXCEPT ![PathOf[w]] = [k \in Keys |-> @[k] + CountOf(w, k)]]
    /\ told' = told \cup kept[w]

NotifySucceeds(w) ==
    /\ Ready(w)
    /\ Receives(w)
    /\ wpc' = [wpc EXCEPT ![w] = "mark"]
    /\ UNCHANGED <<night, keyRow, execRow, work, kept, consumed, crashes>>

\* notify raises, whether or not a receiver got the payload: nothing is marked.
NotifyFails(w) ==
    /\ Ready(w)
    /\ Receives(w) \/ UNCHANGED <<notified, told>>
    /\ wpc' = [wpc EXCEPT ![w] = "idle"]
    /\ kept' = [kept EXCEPT ![w] = {}]
    /\ UNCHANGED <<night, keyRow, execRow, work, consumed, crashes>>

\* Mutant: the pair is passed in the wrong order.
SwappedReports(w) == {<<e, PathOf[w]>> : e \in kept[w]}

ReportsOf(w) == {<<PathOf[w], e>> : e \in kept[w]}

\* The exec ids of the notified reports are marked.
MarkExecIds(w) ==
    /\ wpc[w] = "mark"
    /\ execRow' = execRow \cup ReportsOf(w)
    /\ wpc' = [wpc EXCEPT ![w] = "keys"]
    /\ UNCHANGED <<night, keyRow, work, kept, notified, consumed, told, crashes>>

(* mark_book_trade_keys: INSERT OR REPLACE, so equal keys collapse into one row and a
   stale row becomes fresh. *)
MarkKeys(w) ==
    LET path == PathOf[w]
    IN  /\ wpc[w] = "keys"
        /\ keyRow' = [keyRow EXCEPT ![path] =
               [k \in Keys |-> IF OfKey(kept[w], k) # {} THEN "live" ELSE @[k]]]
        /\ wpc' = [wpc EXCEPT ![w] = "idle"]
        /\ kept' = [kept EXCEPT ![w] = {}]
        /\ UNCHANGED <<night, execRow, work, notified, consumed, told, crashes>>

-----------------------------------------------------------------------------
\* A row outlives the window.
Outlive(path, k) ==
    /\ keyRow[path][k] = "live"
    /\ keyRow' = [keyRow EXCEPT ![path][k] = "stale"]
    /\ UNCHANGED <<night, execRow, wpc, work, kept, notified, consumed, told, crashes>>

(* The next night's events are booked.  A row written late in the day is still
   within the window. *)
NextNight ==
    /\ night < LastNight
    /\ night' = night + 1
    /\ UNCHANGED <<keyRow, execRow, wpc, work, kept, notified, consumed, told, crashes>>

\* The relay restarts: the table stays.
Crash ==
    /\ crashes < MaxCrashes
    /\ crashes' = crashes + 1
    /\ wpc' = [w \in Workers |-> "idle"]
    /\ work' = [w \in Workers |-> {}]
    /\ kept' = [w \in Workers |-> {}]
    /\ UNCHANGED <<night, keyRow, execRow, notified, consumed, told>>

-----------------------------------------------------------------------------
Step(w) ==
    \/ \E e \in Events : ConsumeHit(w, e) \/ ConsumeMiss(w, e)
    \/ NothingNew(w)
    \/ NotifySucceeds(w) \/ NotifyFails(w)
    \/ MarkExecIds(w) \/ MarkKeys(w)

Next ==
    \/ \E w \in Workers : (\E events \in SUBSET Events : Start(w, events)) \/ Step(w)
    \/ \E p \in Paths, k \in Keys : Outlive(p, k)
    \/ NextNight
    \/ Crash

Spec == Init /\ [][Next]_vars

-----------------------------------------------------------------------------
TypeOK ==
    /\ night \in Nat
    /\ keyRow \in [Paths -> [Keys -> {"none", "live", "stale"}]]
    /\ execRow \in SUBSET (Paths \X Events)
    /\ wpc \in [Workers -> {"idle", "consume", "mark", "keys"}]
    /\ work \in [Workers -> SUBSET Events]
    /\ kept \in [Workers -> SUBSET Events]
    /\ notified \in [Paths -> [Keys -> Nat]]
    /\ consumed \in [Paths -> [Keys -> Nat]]
    /\ told \in SUBSET Events
    /\ crashes \in Nat

(* A key row stands for a notification that has not been used up: no interleaving of
   workers, no crash and no refreshed row lets more reports be suppressed than the
   other path has notified. *)
SuppressionIsPaidFor ==
    \A p \in Paths, k \in Keys :
        consumed[p][k] + (IF keyRow[p][k] = "none" THEN 0 ELSE 1) <= notified[p][k]

(* "Never a dropped fill": however the reports of equal events are matched, the
   receivers have got at least as many notifications of a key as either path has
   events of that key on record.  It is a count: that each event on record was notified itself
   is RecordedIsTold. *)
NeverDropped ==
    \A p \in Paths, k \in Keys :
        Cardinality({e \in OfKey(Events, k) : <<p, e>> \in execRow})
            <= notified["poll"][k] + notified["ws"][k]

(* "The consumed fill's content is already delivered": an event on record has itself
   been sent, not only one that looks like it. *)
RecordedIsTold == \A p \in Paths, e \in Events : <<p, e>> \in execRow => e \in told
=============================================================================
