------------------------------ MODULE Retention ------------------------------
(***************************************************************************)
(* How long the relay remembers what it sent, against how long a broker    *)
(* repeats it.  The dedup table loses rows older than the retention when   *)
(* the process starts (relay_core/dedup, main.py), the broker's report     *)
(* lists the trades of so many days back (flex_fetch.py, kraken), and the  *)
(* watermark, which hides old trades from a poll, may be gone, unreadable  *)
(* or with its database, or moved to now by the operator                   *)
(* (cli/watermark.py).  A moment is a day and an hour of it: rows and      *)
(* fills age to the hour, a Flex report lists whole days.  Not here:       *)
(* `reset-db` and a replay, with which the operator asks for trades again, *)
(* and the fills that are sent without being marked.                       *)
(***************************************************************************)
EXTENDS Naturals

CONSTANTS
    Trades,         \* executions of the account
    Retention,      \* DEDUP_RETENTION_DAYS
    Lookback,       \* KRAKEN_LOOKBACK_DAYS, IBKR_FLEX_LOOKBACK_DAYS or the query's period
    MaxFillAge,     \* LISTENER_MAX_FILL_AGE_HOURS, in days (rounded up)
    HoursADay,
    MaxDay          \* bound: days

VARIABLES
    now,
    made,        \* when each trade was made, or NotYet
    processed,   \* dedup table: when each trade was marked, or NotYet
    watermark,   \* time of the newest trade a poll has sent, or of a reset; NotYet when there is none
    hand,        \* what each path is sending: from its feed, found new, sent, marked
    recorded     \* ghost: the trades that ever got a row

vars == <<now, made, processed, watermark, hand, recorded>>

-----------------------------------------------------------------------------
Paths == {"poller", "listener"}
Moments == [day : 0..MaxDay, hour : 0..(HoursADay - 1)]

NotYet == [day |-> 0, hour |-> 0]
Idle == [at |-> "idle", batch |-> {}]

Before(a, b) == a.day < b.day \/ (a.day = b.day /\ a.hour < b.hour)
Later(m, days) == [m EXCEPT !.day = @ + days]

HasRow(t) == processed[t] # NotYet

Init ==
    /\ now = [day |-> 1, hour |-> 0]
    /\ made = [t \in Trades |-> NotYet] /\ processed = [t \in Trades |-> NotYet]
    /\ watermark = NotYet
    /\ hand = [p \in Paths |-> Idle] /\ recorded = {}

Happens(t) ==
    /\ made[t] = NotYet
    /\ made' = [made EXCEPT ![t] = now]
    /\ UNCHANGED <<now, processed, watermark, hand, recorded>>

Takes(p, batch) ==
    /\ hand[p] = Idle
    /\ hand' = [hand EXCEPT ![p] = [at |-> "taken", batch |-> batch]]
    /\ UNCHANGED <<now, made, processed, watermark, recorded>>

\* Mutant: nobody looks how old a repeated trade is.
HearsOfAnyAge(t) == made[t] # NotYet /\ Takes("listener", {t})

\* The listener hears of a trade, or the feed repeats one that is not too old.
Hears(t) ==
    /\ made[t] # NotYet /\ ~Before(Later(made[t], MaxFillAge), now)
    /\ Takes("listener", {t})

Listed(t) == made[t] # NotYet /\ now.day <= made[t].day + Lookback

\* Kraken counts its days back from the second of the request and lists no more than this.
Fetches == Takes("poller", {t \in Trades : Listed(t)})

\* Of what it took, a path sends what neither the table nor the poller's watermark keeps back.
LooksUp(p) ==
    /\ hand[p].at = "taken"
    /\ LET new == {t \in hand[p].batch : ~HasRow(t) /\ (p = "poller" => ~Before(made[t], watermark))}
       IN  hand' = [hand EXCEPT ![p] = IF new = {} THEN Idle ELSE [at |-> "new", batch |-> new]]
    /\ UNCHANGED <<now, made, processed, watermark, recorded>>

Notifies(p) ==
    /\ hand[p].at = "new"
    /\ \E delivered \in BOOLEAN :
           hand' = [hand EXCEPT ![p] = IF delivered THEN [@ EXCEPT !.at = "sent"] ELSE Idle]
    /\ UNCHANGED <<now, made, processed, watermark, recorded>>

\* A row that is there keeps its time (INSERT OR IGNORE).
Marks(p) ==
    /\ hand[p].at = "sent"
    /\ processed' = [t \in Trades |-> IF t \in hand[p].batch /\ ~HasRow(t) THEN now ELSE processed[t]]
    /\ recorded' = recorded \cup hand[p].batch
    /\ hand' = [hand EXCEPT ![p] = IF p = "poller" THEN [@ EXCEPT !.at = "marked"] ELSE Idle]
    /\ UNCHANGED <<now, made, watermark>>

MovesWatermark ==
    /\ hand["poller"].at = "marked"
    /\ \E t \in hand["poller"].batch :
           /\ \A u \in hand["poller"].batch : ~Before(made[t], made[u])
           /\ watermark' = made[t]
    /\ hand' = [hand EXCEPT !["poller"] = Idle]
    /\ UNCHANGED <<now, made, processed, recorded>>

LosesWatermark ==
    /\ watermark # NotYet
    /\ watermark' = NotYet
    /\ UNCHANGED <<now, made, processed, hand, recorded>>

\* `watermark`: the operator declares everything up to now done.
ResetWatermark ==
    /\ watermark # now
    /\ watermark' = now
    /\ UNCHANGED <<now, made, processed, hand, recorded>>

\* Mutant: rows are dated, and go on the day they are due.
IsOldByDate(t) == processed[t].day + Retention <= now.day

IsOld(t) == Before(Later(processed[t], Retention), now)

\* amain prunes before it polls; nothing else does.  What was being sent is lost, marked or not.
Restart ==
    /\ processed' = [t \in Trades |-> IF IsOld(t) THEN NotYet ELSE processed[t]]
    /\ hand' = [p \in Paths |-> Idle]
    /\ UNCHANGED <<now, made, watermark, recorded>>

TimePasses ==
    /\ \/ now.hour < HoursADay - 1 /\ now' = [now EXCEPT !.hour = @ + 1]
       \/ now.hour = HoursADay - 1 /\ now.day < MaxDay /\ now' = [day |-> now.day + 1, hour |-> 0]
    /\ UNCHANGED <<made, processed, watermark, hand, recorded>>

Next ==
    \/ \E t \in Trades : Happens(t) \/ Hears(t)
    \/ Fetches \/ \E p \in Paths : LooksUp(p) \/ Notifies(p) \/ Marks(p)
    \/ MovesWatermark \/ LosesWatermark \/ ResetWatermark \/ Restart \/ TimePasses

Spec == Init /\ [][Next]_vars

-----------------------------------------------------------------------------
TypeOK ==
    /\ now \in Moments /\ now.day > 0
    /\ made \in [Trades -> Moments] /\ processed \in [Trades -> Moments] /\ watermark \in Moments
    /\ hand \in [Paths -> [at : {"idle", "taken", "new", "sent", "marked"}, batch : SUBSET Trades]]
    /\ recorded \subseteq Trades

\* What the settings have to keep to; nothing in the code checks it.  The days of a report are
\* whole ones, so that a look-back as long as the retention is a day too long.
WithinRetention == Lookback < Retention /\ MaxFillAge <= Retention

\* Once in the table, and no longer.
Pruned(t) == t \in recorded /\ ~HasRow(t)

(* dedup/__init__.py: "keep this well beyond any feed's replay horizon".  As long as neither
   the report nor the listener reaches as far back as the retention, no path ever takes a trade
   that was sent and marked for new again: its row outlives every day it could come back on,
   by whatever path, with the watermark lost and the process restarted at any moment.  (What
   was sent when the process died before it could mark it is sent again.) *)
PrunedIsOutOfReach ==
    \A p \in Paths : hand[p].at # "taken" => \A t \in hand[p].batch : ~Pruned(t)
=============================================================================
