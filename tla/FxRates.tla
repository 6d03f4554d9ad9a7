------------------------------ MODULE FxRates ------------------------------
(***************************************************************************)
(* The rates attached to trades (relay_core/fx).  Threads that deliver     *)
(* trades share a client with three caches: the latest rates and the       *)
(* historical ones in memory, and the historical ones in the database,     *)
(* which a restart keeps, possibly under another base currency.            *)
(* A rate is the key the provider gave it for; a latest rate, the moment.  *)
(***************************************************************************)
EXTENDS Naturals

CONSTANTS
    Threads,      \* that enrich trades
    Currencies,   \* of trades and of the configuration
    Quoted,       \* those the provider has rates of
    TTL,          \* _LATEST_TTL_SECONDS
    DayLength,    \* readings of the clock in a day
    MaxClock,     \* bound: readings of the clock
    MaxRestarts   \* bound: restarts of the process

VARIABLES
    clock,
    config,    \* base currency, whether there is an API key; loaded at the first use
    mem,       \* _historical_mem: [key, rate]
    store,     \* the table fx_rates: [key, rate]
    latest,    \* _latest: when it was fetched, and (ghost) when the provider quoted it
    work,      \* what each thread is doing
    restarts

vars == <<clock, config, mem, store, latest, work, restarts>>

-----------------------------------------------------------------------------
Today == clock \div DayLength
Dates == 0..(MaxClock \div DayLength)
Key   == [date : Dates, base : Currencies, ccy : Currencies]
Row   == [key : Key, rate : Key]

Configs == [base : Currencies, hasKey : BOOLEAN, loaded : {FALSE}]
NoEntry == [fetchedAt |-> 0, quotedAt |-> 0, exists |-> FALSE]
NoTrade == [date |-> 0, ccy |-> "none"]
Idle    == [at |-> "idle", trade |-> NoTrade, now |-> 0, quotedAt |-> 0, rate |-> {}]

Init ==
    /\ clock = 0 /\ config \in Configs
    /\ mem = {} /\ store = {} /\ latest = NoEntry
    /\ work = [t \in Threads |-> Idle] /\ restarts = 0

At(t, place) == work[t].at = place
Moves(t, place) == work' = [work EXCEPT ![t].at = place]
Ends(t, place) == work' = [work EXCEPT ![t] = [Idle EXCEPT !.at = place]]
Gives(t, rate) == work' = [work EXCEPT ![t].at = "historical", ![t].rate = rate]

-----------------------------------------------------------------------------
(* enrich_if_enabled *)

\* Which way a trade goes: without a currency or in the base currency it needs no
\* provider, and without an API key only a trade of today gets a rate.
Way(trade) ==
    IF trade.ccy \in {"none", config.base} THEN "shipped"
    ELSE IF config.hasKey THEN "memory"
    ELSE IF trade.date < Today THEN "shipped" ELSE "cached_latest"

\* The first use prunes rows of the store that are old, whichever they are.
Enrich(t, trade) ==
    /\ work[t].at \in {"idle", "historical", "latest", "shipped", "aborted"}
    /\ trade.date <= Today
    /\ config' = [config EXCEPT !.loaded = TRUE]
    /\ IF config.loaded THEN UNCHANGED store ELSE store' \in SUBSET store
    /\ IF Way(trade) = "shipped" THEN Ends(t, "shipped")
       ELSE work' = [work EXCEPT ![t] = [Idle EXCEPT !.at = Way(trade), !.trade = trade,
                                            !.now = IF Way(trade) = "memory" THEN 0 ELSE clock]]
    /\ UNCHANGED <<clock, mem, latest, restarts>>

\* FxLookupError: the trade ships without a rate, and the error is reported.
LookupFails(t) ==
    /\ work[t].at \in {"fetch_historical", "fetch_latest"}
    /\ Ends(t, "shipped")
    /\ UNCHANGED <<clock, config, mem, store, latest, restarts>>

\* Any other error, sqlite's or a body that is not JSON, leaves enrichment.
Aborts(t) ==
    /\ work[t].at \in {"stored", "persist", "fetch_historical", "fetch_latest"}
    /\ Ends(t, "aborted")
    /\ UNCHANGED <<clock, config, mem, store, latest, restarts>>

-----------------------------------------------------------------------------
(* get_historical_rate *)

\* Mutant: rates are kept by date and currency.
KeyWithoutBase(k, date, ccy) == k.date = date /\ k.ccy = ccy

IsKey(k, date, ccy) == k.date = date /\ k.base = config.base /\ k.ccy = ccy

Found(rows, t) == {row \in rows : IsKey(row.key, work[t].trade.date, work[t].trade.ccy)}

LookUpMemory(t) ==
    /\ At(t, "memory")
    /\ \/ \E row \in Found(mem, t) : Gives(t, row.rate)
       \/ Found(mem, t) = {} /\ Moves(t, "stored")
    /\ UNCHANGED <<clock, config, mem, store, latest, restarts>>

LookUpStore(t) ==
    /\ At(t, "stored")
    /\ \/ \E row \in Found(store, t) : Gives(t, row.rate) /\ mem' = mem \cup {row}
       \/ Found(store, t) = {} /\ Moves(t, "fetch_historical") /\ UNCHANGED mem
    /\ UNCHANGED <<clock, config, store, latest, restarts>>

\* The provider's answer has every currency it quotes: INSERT OR REPLACE them all.
FetchedRows(t) ==
    {[key |-> k, rate |-> k] :
        k \in {[date |-> work[t].trade.date, base |-> config.base, ccy |-> c] : c \in Quoted}}

Replaced(rows, new) == {row \in rows : \A n \in new : n.key # row.key} \cup new

FetchHistorical(t) ==
    /\ At(t, "fetch_historical")
    /\ mem' = Replaced(mem, FetchedRows(t))
    /\ Moves(t, "persist")
    /\ UNCHANGED <<clock, config, store, latest, restarts>>

Persist(t) ==
    /\ At(t, "persist")
    /\ store' = Replaced(store, FetchedRows(t))
    /\ \/ \E row \in Found(FetchedRows(t), t) : Gives(t, row.rate)
       \/ Found(FetchedRows(t), t) = {} /\ Ends(t, "shipped")
    /\ UNCHANGED <<clock, config, mem, latest, restarts>>

-----------------------------------------------------------------------------
(* get_latest_rate: `now` is read once, before the cache is looked at. *)

HandOut(t, quotedAt) ==
    IF work[t].trade.ccy \in Quoted
    THEN work' = [work EXCEPT ![t].at = "latest", ![t].quotedAt = quotedAt]
    ELSE Ends(t, "shipped")

LookUpLatest(t) ==
    /\ At(t, "cached_latest")
    /\ IF ~latest.exists \/ work[t].now >= latest.fetchedAt + TTL
       THEN Moves(t, "fetch_latest")
       ELSE HandOut(t, latest.quotedAt)
    /\ UNCHANGED <<clock, config, mem, store, latest, restarts>>

FetchLatest(t) ==
    /\ At(t, "fetch_latest")
    /\ work' = [work EXCEPT ![t].at = "keep_latest", ![t].quotedAt = clock]
    /\ UNCHANGED <<clock, config, mem, store, latest, restarts>>

\* The entry is as old as the look at the cache that led to it.
FetchedAt(t) == work[t].now

KeepLatest(t) ==
    /\ At(t, "keep_latest")
    /\ latest' = [exists |-> TRUE, fetchedAt |-> FetchedAt(t), quotedAt |-> work[t].quotedAt]
    /\ HandOut(t, work[t].quotedAt)
    /\ UNCHANGED <<clock, config, mem, store, restarts>>

-----------------------------------------------------------------------------
Tick ==
    /\ clock < MaxClock
    /\ clock' = clock + 1
    /\ UNCHANGED <<config, mem, store, latest, work, restarts>>

Restart ==
    /\ restarts < MaxRestarts
    /\ restarts' = restarts + 1
    /\ config' \in Configs
    /\ mem' = {} /\ latest' = NoEntry /\ work' = [t \in Threads |-> Idle]
    /\ UNCHANGED <<clock, store>>

Next ==
    \/ \E t \in Threads :
        \/ \E date \in Dates, ccy \in Currencies \cup {"none"} : Enrich(t, [date |-> date, ccy |-> ccy])
        \/ LookupFails(t) \/ Aborts(t)
        \/ LookUpMemory(t) \/ LookUpStore(t) \/ FetchHistorical(t) \/ Persist(t)
        \/ LookUpLatest(t) \/ FetchLatest(t) \/ KeepLatest(t)
    \/ Tick \/ Restart

Spec == Init /\ [][Next]_vars

-----------------------------------------------------------------------------
(* A table holds one row of a key, and threads' clocks are not ahead. *)
TypeOK ==
    /\ clock \in 0..MaxClock /\ restarts \in 0..MaxRestarts
    /\ mem \subseteq Row /\ store \subseteq Row
    /\ \A rows \in {mem, store} : \A r, s \in rows : r.key = s.key => r = s
    /\ latest.fetchedAt <= clock /\ latest.quotedAt <= clock
    /\ \A t \in Threads : work[t].now <= clock /\ work[t].quotedAt <= clock

(* A historical rate is the provider's for the trade's date, between the trade's currency and
   the base configured now, whatever thread, process or configuration put it into a cache.
   A latest rate ("In-memory cache with 1h TTL") was quoted by the provider less than the TTL
   before the trade was enriched, however long its fetch took and whichever thread kept it. *)
RatesAreTrue ==
    \A t \in Threads :
        LET trade == work[t].trade
        IN  /\ At(t, "historical") =>
                   work[t].rate = [date |-> trade.date, base |-> config.base, ccy |-> trade.ccy]
            /\ At(t, "latest") => work[t].now < work[t].quotedAt + TTL
=============================================================================
