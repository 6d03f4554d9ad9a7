---------------------------- MODULE MarketData ----------------------------
(***************************************************************************)
(* The market-data service: requests for dividends run in threads of their *)
(* own and share one YahooClient, with its cache and its session           *)
(* (market_data/yahoo_client).  What Yahoo says of a ticker is a version   *)
(* number that only grows.                                                 *)
(***************************************************************************)
EXTENDS Naturals

CONSTANTS
    Threads,      \* of the default executor
    Tickers,
    MaxAttempts,  \* _MAX_ATTEMPTS of fetch_with_retry
    TTL,          \* _CACHE_TTL_SECONDS
    FetchTime,    \* bound: a fetch takes at most so long
    MaxVersion,   \* bound: versions of what Yahoo says
    MaxClock      \* bound: readings of the clock

VARIABLES
    clock,
    version,    \* Yahoo: the version of each ticker
    cache,      \* of each ticker: version and cachedAt
    session,    \* whether the client has a session
    initLock,   \* who holds _session_init_lock
    work,       \* what each thread is doing
    served      \* ghost: the last version served of each ticker

vars == <<clock, version, cache, session, initLock, work, served>>

-----------------------------------------------------------------------------
NoEntry == [exists |-> FALSE, version |-> 0, cachedAt |-> 0]
NoData  == [version |-> 0, readAt |-> 0]
Idle    == [at |-> "idle", ticker |-> "none", attempt |-> 0, data |-> NoData]

Init ==
    /\ clock = 0 /\ version = [k \in Tickers |-> 1]
    /\ cache = [k \in Tickers |-> NoEntry] /\ session = FALSE /\ initLock = "free"
    /\ work = [t \in Threads |-> Idle]
    /\ served = [k \in Tickers |-> 0]

At(t, place) == work[t].at = place
Moves(t, place) == work' = [work EXCEPT ![t].at = place]
Ends(t) == work' = [work EXCEPT ![t] = Idle]
Serve(k, data) == served' = [served EXCEPT ![k] = data.version]

\* get_cached has an entry to return.
Cached(k) == cache[k].exists /\ clock <= cache[k].cachedAt + TTL

-----------------------------------------------------------------------------
(* A request works through its tickers, one get_dividend_info after the other. *)

Ask(t, k) ==
    /\ At(t, "idle")
    /\ work' = [work EXCEPT ![t] = [Idle EXCEPT !.at = "asked", !.ticker = k]]
    /\ UNCHANGED <<clock, version, cache, session, initLock, served>>

LookUp(t) ==
    LET k == work[t].ticker
    IN  /\ At(t, "asked")
        /\ IF Cached(k)
           THEN Serve(k, cache[k]) /\ Ends(t) /\ UNCHANGED cache
           ELSE /\ cache' = [cache EXCEPT ![k] = NoEntry]
                /\ work' = [work EXCEPT ![t].at = IF session THEN "fetch" ELSE "bootstrap", ![t].attempt = 1]
                /\ UNCHANGED served
        /\ UNCHANGED <<clock, version, session, initLock>>

\* With the lock in hand, a thread looks again whether there is a session by now.
SomeoneElseDidIt == session

EnterBootstrap(t) ==
    /\ At(t, "bootstrap") /\ initLock = "free"
    /\ IF SomeoneElseDidIt THEN Moves(t, "fetch") /\ UNCHANGED initLock
                           ELSE Moves(t, "bootstrapping") /\ initLock' = t
    /\ UNCHANGED <<clock, version, cache, session, served>>

Bootstrapped(t) ==
    /\ At(t, "bootstrapping")
    /\ session' = TRUE
    /\ initLock' = "free"
    /\ Moves(t, "fetch")
    /\ UNCHANGED <<clock, version, cache, served>>

\* get_yahoo_session raises: the ticker ends with an error.
BootstrapFails(t) ==
    /\ At(t, "bootstrapping")
    /\ initLock' = "free"
    /\ Ends(t)
    /\ UNCHANGED <<clock, version, cache, session, served>>

-----------------------------------------------------------------------------
(* fetch_with_retry *)

Fetched(t) ==
    /\ At(t, "fetch")
    /\ work' = [work EXCEPT ![t].at = "fetched",
                            ![t].data = [version |-> version[work[t].ticker], readAt |-> clock]]
    /\ UNCHANGED <<clock, version, cache, session, initLock, served>>

NextAttempt(n) == n + 1

Unauthorized(t) ==
    /\ At(t, "fetch")
    /\ IF work[t].attempt < MaxAttempts
       THEN work' = [work EXCEPT ![t].at = "refresh", ![t].attempt = NextAttempt(@)]
       ELSE Ends(t)
    /\ UNCHANGED <<clock, version, cache, session, initLock, served>>

Refreshed(t) ==
    /\ At(t, "refresh")
    /\ Moves(t, "fetch")
    /\ UNCHANGED <<clock, version, cache, session, initLock, served>>

\* Any other error, or a refresh that fails: the ticker ends with an error.
FetchFails(t) ==
    /\ work[t].at \in {"fetch", "refresh"}
    /\ Ends(t)
    /\ UNCHANGED <<clock, version, cache, session, initLock, served>>

\* Mutant: the thread keeps and serves what it has fetched.
NotFasterThere(k) == FALSE

\* Another thread was faster.
IsThere(k) == Cached(k)

Keep(t) ==
    LET k == work[t].ticker
        entry == [exists |-> TRUE, version |-> work[t].data.version, cachedAt |-> clock]
    IN  /\ At(t, "fetched")
        /\ IF IsThere(k)
           THEN Serve(k, cache[k]) /\ UNCHANGED <<cache, session>>
           ELSE Serve(k, entry) /\ cache' = [cache EXCEPT ![k] = entry] /\ session' = TRUE
        /\ Ends(t)
        /\ UNCHANGED <<clock, version, initLock>>

-----------------------------------------------------------------------------
YahooChanges(k) ==
    /\ version[k] < MaxVersion
    /\ version' = [version EXCEPT ![k] = @ + 1]
    /\ UNCHANGED <<clock, cache, session, initLock, work, served>>

Tick ==
    /\ clock < MaxClock
    /\ \A t \in Threads : At(t, "fetched") => clock < work[t].data.readAt + FetchTime
    /\ clock' = clock + 1
    /\ UNCHANGED <<version, cache, session, initLock, work, served>>

GetDividendInfo(t) ==
    \/ LookUp(t) \/ EnterBootstrap(t) \/ Bootstrapped(t) \/ BootstrapFails(t)
    \/ Fetched(t) \/ Unauthorized(t) \/ Refreshed(t) \/ FetchFails(t) \/ Keep(t)

Next ==
    \/ \E t \in Threads : GetDividendInfo(t) \/ \E k \in Tickers : Ask(t, k)
    \/ \E k \in Tickers : YahooChanges(k)
    \/ Tick

Spec == Init /\ [][Next]_vars

-----------------------------------------------------------------------------
TypeOK ==
    /\ clock \in 0..MaxClock /\ version \in [Tickers -> 1..MaxVersion]
    /\ session \in BOOLEAN /\ initLock \in Threads \cup {"free"}
    /\ \A k \in Tickers : cache[k].version <= version[k] /\ served[k] <= version[k]
    /\ \A t \in Threads : /\ work[t].attempt \in 0..MaxAttempts
                          /\ At(t, "bootstrapping") <=> initLock = t

(* However threads overlap that fetch the same ticker, as long as no fetch takes longer
   than an entry lives: what the service says of it never goes back to an older version. *)
NeverGoesBack == [][\A k \in Tickers : served'[k] >= served[k]]_vars
=============================================================================
