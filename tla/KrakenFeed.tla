----------------------------- MODULE KrakenFeed -----------------------------
(***************************************************************************)
(* The Kraken relay's two sources of fills (relays/kraken): the WebSocket  *)
(* feed of executions, and the poll of the trade history, page by page.    *)
(* A trade is the number of its place in time; the account's trades all    *)
(* lie within the lookback window.  The requests are KrakenClient's: here  *)
(* one is answered or fails, a nonce that Kraken refuses included.         *)
(***************************************************************************)
EXTENDS Naturals, FiniteSets

CONSTANTS
    PageSize,     \* trades in a page of the history (external: Kraken's)
    Malformed,    \* trades whose report lacks a field
    MaxTrades,    \* bound: trades of the account
    MaxFailures,  \* bound: fetches that fail, or are cut, while the key is good
    MaxRestarts   \* bound: restarts of the process

VARIABLES
    mode,    \* the threads build_relay has set up
    key,     \* Kraken: whether the API key is good
    total,   \* Kraken: trades of the account so far
    fetch,   \* the poll under way: its offset, what it has and (ghost) the trades at its start
    feed,    \* the WebSocket
    wire,    \* executions on their way on it
    known,   \* trades handed to the engines as fills
    failures, restarts

vars == <<mode, key, total, fetch, feed, wire, known, failures, restarts>>
feedVars == <<feed, wire>>
world == <<mode, key, total, failures, restarts>>

-----------------------------------------------------------------------------
Trades  == 1..MaxTrades
NoFetch == [at |-> "none", offset |-> 0, got |-> {}, from |-> 0]

\* What build_relay sets up of the enabled threads: none without both credentials, and
\* half of them, or no thread at all, is a SystemExit.
Built(enabled, credentials) == IF credentials = {"key", "secret"} THEN enabled ELSE {}

Init ==
    /\ \E enabled \in SUBSET {"poller", "listener"}, credentials \in SUBSET {"key", "secret"} :
          mode = Built(enabled, credentials) /\ mode # {}
    /\ key = "good" /\ total = 0 /\ fetch = NoFetch
    /\ feed = "down" /\ wire = {} /\ known = {} /\ failures = 0 /\ restarts = 0

-----------------------------------------------------------------------------
(* Errors of a request: Kraken's, by code, or of the transport. *)

CredentialErrors  == {"EAPI:Invalid key"}
RequestErrors     == {"EGeneral:Invalid arguments", "ETrade:Invalid request"}
NeedsActionErrors == CredentialErrors \cup RequestErrors \cup {"EGeneral:Temporary lockout"}
TransientErrors   == {"EAPI:Invalid nonce", "httpx.HTTPError"}

\* The errors a request may end with, those of a bad key only when it is.
Answers == TransientErrors \cup RequestErrors \cup (IF key = "good" THEN {} ELSE NeedsActionErrors)

-----------------------------------------------------------------------------
(* The poller: fetch, then parse *)

FetchBegins ==
    /\ "poller" \in mode /\ fetch.at = "none"
    /\ fetch' = [NoFetch EXCEPT !.at = "page", !.from = total]
    /\ UNCHANGED <<world, feedVars, known>>

\* Kraken's history is newest first: the page after the first `offset` trades.
HistoryPage(offset) ==
    {n \in 1..total : total - n >= offset /\ total - n < offset + PageSize}

\* Mutant: the count of the first page, not this page's, says when all pages are in.
IsLastPageByFirstCount(page, offset) == page = {} \/ offset >= fetch.from

IsLastPage(page, offset) == page = {} \/ offset >= total

\* A page without a count ends the fetch as the last one does, and nobody notices: it is cut.
PageArrives ==
    LET page == HistoryPage(fetch.offset)
        offset == fetch.offset + Cardinality(page)
        more == [counted |-> "page", uncounted |-> "cut"]
    IN  /\ fetch.at = "page" /\ key = "good"
        /\ \E answer \in IF failures < MaxFailures THEN DOMAIN more ELSE {"counted"} :
               /\ fetch' = [fetch EXCEPT !.offset = offset, !.got = @ \cup page,
                                         !.at = IF IsLastPage(page, offset) THEN "complete" ELSE more[answer]]
               /\ failures' = IF answer = "uncounted" THEN failures + 1 ELSE failures
        /\ UNCHANGED <<mode, key, total, restarts, feedVars, known>>

\* The pages so far are lost with one that fails.  The engine polls again, after a
\* FetchConfigError only when told to or at the next interval (see PollLoop).
FetchFails ==
    /\ fetch.at = "page" /\ (key = "good" => failures < MaxFailures)
    /\ \E e \in Answers :
        fetch' = [NoFetch EXCEPT !.at = IF e \in NeedsActionErrors THEN "config_error" ELSE "none"]
    /\ failures' = IF key = "good" THEN failures + 1 ELSE failures
    /\ UNCHANGED <<mode, key, total, restarts, feedVars, known>>

ConfigErrorReported ==
    /\ fetch.at = "config_error"
    /\ fetch' = NoFetch
    /\ UNCHANGED <<world, feedVars, known>>

\* Mutant: one trade that cannot be parsed fails the batch.
ParsedOrNone(trades) == IF trades \cap Malformed = {} THEN trades ELSE {}

\* Mutant: every trade becomes a fill.
ParsedAll(trades) == trades

\* A trade that cannot be parsed is reported and left out; the others become fills.
Parsed(trades) == trades \ Malformed

Parse ==
    /\ fetch.at \in {"complete", "cut"}
    /\ known' = known \cup Parsed(fetch.got)
    /\ fetch' = NoFetch
    /\ UNCHANGED <<world, feedVars>>

-----------------------------------------------------------------------------
(* The listener *)

\* With a token, the feed is subscribed without a snapshot of past trades.
Subscribe ==
    /\ "listener" \in mode /\ feed = "down" /\ key = "good"
    /\ feed' = "connected"
    /\ UNCHANGED <<world, fetch, wire, known>>

\* The errors that raise FatalListenerError; the loop tries again after any other.
StopsListener == CredentialErrors

ConnectFails ==
    /\ "listener" \in mode /\ feed = "down"
    /\ \E e \in Answers : feed' = IF e \in StopsListener THEN "stopped" ELSE "down"
    /\ UNCHANGED <<world, fetch, wire, known>>

\* A message of the executions channel may report several trades.
OnMessage(trades) ==
    /\ feed = "connected" /\ trades # {}
    /\ known' = known \cup Parsed(trades)
    /\ wire' = wire \ trades
    /\ UNCHANGED <<world, fetch, feed>>

FeedBreaks ==
    /\ feed = "connected"
    /\ feed' = "down" /\ wire' = {}
    /\ UNCHANGED <<world, fetch, known>>

-----------------------------------------------------------------------------
(* The account, the key, the process *)

Trade ==
    /\ total < MaxTrades
    /\ total' = total + 1
    /\ wire' = IF feed = "connected" THEN wire \cup {total + 1} ELSE wire
    /\ UNCHANGED <<mode, key, failures, restarts, fetch, feed, known>>

KeyRevoked ==
    /\ key = "good"
    /\ key' = "revoked"
    /\ UNCHANGED <<mode, total, failures, restarts, fetch, feedVars, known>>

Restart ==
    /\ restarts < MaxRestarts
    /\ restarts' = restarts + 1
    /\ fetch' = NoFetch /\ feed' = "down" /\ wire' = {}
    /\ UNCHANGED <<mode, key, total, failures, known>>

-----------------------------------------------------------------------------
PollStep == FetchBegins \/ PageArrives \/ FetchFails \/ ConfigErrorReported \/ Parse
Messages == \E trades \in SUBSET wire : OnMessage(trades)

Next ==
    \/ PollStep \/ Subscribe \/ ConnectFails \/ Messages
    \/ FeedBreaks \/ Trade \/ KeyRevoked \/ Restart

(* The poll loop goes on.  That Kraken's outages end is the bound on failures. *)
Fairness == WF_vars(PollStep)

Spec == Init /\ [][Next]_vars /\ Fairness

-----------------------------------------------------------------------------
TypeOK ==
    /\ mode \in (SUBSET {"poller", "listener"}) \ {{}}
    /\ key \in {"good", "revoked"} /\ total \in 0..MaxTrades
    /\ fetch.at \in {"none", "page", "config_error", "cut", "complete"}
    /\ fetch.got \subseteq 1..total /\ fetch.from \in 0..total
    /\ feed \in {"down", "connected", "stopped"}
    /\ failures \in 0..MaxFailures /\ restarts \in 0..MaxRestarts
    /\ wire \subseteq 1..total /\ (wire # {} => feed = "connected")
    /\ known \subseteq 1..total \ Malformed

(* However many trades happen between two pages and shift the offsets, a fetch that
   comes to its end holds every trade that was there at its start, unless Kraken left out a count. *)
FetchMissesNoTrade ==
    fetch.at = "complete" => 1..fetch.from \subseteq fetch.got

(* While there is a poller and the key stays good, every trade that can be parsed comes in: by the
   feed, or by a poll after the feed was down or the process restarted. *)
EveryTradeComesIn ==
    \A n \in Trades \ Malformed :
        (total >= n /\ "poller" \in mode) ~> (n \in known \/ key = "revoked")
=============================================================================
