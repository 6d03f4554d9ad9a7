---------------------------- MODULE Periphery ----------------------------
(***************************************************************************)
(* What stands around the relay's engines: how the process comes up, what  *)
(* the adapters make of what brokers say, how long the dedup table         *)
(* remembers, the rates, the market-data service and the droplet.  None of *)
(* the nine shares state with another, so a behaviour of this module is    *)
(* one of any of them: `subject` says which, and the variables of the      *)
(* others stay as they begin.                                              *)
(***************************************************************************)
EXTENDS Naturals, Sequences, FiniteSets

\* Each of the nine has parameters of its own; see there.
CONSTANTS
    Listings, OnDemand,                                           \* Startup
    Account,                                                      \* Executions
    TradeIds, Retention, Lookback, MaxFillAge, HoursADay, MaxDay, \* Retention
    Requesters, NonceClock, MaxRequests, NonceRestarts,           \* KrakenClient
    PageSize, Malformed, MaxTrades, MaxFailures, FeedRestarts,    \* KrakenFeed
    ExecIds, MaxRows, MaxReady,                                   \* FlexReport
    Enrichers, Currencies, Quoted, RateTTL, DayLength, RateClock, RateRestarts,   \* FxRates
    Workers, Tickers, MaxAttempts, CacheTTL, FetchTime, MaxVersion, MarketClock,  \* MarketData
    Commands, MaxDroplets, MaxSnapshots, MaxRecords, MaxDeaths    \* Lifecycle

\* RELAYS may list a relay twice: see the theorem about polls.
ASSUME StartAssumption == Listings # {} /\ \A names \in Listings : names \in Seq(STRING)
(* A broker's execution id names one execution, shares have no sign, and times are in order.  What an execution can
   lack depends on its type: only an option needs a contract. *)
ASSUME AccountAssumption ==
    /\ IsFiniteSet(Account)
    /\ \A e, g \in Account : "execId" \notin e.defects \cup g.defects /\ e.id = g.id => e = g
    /\ \A e \in Account :
           /\ e.shares \in Nat /\ e.time \in Nat
           /\ e.defects \subseteq {"execId", "side", "time"} \cup
                  (IF e.secType = "OPT" THEN {"localSymbol", "multiplier", "optionContract"} ELSE {})
ASSUME KeepingAssumption ==
    Retention \in Nat /\ Lookback \in Nat /\ MaxFillAge \in Nat /\ HoursADay \in Nat \ {0} /\ MaxDay \in Nat \ {0}
ASSUME NonceAssumption ==
    /\ "free" \notin Requesters
    /\ NonceClock \in Nat \ {0} /\ MaxRequests \in Nat /\ NonceRestarts \in Nat
ASSUME KrakenAssumption ==
    PageSize \in Nat \ {0} /\ MaxTrades \in Nat /\ MaxFailures \in Nat /\ FeedRestarts \in Nat
ASSUME FlexAssumption == "none" \notin ExecIds /\ MaxRows \in Nat /\ MaxReady \in Nat
ASSUME RatesAssumption ==
    /\ "none" \notin Currencies /\ Quoted \subseteq Currencies /\ Currencies # {}
    /\ RateTTL \in Nat \ {0} /\ DayLength \in Nat \ {0} /\ RateClock \in Nat /\ RateRestarts \in Nat
ASSUME MarketAssumption ==
    /\ "free" \notin Workers /\ MaxAttempts \in Nat \ {0} /\ CacheTTL \in Nat /\ FetchTime \in Nat
    /\ MaxVersion \in Nat \ {0} /\ MarketClock \in Nat
ASSUME CloudAssumption ==
    MaxDroplets \in Nat /\ MaxSnapshots \in Nat /\ MaxRecords \in Nat /\ MaxDeaths \in Nat

VARIABLES
    subject,
    step, listing, relays, context, locks, loops, polls, answer,
    execEvents, buffer, marked, xSent, reported, errors,
    now, made, processed, watermark, hand, recorded,
    nClock, lastNonce, lock, request, highest, accepted, issued, nRestarts,
    mode, key, total, fetch, feed, wire, known, failures, kRestarts,
    phase, waits, readyAt, report, toDo, seen, fills, badRows,
    fClock, config, mem, store, latest, fWork, fRestarts,
    mClock, version, cache, session, initLock, mWork, served,
    machine, disk, snapshots, image, reservedIp, ipExists, pauseState, tfDroplet, tfIp,
    command, deaths, written, forgone

startVars  == <<step, listing, relays, context, locks, loops, polls, answer>>
tradeVars  == <<execEvents, buffer, marked, xSent, reported, errors>>
keepVars   == <<now, made, processed, watermark, hand, recorded>>
nonceVars  == <<nClock, lastNonce, lock, request, highest, accepted, issued, nRestarts>>
krakenVars == <<mode, key, total, fetch, feed, wire, known, failures, kRestarts>>
flexVars   == <<phase, waits, readyAt, report, toDo, seen, fills, badRows>>
ratesVars  == <<fClock, config, mem, store, latest, fWork, fRestarts>>
marketVars == <<mClock, version, cache, session, initLock, mWork, served>>
cloudVars  == <<machine, disk, snapshots, image, reservedIp, ipExists, pauseState, tfDroplet,
                tfIp, command, deaths, written, forgone>>

vars == <<subject, startVars, tradeVars, keepVars, nonceVars, krakenVars, flexVars, ratesVars,
          marketVars, cloudVars>>

Start == INSTANCE Startup WITH Requests <- OnDemand

Trading == INSTANCE Executions WITH sent <- xSent

Keeping == INSTANCE Retention WITH Trades <- TradeIds

Nonce == INSTANCE KrakenClient WITH
    Threads <- Requesters, MaxClock <- NonceClock, MaxRestarts <- NonceRestarts,
    clock <- nClock, restarts <- nRestarts

Kraken == INSTANCE KrakenFeed WITH MaxRestarts <- FeedRestarts, restarts <- kRestarts

Flex == INSTANCE FlexReport WITH reported <- badRows

Rates == INSTANCE FxRates WITH
    Threads <- Enrichers, TTL <- RateTTL, MaxClock <- RateClock, MaxRestarts <- RateRestarts,
    clock <- fClock, work <- fWork, restarts <- fRestarts

Market == INSTANCE MarketData WITH
    Threads <- Workers, TTL <- CacheTTL, MaxClock <- MarketClock, clock <- mClock, work <- mWork

Cloud == INSTANCE Lifecycle

-----------------------------------------------------------------------------
Subjects == {"start", "trading", "keeping", "nonce", "kraken", "flex", "rates", "market", "cloud"}

\* Those with a choice at the start have it only when they are the subject.
Init ==
    /\ subject \in Subjects
    /\ Start!Init /\ Trading!Init /\ Keeping!Init
    /\ Nonce!Init /\ Kraken!Init /\ Flex!Init /\ Rates!Init /\ Market!Init /\ Cloud!Init
    /\ subject # "start" => listing = CHOOSE names \in Listings : TRUE
    /\ subject # "trading" => execEvents = FALSE
    /\ subject # "kraken" => mode = {"poller", "listener"}
    /\ subject # "rates" => config = CHOOSE c \in Rates!Configs : TRUE

StartStep ==
    /\ subject = "start" /\ Start!Next
    /\ UNCHANGED <<subject, tradeVars, keepVars, nonceVars, krakenVars, flexVars, ratesVars, marketVars, cloudVars>>

TradingStep ==
    /\ subject = "trading" /\ Trading!Next
    /\ UNCHANGED <<subject, startVars, keepVars, nonceVars, krakenVars, flexVars, ratesVars, marketVars, cloudVars>>

KeepingStep ==
    /\ subject = "keeping" /\ Keeping!Next
    /\ UNCHANGED <<subject, startVars, tradeVars, nonceVars, krakenVars, flexVars, ratesVars, marketVars, cloudVars>>

NonceStep ==
    /\ subject = "nonce" /\ Nonce!Next
    /\ UNCHANGED <<subject, startVars, tradeVars, keepVars, krakenVars, flexVars, ratesVars, marketVars, cloudVars>>

KrakenStep ==
    /\ subject = "kraken" /\ Kraken!Next
    /\ UNCHANGED <<subject, startVars, tradeVars, keepVars, nonceVars, flexVars, ratesVars, marketVars, cloudVars>>

FlexStep ==
    /\ subject = "flex" /\ Flex!Next
    /\ UNCHANGED <<subject, startVars, tradeVars, keepVars, nonceVars, krakenVars, ratesVars, marketVars, cloudVars>>

RatesStep ==
    /\ subject = "rates" /\ Rates!Next
    /\ UNCHANGED <<subject, startVars, tradeVars, keepVars, nonceVars, krakenVars, flexVars, marketVars, cloudVars>>

MarketStep ==
    /\ subject = "market" /\ Market!Next
    /\ UNCHANGED <<subject, startVars, tradeVars, keepVars, nonceVars, krakenVars, flexVars, ratesVars, cloudVars>>

CloudStep ==
    /\ subject = "cloud" /\ Cloud!Next
    /\ UNCHANGED <<subject, startVars, tradeVars, keepVars, nonceVars, krakenVars, flexVars, ratesVars, marketVars>>

Next ==
    \/ StartStep \/ TradingStep \/ KeepingStep
    \/ NonceStep \/ KrakenStep \/ FlexStep \/ RatesStep \/ MarketStep \/ CloudStep

(* The fairness of each module, for when it is the subject. *)
KrakenFairness == WF_krakenVars(subject = "kraken" /\ Kraken!PollStep)

CloudFairness ==
    /\ WF_cloudVars(subject = "cloud" /\ Cloud!CommandStep)
    /\ WF_cloudVars(subject = "cloud" /\ Cloud!CloudStep)
    /\ SF_cloudVars(subject = "cloud" /\ Cloud!ResumeBegins)

Spec ==
    /\ Init
    /\ [][Next]_vars
    /\ KrakenFairness /\ CloudFairness

-----------------------------------------------------------------------------
(* What each module's variables may hold. *)
TypeOK ==
    /\ subject \in Subjects
    /\ Start!TypeOK /\ Trading!TypeOK /\ Keeping!TypeOK
    /\ Nonce!TypeOK /\ Kraken!TypeOK /\ Flex!TypeOK /\ Rates!TypeOK /\ Market!TypeOK /\ Cloud!TypeOK

(* No poller is polled twice at a time, from the moment the API is open (Startup; main.py's
   poll_locks before the API, routes/__init__.py). *)
OnePollAtATime == Start!OnePollAtATime

(* The trades with a commission add up to what the account bought and sold of each symbol, if no
   order does both (Executions; _map_fill, aggregate_fills, Trade). *)
ConsumerHoldsThePosition == Trading!ConsumerHoldsThePosition

(* A trade that was sent and marked is not taken for new again when its row was pruned, if the
   horizons lie within the retention (Retention; prune). *)
PrunedIsOutOfReach == Keeping!PrunedIsOutOfReach

(* Kraken finds no request of the process too low (KrakenClient; _next_nonce and its lock). *)
NonceStaysAbove == Nonce!NonceStaysAbove

(* No trade of before a fetch is missing from it, whatever trades are made between two of its
   pages (KrakenFeed; fetch). *)
FetchMissesNoTrade == Kraken!FetchMissesNoTrade

(* One usable row of an execution is enough for one fill, and several make no second one
   (FlexReport; parse_fills). *)
EachExecutionOnce == Flex!EachExecutionOnce

(* A rate handed out is that of the trade's day and pair, or young (FxRates; FxClient). *)
RatesAreTrue == Rates!RatesAreTrue

(* Of the relay's disk at least one copy is left, whatever command stops half-way (Lifecycle;
   pause.py, resume.py, deploy.py). *)
StateIsKept == Cloud!StateIsKept

(* With a good key for long enough, every trade becomes a fill (KrakenFeed; poll and feed). *)
EveryTradeComesIn == subject = "kraken" => Kraken!EveryTradeComesIn

(* What the service says of a ticker never goes back to an older version (MarketData; keep). *)
NeverGoesBack == Market!NeverGoesBack

(* A paused relay can be brought up again (Lifecycle; resume.py). *)
PausedComesBack == Cloud!PausedComesBack
==========================================================================
