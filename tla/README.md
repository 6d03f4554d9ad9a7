# relayport in TLA+

relayport watches brokerage accounts (Kraken, Interactive Brokers) and posts a webhook for
every execution. Each broker is one *relay*. A relay hears of the same execution on two
paths: a WebSocket **listener**, fast and lossy, and a REST **poller**, slow and complete.
Both run in one asyncio process, do their blocking work in worker threads, and share a
SQLite table, an in-memory registry and a timestamp watermark. The promise is at-least-once
delivery with as few duplicates as possible; the difficulty is that two paths, several
threads, retries, restarts and late answers meet in that shared state.

This directory holds TLA+ models of that core and of what stands around it (the adapters, the
start-up, the rates, the market-data service, the droplet's life), the TLC configurations that
check them, and machine-checked proofs of every safety invariant the passing runs check.
`PROJECT.json` maps every definition to the source lines it stands for, gives every property a
mutation of the model that breaks it, and lists the hazards. Source paths below are relative to
`src/services/`, except those of the CLI, which begin with `cli/` and are in `src/`.

    tlc -workers 2 -config MCDelivery_single.cfg MCDelivery.tla
    tlapm DebounceBufferProofs.tla   (and BookTradeProofs, DeliveryProofs, PollLoopProofs,
                                      ListenerSessionProofs, NotifyingProofs,
                                      PeripheryProofs, OperationsProofs)

## 1. Inventory

| Component (source) | State it keeps | Operations | Hard behaviour | What makes it correct |
|---|---|---|---|---|
| **Debounce buffer** (`relay_core/listener_engine.py`, `DebounceBuffer`) | `_buffers`, `_attempts`, `_flush_tasks`, `_flushing`, `_parse_errors` | `add`, `extend_errors`, `send_now`, `_delayed_flush`, `_flush_order`, `_on_flush_failure`, `_restore`, `_report_dropped`, `flush` | listener, timer and flush tasks interleave at every await; a send fails after its order's timer and bucket have changed | no fill waits without a timer; no fill disappears; a retry keeps its backoff and its budget |
| **Listener dispatch** (`_send_and_mark`) | none of its own | look up, consume book-trade keys, register, notify, mark, release | runs in several threads, and beside the poller | mark only after notify; visible to the poller while sending |
| **Poll cycle** (`relay_core/poller_engine.py`, `poll_once`) | watermark (meta database) | fetch, pre-filter, exec dedup, order dedup, deferral, notify, mark, advance | reads table and registry at different moments; several executions share a second | nothing undelivered falls behind the watermark; nothing recorded is sent again |
| **Dedup store** (`relay_core/dedup`) | `processed_fills`: exec ids, order ids, ages, book-trade keys | lookups, `mark_processed_*`, `consume_book_trade_keys`, `mark_book_trade_keys`, `prune` | concurrent connections; a row pruned while its trade can still come back | a row always stands for a delivery, and outlives what it has to stop |
| **In-flight registry** (`relay_core/inflight.py`) | a count per (relay, order) | register, release, intersect | overlapping sends of one order | an order is visible until its last send releases it |
| **Listener connection** (`start_listener`, `_listen_loop`, `_watch_health`) | connection, backoff, the reason it is down, failed checks | connect, receive, lose the connection, back off, probe | fails, recovers and hangs in every order beside the watchdog | catches up after every loss; an outage that lasts is noticed |
| **Bridge resume cursor** (`relays/ibkr/__init__.py`) | last sequence number and bridge id, in memory and in the meta database | track a received message, save, build the resume query | the bridge restarts and numbers anew; a write fails; saved on receipt, before delivery | the replay begins no later than the first event not received |
| **Poll loop, on-demand polls** (`relay_core/main.py`, `routes/`) | a lock per poller, the pause | wake, poll, pause; `POST …/poll/<index>` waits 10 ms for the lock | polls that raise while they hold the lock | the loop polls again and again, and never twice at a time |
| **Notifier dispatch** (`relay_core/notifier`) | none | each backend in turn, retried on retryable failures | one backend succeeds, another does not; late answers | success means that some backend has the payload, failure that every one failed |
| **Alerter, outage tracking** (`relay_core/alerter.py`, `health.py`) | last claim per alert key; `_down_since`, `_alerted` | `send_alert` (claim, post, roll back), `record_failure`, `record_success` | threads share a key; cooldown against failing mail service; streak against streak | blips silent, lasting outages reported and reminded of; only an email silences |
| **Start-up, configuration, registry** (`relay_core/main.py`, `registry.py`, `context.py`) | the relays, their locks and loops | read the environment, build, prune, lock, serve, start | requests arrive while the process comes up | one poll of a poller at a time, from the first request on |
| **Kraken adapter** (`relays/kraken`) | `_last_nonce`, its lock, the feed | sign, fetch page by page, subscribe, parse | threads and a clock set back share the nonce; pages shift while they are read | nonces grow; a fetch misses no trade; every trade comes in |
| **IBKR adapter** (`relays/ibkr`) | none | Flex request, wait and download; parse; map a bridge event | the report is generated meanwhile, and lists an execution several times; executions are reported twice | each execution once; trades add up to the position |
| **FX enrichment** (`relay_core/fx`) | rates in memory, in SQLite, today's table | look up, fetch, keep, prune | threads fill the caches, a restart changes the base currency | a rate is of the trade's day and pair, or young |
| **Market-data service** (`market_data`) | Yahoo session, response cache | look up, bootstrap the session, fetch with retry, keep | concurrent requests share one session; the slower answer is the older | answers never go back |
| **Droplet lifecycle** (`cli/core/pause.py`, `resume.py`, `deploy.py`, `destroy.py`) | `.pause-state`, Terraform's state; droplets, snapshots and the address in the cloud | `pause`, `resume`, `deploy`, `destroy`, each a list of remote calls | any call may fail or be interrupted, and commands are repeated | the database is always somewhere; what was paused comes back |
| **Models, aggregation** (`shared`) | none | fills into trades | legs, summaries and second reports of one order | totals are kept |
| **Operator commands** (`cli/watermark.py`, `poll.py`, `reset_db.py`, `test_webhook.py`) | none | move the watermark, ask for a poll, … | beside a running relay | nothing is sent twice |
| **Debug inbox** (`debug`) | bounded list of payloads | receive, list, clear | none: one event loop, no await in between | the bound |
| Audit log, infrastructure, code generators | | output and build tooling | | |

**How they interact.** A WebSocket message becomes fills in the buffer; the buffer hands a
batch to a worker thread, which runs `_send_and_mark` against the dedup store, the registry
and the notifiers, and reports success or failure back to the task that awaited it. The poll
loop takes the poller's lock and runs `poll_once` in a worker thread against the same store,
registry and notifiers, and moves the watermark. Both report failures to the alerter; poll
outcomes also go to the outage tracker, and the listener's watchdog has its own streak. Before
a trade is sent it may be given a rate. Only the SQLite databases survive a restart, and only
the droplet's disk, or a snapshot of it, holds them.

The hazards this leads to are listed, each at its line, in `PROJECT.json`.

## 2. Modules

| Module | Models | Role |
|---|---|---|
| `FillCustody` | | abstract: what the buffer promises about the fills it is given |
| `DebounceBuffer` | the debounce buffer and every asyncio task that drives it | implements `FillCustody` |
| `DebounceBufferProofs` | | theorems about `DebounceBuffer` |
| `RelayPromise` | | abstract: what a relay promises about the trades of an account |
| `Delivery` | `_send_and_mark`, `poll_once`, the dedup table, the registry, the watermark, restarts | both paths over their shared state; implements `RelayPromise` |
| `DeliveryProofs` | | theorems about `Delivery` |
| `BookTrade` | matching assignments, exercises and expiries across the paths by economic key | the consume/notify/mark protocol of the key rows |
| `BookTradeProofs` | | theorems about `BookTrade` |
| `PollLoop` | the poll loop, its lock, on-demand polls, outage tracker, alert cooldown | what the operator hears |
| `PollLoopProofs` | | theorems about `PollLoop` |
| `ListenerSession`, `ListenerSessionProofs` | the connection loop, the bridge's cursor, the watchdog, stops; the buffer as its custody | from the bridge to the buffer |
| `Notifying`, `NotifyingProofs` | `notify` over backends and attempts, `send_alert` among concurrent threads | from the batch to destinations and operator |
| `Startup` | `amain`, the registry, the configuration, requests during start-up | the order of starting |
| `Executions` | bridge events to fills, to orders, to trades | what a consumer adds up |
| `Retention` | pruning, look-back, watermark and its reset over days | how long the relay remembers |
| `KrakenClient` | nonce, request lock, restarts, Kraken's view of the key | signing |
| `KrakenFeed` | the paginated fetch and the WebSocket of executions, the parser's skipping | Kraken's two sources |
| `FlexReport` | one Flex poll: request, waits, download, the parser's dedup | IBKR's poller |
| `FxRates` | the FX client's caches under threads and restarts | rates |
| `MarketData` | the Yahoo client's session and cache under threads | dividends |
| `Lifecycle` | `pause`, `resume`, `deploy`, `destroy`, the cloud they act on | where the database lives |
| `Periphery` | the nine modules from `Startup` to `Lifecycle` side by side | one specification of what stands around the engines |
| `PeripheryProofs` | | theorems about `Periphery`: retention, nonces, Kraken's fetch, the Flex report, executions |
| `OperationsProofs` | | theorems about `Periphery`: start-up, market data, rates, the droplet; its types |
| `MCDebounceBuffer`, `MCDelivery`, `MCBookTrade`, `MCPollLoop`, `MCListenerSession`, `MCNotifying`, `MCPeriphery` | | small instances for TLC |

### DebounceBuffer

asyncio runs one task at a time and switches only at an await, so one action is what a task
does between two awaits. `Receive` hands a message to the listener task; `AddStale`,
`AddBuffered`, `AddComplete` are the three ways through `add`; `TimerFires` is
`_delayed_flush`; `FlushNext`, `FlushEnds`, `FlushErrors` are the background task of
`flush`; `Sent`, `SendFailed`, `ErrorsFailed` are what follows the await of a send, with the
whole of `_on_flush_failure`. `FlushOrder` is the part up to the send that every path shares.

* `bucket`, `attempts`, `flushing`, `parseErrors` are the dicts and lists of the class;
  `armed` says that `_flush_tasks` holds a timer still asleep. `keys` is needed because an
  entry of `_buffers` can outlive its fills, and `flush` visits entries.
* `orphans` counts timers that `flush` took out of `_flush_tasks` without cancelling, which
  it does when a send of that order is in progress. They still fire, and the model has to
  say what they find.
* `thread` is the pool of `asyncio.to_thread`; a batch remembers who awaits it. When no
  thread is free, `Submit` is disabled: a coarse rendering of the executor's queue, since
  the pool is larger in practice than the number of sends a run has under way.
* Time is abstract: a sleeping timer may fire at any moment and a fill may become older than
  `max_fill_age_s` at any moment. Every ordering of delays is covered, and some the clock
  excludes.
* Iterations of the loops in `add` and `flush` that do not await are steps of their own, so
  other tasks may run between them: a superset of the real interleavings.
* Ghosts: `received`, `delivered`, `dropped`. "Dropped" means reported to the operator, the
  one way the code allows a fill to leave undelivered. Parse errors have no such promise.

### Delivery

One step of a thread between two accesses to shared state is one action: a SQLite statement
batch with its commit, a registry call, or a `notify`. A listener send is
`Lookup`, `Register`, `NotifySucceeds` or `NotifyFails`, `Mark`, `Release`. A poll cycle is
`Fetch` (with the pre-filter), `ExecDedup`, `OrderDedup`, `Defer`, `PollNotifySucceeds` or
`PollNotifyFails`, `PollMark`, `AdvanceWatermark`. `notify` is one success or failure (its loop
is `Notifying`); a failure may have reached the receiver, which answered too late. `Crash` ends
every thread and empties the registry; the two tables stay.

The feeds describe one execution differently, and that is what the constants are for:
`TradeOf` (several fills, one consolidated trade), `WsId`/`RestId`, `WsOrder`/`RestOrder`,
`Aliases`. Kraken and IBKR are instances of one module. On IBKR the order ids of the two feeds
are unrelated, so the order-level dedup and the deferral never match there, and the module has
to deliver without their help.

`seen` is a ghost: what was on record at each reader's first look at the table. It separates a
duplicate the code promises to avoid (the delivery was on record before the other path
looked) from the duplicate window it accepts (`relay_core/inflight.py:22-24`).

`RelayPromise` says the repository's "at-least-once, never at-most-once" without tables, registries and
threads: a trade leaves the relay's reach only when all of it is delivered, a fill is recorded only after it
is delivered, and a sender takes up only fills that are not on record. Several senders may have the same fill in hand;
that is the accepted duplicate. In the mapping the senders are the listener's threads and the poller; `InHand` is what one
has found new and not yet sent; in reach is what a later cycle will look at (`Candidates`). A lookup or
an exec dedup is `TakeUp`, a filter, a deferral or a crash is `LetGo`, a notify, answered or not, is `Send`, a
mark is `Record`, and a move of the watermark is `PassBy`.

### BookTrade

A book trade has no common id on the two paths; the path that notifies first leaves a row for
the trade's economic key, and a report on the other path that finds it consumes it instead of
notifying. The DELETE of the key row and the INSERT of the exec id are one transaction and one
action per item (`ConsumeHit`); `MarkExecIds` and `MarkKeys` are separate commits, with a crash
possible between. Two events may have equal keys: equal tranches of consecutive nights.
`Outlive` lets a row pass the 18-hour window at any moment. `notified` and `consumed` count
notifications and suppressions.

### PollLoop

Time advances in ticks of the poll interval, and instead of a clock the model keeps how long
ago each thing happened, cut off at the threshold it is compared with, so the state space is
finite without a bound on time. The asyncio lock is a holder and a queue in order of arrival. `RecordFailure` and
`RecordSuccess` are the outage tracker's two methods; `ClaimKey`, `PostSucceeds`, `PostFails`,
`NoEmail` are `send_alert`. Nothing of it is persisted, so a restart is `Init` and needs no
action. An on-demand poll does not report to the tracker and ignores the loop's pause, as in the
code. The lock this module shows to be passed on in order is what lets `Delivery` have
one poll cycle at a time.

### ListenerSession

`listener` is where `_listen_loop` stands; an action is what it does up to its next await:
`Connect`, `ConnectFails` or `ConnectFatal`, `Receive` (with the cursor's advance, which
`_tracking_receive` makes before it returns the message), `SaveSucceeds` or `SaveFails`,
`Handle`, `Ignore` or `HandleRaises`, and `LosesConnection`, the one way out of a connection that
all its failures share. A health check is two steps or three: `CheckBegins` reads whether the
connection stands and, if it does, asks the bridge; `BridgeAnswers` is the awaited probe, during which
everything else goes on; `CheckEnds` records the answer, whatever the connection has come to. `Stop` takes
everything but `saved`.

* `gateway` is the bridge's own link to IB Gateway, which only the probe shows. It and the connection come and go
  without end.
* A check asked of a connection that is lost meanwhile may still come back good: the code resets the
  streak then, and `LastingOutageIsNoticed` allows it (`check = "good"`). What it excludes is an alert put off by
  anything else, in particular by a connection that is merely made.
  The watchdog samples: a connection that happens to stand at every check is up to it, however often it broke in between.
* The bridge is external: `Emit`, `BridgeRestarts`, `ConnectionLost`, `GatewayTurns` and `ReplayStart`, which
  reads the query the way the adapter's docstrings expect. A process that is in `Legacy` stamps no id.
* The adapter is IBKR's, the only one with a cursor; Kraken's connection is in `KrakenFeed`.
* The buffer is `held` and `Settle`: the custody `DebounceBuffer` is proved to implement.
* Ghosts: `received`, what any relay process ever received; `blind`, what a connection that
  named no process did not ask for, as on a first start.

### Notifying

One action per attempt and per step of an alert. `SendGivenUp` ends a backend, with the reason that
`is_transient_failure` later reads; `NextBackend` goes on or computes the outcome. In `send_alert` the
claim is made under the lock (`AlertClaimed`), the email posted outside it, and a failed post
rolls its own claim back (`RolledBack`); other threads act in between. Ages are cut off as in
`PollLoop`. `postAge` and `mailAge` are kept for the properties.

### What stands around the engines

`Periphery` instantiates nine modules that share no state with each other; a behaviour of it
is one of any of them, chosen by `subject`, so that a theorem about it is one about each part.
Its constants are those of the nine; `MCPeriphery` gives them small values.

* **Startup**: `step` walks through `amain`'s order; `Built` enumerates every set of
  environment variables of a relay and says which yield which threads and which a `SystemExit`.
  `PollBegins` without a lock is `if relay.poll_locks else None`. 
* **Executions**: `ExecDetails` and `CommissionReport` are the bridge's two events with all of
  `_map_fill`; `Trades` is `aggregate_fills`; `Flush` sends what the dedup table does not have.
  A trade has the sign convention applied to its sum again, by the side of its last fill, as `Trade`'s validator does.
  Volumes, sides and the order in time are kept, prices and fees not.
* **Retention**: a moment is a day and an hour: rows and fills age to the hour, a Flex report lists whole days. A path
  takes trades from its feed, looks them up, notifies, marks, and the poller moves the watermark, each a step of its own with
  prunes and restarts in between; `recorded` (ghost) remembers which trades ever had a row. `Restart` prunes as
  `amain` does; `LosesWatermark` is a missing or unreadable meta database, `ResetWatermark` the operator's command.
* **KrakenClient**: `Acquire`, `Sign`, `Answered` or `TimesOut`; the clock is set to anything at
  any moment, and Kraken keeps the highest nonce of the key.
* **KrakenFeed**: a poll fetches pages newest first while `Trade` shifts them, and fails by
  error class, a bad request under a good key included. A page without a `count` ends the fetch as the last page
  does (`"cut"`): the next poll has to bring the rest. `OnMessage` takes any set of the executions on the wire; `Parsed` leaves out what
  cannot be read.
* **FlexReport**: the report is ready at some time of IBKR's choice, asked for after the four
  waits; a report is any sequence of rows with tags, ids and states. The parser's two nested loops, over
  tags and over the rows of a tag, are the rows `toDo` and the order `ComesBefore` among them.
* **FxRates**: each thread is at one step of `enrich_if_enabled`; a rate is the key the
  provider quoted it for, so a rate under a wrong key is visible. The latest-rate entry keeps
  the moment it was looked for and (ghost) the moment it was quoted.
* **MarketData**: what Yahoo says of a ticker is a version that grows; `Keep` looks again whether
  another thread was faster.
* **Lifecycle**: every remote call of a command is an action, and a command may die before any of
  them; droplets boot, stop and write records meanwhile. Records on a disk or in an image are
  what there is to lose. `Replace` is `deploy` with another `DROPLET_REGION`: Terraform destroys the
  droplet and makes a new one, whose disk is empty.

## 3. What TLC checks

| Run | Instance | What it shows | Distinct states |
|---|---|---|---|
| `buffer_custody` | 2 fills of one order, one of them replayed, a parse error, 2 threads, 1 flush task, 1 retry | `NoStrandedFill`, `AttemptsBelongToARetry`, `NoSilentLoss` over every interleaving of timers, retries, completions, replays and disconnects; `KeepsCustody`: the buffer implements `FillCustody`, its liveness included: no fill stays forever | 260 355 |
| `buffer_now` | 2 orders, 3 threads, no debouncing, 2 retries | the same where a message is one batch of several orders, restored or dropped order by order | 13 126 |
| `delivery_single` | Kraken, 2 orders, 2 listener threads, a restart | `SendsAreVisible`; `KeepsItsPromise`: both paths together implement `RelayPromise`, so that in particular nothing undelivered gets out of the poller's reach (`UndeliveredStaysInReach`) | 670 715 |
| `delivery_ibkr` | IBKR, a combo leg with an alias, two siblings that share an alias and their Flex trade, trades of one second, a restart | `MarkedIsDelivered`: the row one sibling left under the alias is no other's, and every row stands for a delivery; `NoRepeatAfterMark` and `AtLeastOnce` without common order ids | 114 593 |
| `book_tranches` | 2 equal events on 2 nights, the poller and 2 sends, a restart | `SuppressionIsPaidFor`, `NeverDropped` | 484 527 |
| `poll_outages` | 2 on-demand polls, alerts after 2 ticks, cooldown 6, pause 3, mail may fail | `BlipsStaySilent`, `LoopKeepsPolling`, `LastingOutageIsReported` | 19 548 |
| `session_resume` | 3 bridge processes, the first without a bridge id, the second with 2 events and the others with 1, connections and a gateway that come and go without end, a fault, a stop, alerts after 1 failed check | `NothingSkipped`: the replay begins no later than the first event not received; `CatchesUp`; `LastingOutageIsNoticed`: a connection or a gateway that stays away is noticed, and while either is away only a check begun on a standing connection that found the gateway there puts the alert off | 470 470 |
| `notify_alerts` | 2 threads, 2 destinations, 1 retry, cooldown 2, mail may take 2 ticks or fail | `OutcomeIsTrue`; `EmailHoldsItsCooldown` and `SuppressedOnlyByAnEmail` among concurrent claims; `FailingDestinationIsReported` | 96 066 |
| `periphery` | the nine modules of `MCPeriphery` | see below | 274 826 |

| Property of `periphery` | Says | Instance |
|---|---|---|
| `OnePollAtATime` | no poller is polled twice at a time, start-up included | `RELAYS` empty, one, two, or with an unknown name; a request |
| `ConsumerHoldsThePosition` | the signed volumes a consumer receives add up to the executions reported | an order of two legs, one in two parts, its summary; an execution without order; an unreadable one; no order on both sides of a symbol |
| `PrunedIsOutOfReach` | no path takes a trade that was sent and marked for new again | 1 trade, 5 days of 2 hours, retention 2 days, look-back 1 |
| `NonceStaysAbove` | Kraken finds no nonce of the process too low | 2 threads, 4 requests, any clock, a restart |
| `FetchMissesNoTrade`, `EveryTradeComesIn` | pages that shift hide no trade; every readable trade comes in while the key is good | 3 trades, one of them unreadable, pages of 1, 2 failures or missing counts, a restart |
| `EachExecutionOnce` | one usable row is enough for one fill, several make no second | 3 rows, 2 tags, 3 states of a row |
| `RatesAreTrue` | a rate is of the trade's day, pair and base, or younger than its time to live | 2 threads, 2 currencies, 2 days, a restart with another base |
| `NeverGoesBack` | no answer is older than an earlier one | 2 threads, 2 versions, time to live 2 |
| `StateIsKept`, `PausedComesBack` | every record is on a droplet or in a snapshot, unless its droplet was destroyed or replaced by the operator; what is paused comes back | 4 droplets, 1 snapshot, 2 commands that die |

Three more runs, `delivery_partial`, `book_nights` and `session_stop`, expect a violation; each shows
the code doing something its own text excludes (section 6).

**Bounds, and why they are enough.**
*Buffer.* Fills of one order interact only through its bucket, retry count and timers; two
of them and a replayed copy give overlapping sends of one order (timer and flush, or the listener, can
both be sending), a restored batch that meets newer fills, and a copy of a fill in flight.
Orders interact only through the shared parse errors and the loops over orders: `buffer_now` has two,
where one batch carries both and `flush` visits both, and the proofs hold for any number. One
retry suffices for restore and for exhaustion. Each fill is reported a bounded
number of times (`MaxReceipts`): a feed that replays one forever restarts its window forever.
*Delivery.* The races need two sends of one order, or a send and a cycle; a trade and a later
one that moves the watermark; one tick more than the order-level window; one restart.
`MaxSends`, `MaxClock`, `MaxCrashes` bound them. Siblings need two fills of one alias, sent one after the other. *BookTrade.* Two equal events, three workers
and three notifications per key allow a race for one row and a refresh of a row being consumed.
*PollLoop.* Two requests make the queue matter; thresholds and cooldown keep the order of the
defaults (15 minutes before the alert, 60 minutes of cooldown, against an interval of 10).
*ListenerSession.* Three processes give each change of id there is: none to one, one to another,
the same. Two events of one process (`Emits`) tell a cursor that is one too far from one that is right; one fault and one
stop may fall between any two steps. The watchdog alerts after one
failed check: what it looks at is the connection and the gateway, which may change at every step.
*Notifying.* Two threads are enough for a claim that is rolled back while another stands, and the
mail service may take as long as the cooldown, which is where that happens.
*The periphery.* Each instance has the two actors or the two values that can be mixed up: two
threads, two legs, two days, two hours of a day, two pages, two commands that die one after the other. Four droplets are what a
resume that dies twice leaves behind, and the deployment's own. What `Retention` says of a trade it says of each alone, so one
trade is enough: another one only matters by moving the watermark, which may stand anywhere as it is.

**Deadlock** is not checked in the runs whose system may stop: all fills reported and settled,
the clock or the faults at their bound. `PollLoop` and `Notifying` have no such state and are checked for
deadlock.

**Fairness.** *Buffer:* asyncio resumes whatever is ready, a sleeping timer fires, and a send
ends, because `notify` bounds its attempts and every post has a timeout; so weak fairness on
the listener's steps, each timer, each flush task and each thread's outcome. Success is not
assumed: custody ends by exhausting the retries. Nothing forces a message, a
disconnect or the passing of time.
*Delivery:* weak fairness on threads and the poll cycle for the same reason (the loop runs for
ever). `AtLeastOnce` also needs a receiver that, called again and again, answers in
time again and again: strong fairness on `PollNotifySucceeds`, without which no relay could
deliver. It assumes nothing of the listener's sends, of `Lookup`, or of restarts, and the
clock's weak fairness only ends the order-level window. *PollLoop:* weak fairness on the loop,
on the end of a poll, and on time; strong fairness on a post that succeeds, as before.
*ListenerSession:* weak fairness on the loop and the watchdog, whose waits all have timeouts, on the
buffer's custody, and on `Start`, since the container restarts. That the bridge lets the relay in, and a connection then lasts, is
not assumed but the premise of `CatchesUp`. *Notifying:* weak fairness on time and on each thread's steps; strong fairness, for each
destination, on an email about it being taken. *KrakenFeed:* weak fairness on the poll's steps; that Kraken's outages end
is the bound on failures. *Lifecycle:* weak fairness on the steps of a running command and on the
cloud's, strong fairness on the operator's return to `resume`. The other modules state safety only.

**Assumptions about the outside.**
* The REST feed publishes executions in the order of their
  times: a trade that first appears after a later one was sent is below the watermark, and no
  cycle considers it. Whether a broker's feed does that is not for this repository to say; the
  hazard list has it.
* Emails are posted, or have failed, within one tick of the poll loop (`PollLoop`), or within `PostTime` (`Notifying`).
* The bridge replays what follows the number it is asked for, or everything when it is asked for another
  process's; its source is not in the repository.
* `RELAYS` lists a name once. Nothing in `registry.py` checks it; listed twice, a relay is built
  twice, with two loops and two locks for one broker account, and `OnePollAtATime` fails with
  `Listings <- {<<"kraken", "kraken">>}` (`NamedOnce` of `PollsDoNotOverlap`).
* The look-back is shorter than the retention and the listener's age no longer (`WithinRetention`). Shorter by a day, because a row
  goes at the hour it was written, while a Flex report lists whole days. Nothing checks it: a
  Flex query reaches up to 365 days back, the default retention is 90; the watermark then is all
  that keeps an old trade from being sent again (section 6).
* No order buys and sells one symbol (`OneSided`). Nothing checks it; the executions that the broker gives no order all have
  the number 0 (section 6).
* For what is said of the watermark: no Flex trade consolidates several executions (`OneFillPerId`); section 6 says what
  becomes of siblings.
* A fetch of the market-data service does not take longer than a cache entry lives (`FetchTime <= CacheTTL`).

## 4. What is proved

Each theorem holds for every value of the constants that the named assumptions admit, and for
behaviours of any length. The assumptions that the code does not guarantee are not ASSUMEs but hypotheses of the
theorems that need them: `SharedIds`, `OneFillPerId`, `SingleFillOrders`, `WithinRetention`, `OneSided`, `NamedOnce`, `FetchTime <= CacheTTL`.

### The debounce buffer

`DebounceBufferProofs` proves, for any number of fills, orders, worker threads, flush tasks and
retries, and with or without debouncing:

| Theorem | Says |
|---|---|
| `TypeCorrect` | `SafetySpec => []TypeOK` |
| `NoFillIsStranded` | `SafetySpec => []NoStrandedFill` |
| `AttemptsOnlyDuringRetries` | `SafetySpec => []AttemptsBelongToARetry` |
| `FillsStayInPlace` | a fill is only ever filed under its own order, in the buffer and in every batch |
| `ImplementsCustody` | `SafetySpec => CustodyOfFills!CustodySafety` |
| `NothingIsLost` | `SafetySpec => []NoSilentLoss` |

*Assumptions:* the named ones of `DebounceBuffer` (`OrderOf` maps fills to orders, the
bounds are natural numbers, flush tasks are not called "listener", "timer" or "nobody"). Sets
need not be finite.

*Argument.* `NoStrandedFill` is inductive given `TypeOK`: every action that puts fills into a
bucket arms a timer in the same step, and every action that takes a timer away, `FlushNext` and
`AddComplete` included, empties the bucket in the same step. That
it is inductive is the point: the code is right because no await separates the two halves.
`AttemptsBelongToARetry` is inductive in the same way; its interesting case is
a failed batch of several orders.

Custody is not inductive alone. A failed send splits its batch by order: each order's fills are
restored or dropped according to that order's count. That this partitions the batch needs
`FillsInPlace`: fills of a bucket belong to its order, and fills of a batch to its orders. With
it, each step is shown to settle exactly the fills it takes out of `Held`: `FlushOrder` moves
fills from the bucket to a thread or reports them, `Sent` delivers a thread's fills, `SendFailed`
returns or reports them; a fill another thread or bucket also has stays held (`again` in
`FillCustody`). `NothingIsLost` then follows from the
refinement's step, by induction over steps with `received` on the side.

### Book trades

`BookTradeProofs` proves, for any number of events, keys, nights, workers and restarts:

| Theorem | Says |
|---|---|
| `TypeCorrect` | `Spec => []TypeOK` |
| `AccountBalances` | `Spec => []EveryRowIsPaidFor` |
| `SuppressionsArePaidFor` | `Spec => []SuppressionIsPaidFor` |
| `FillsAreNeverDropped` | `Spec => []NeverDropped` |

*Assumptions:* `BookTradeAssumption`; events and workers are finite sets, so that they can be
counted.

*Argument.* `SuppressionIsPaidFor` says that the suppressions a path's rows have caused, plus
the row now standing, are no more than the path's notifications. It is not inductive: a
worker that has notified and not yet written its row is about to add one, and two such workers
may hold reports of one key. `EveryRowIsPaidFor` therefore also counts the workers that still
owe a row (`Owing`). A successful notification raises the right side by at least as much as the
left; writing the row moves one unit within the left side, or drops it when the row is only
refreshed; consuming moves one from the row to the suppressions; a crash forgives what is owed.

`NeverDropped` says that the events of a key a path has on record are no more than the notifications of both
paths. `EveryRecordIsPaidFor` says of which: they are no more than what was notified on this path plus the suppressions that
the other path's rows have caused, which `SuppressionIsPaidFor` bounds by the other's notifications. It also counts the events a worker has notified and not
yet put on record (`Answered`), each once, although two workers may hold the same event: the count is of the set. A
notification adds at most its batch on both sides, a consumed row one event and one suppression, and
a record only moves an event within the set.

### Delivery

`DeliveryProofs` proves, for any number of threads, fills, trades, orders and restarts, and for
every way the two feeds identify them:

| Theorem | Says |
|---|---|
| `TypeCorrect` | `SafetySpec => []TypeOK` |
| `RegistryIsExact` | `SafetySpec => []RegistryCountsSends` |
| `SendsStayVisible` | `SafetySpec => []SendsAreVisible` |
| `TableIsHonest` | `SafetySpec => []RecordInv`: a row of the listener's is of a delivered fill that goes by its id, a row of the poller's of a delivered trade |
| `MarkedWasDelivered` | `SafetySpec => []MarkedIsDelivered` |
| `NeverRepeated` | `SharedIds => (SafetySpec => []NoRepeatAfterMark)` |
| `StaysInReach` | `SingleFillOrders /\ OneFillPerId => (SafetySpec => []UndeliveredStaysInReach)` |
| `WatermarkNeverGoesBack` | `SafetySpec => [][watermark' >= watermark]_vars` |
| `ImplementsPromise` | `SharedIds /\ OneFillPerId /\ SingleFillOrders => (SafetySpec => KeepsItsPromise)` |

*Assumptions:* `IdentityAssumption` (the constants' types), `ThreadsAssumption` (finitely many
threads), `BoundAssumption`, and, for all that is said about the table's rows, `DistinctIdsAssumption`: no fill has the id of another or goes by it, no two
trades have the same, and a REST id that a fill goes by is that of the fill's own trade. That is what Kraken's and IBKR's
feeds are expected to do. Sibling executions may share an alias and a trade.

*Hypotheses.* `OneFillPerId`: a trade whose REST id some fill goes by is that fill alone. Siblings that share an alias break it,
and the poller then takes one's row for all of them (section 6). `SharedIds`: a trade's REST id is the id, or an alias, of each of its fills. IBKR's
combo legs have aliases for this; a Kraken trade that consolidates several fills breaks it, and
repeats (section 6). `SingleFillOrders`: an order id that both feeds use is of an order matched once. IBKR satisfies it
because its feeds share no order ids, Kraken where an order fills at once; `delivery_partial` is the
counterexample without it. Each hypothesis holds of the run that checks its property.

*Argument.* `SendsAreVisible` is not inductive, because releasing one send must leave the count
above zero for another. `RegistryCountsSends` says that an order's count is the number of
threads between register and release with that order in their batch; then the guard of
`Released` (never below zero) is never needed. `MarkedIsDelivered` needs to know who wrote a row:
`RowsRecordDeliveries` says that a row with an order id was written for a delivered fill that is
known by this id, and one without for a delivered trade. The listener counts a row under an alias only
if the poller wrote it, so it stands for the whole trade, this fill included; the poller counts every row, so for it
`MarkedIsDelivered` says less of a trade of several fills: that some of them are delivered.

`NoRepeatAfterMark` follows from `RepeatInv`: a recorded fill is in the table under the id the poller
looks for, and what a thread or a cycle goes on with was not on record at its first look. The poller
finds such a row by construction; that the listener finds it too is the step that needs
`SharedIds`: either the poller wrote it, or it came with a row under the listener's own id. That this is the same fill's is
where siblings come in: the property leaves those out for the listener's sends, where the code accepts a duplicate ("a wrong
alias degrades to a duplicate webhook"), and speaks of them for the poller's.

`UndeliveredStaysInReach` is about the watermark, and `ReachInv` follows a cycle through its steps: what is
undelivered and older than a trade the cycle is about to send is in the cycle too, sent or deferred
(`CycleLeavesNothing`). A dedup that drops a trade keeps this only if what it drops was delivered: for the exec-level
dedup by `TableIsHonest` and `OneFillPerId`, for the order-level one by `SingleFillOrders`. The new watermark is then at most the oldest
deferred trade's time and at most the newest one sent, for which the module proves that `Min` and `Max` are the
least and the greatest of the times they are taken of.

`WatermarkNeverGoesBack` needs the other bound. What a cycle has in hand or defers is no older than the watermark it
began at (`CycleAtWatermark`), and the least deferred and the greatest sent time are among those; nobody but the cycle
writes the watermark, and a restart reads back what was written.

`ImplementsPromise` puts these together. The steps that look something up are the ones that need an invariant: that nobody
takes up a fill on record is `NoRepeatAfterMark`'s argument at the lookup itself, that a mark records only what was delivered
is `RecordInv`, and that the watermark passes only what was delivered is `ReachInv` with `WatermarkNeverGoesBack`. Every
other step moves one sender's hand, or nobody's (`OneHandMoves`). The three hypotheses are the three ways in
which the code does not keep the promise for every feed.

### Poll loop

`PollLoopProofs` proves, for every pause, threshold and cooldown and any number of on-demand
polls:

| Theorem | Says |
|---|---|
| `EmailsAreJustified` | `Spec => []EmailInv` |
| `BlipsAreSilent` | `Spec => []BlipsStaySilent` |
| `OnlyAnEmailSuppresses` | `Spec => []SuppressedOnlyByAnEmail` |
| `LockHasOneLine` | `Spec => []LockInv`: a task stands at the lock once, nobody waits for a free lock, the loop stands there exactly while it polls |
| `NobodyOvertakesTheLoop` | `Spec => LoopKeepsItsPlace`: an action property, stated in the proof module |
| `TypeCorrect` | `Spec => []TypeOK` |

*Argument.* An outage email is decided on the age of the failure streak, the property speaks of the
last success; `StreakIsYoung` relates the two (a streak starts after the last success, and both ages are
cut off at the same threshold). The claim's invariant holds because the three ends of a post
restore it: a received email lets the claim stand, a failed one rolls it back, and between two
posts nobody touches it. This is the alerter with the poll loop as its one sender; what several senders of one key do to each
other is `Notifying`. The lock's queue is left out of that invariant (`AgesTyped`): nothing
about emails depends on it. The queue has an invariant of its own, `LockInv`: a release hands the lock to the first
waiter, who is somebody and not the holder, and a request that gives up leaves the queue at its place, wherever that is, and
moves nobody else but those behind, by one (`GivingUpMovesTheRestUp`). From it follows
`LoopKeepsItsPlace`, the part of `LoopKeepsPolling` that is not fairness: nobody gets in front of a loop that
waits, so the requests ahead of it only become fewer, and its wait ends with the lock. That they do become fewer is
liveness, and TLC's.

### Notifying

`NotifyingProofs` proves, for any number of threads, destinations and retries, and every cooldown:

| Theorem | Says |
|---|---|
| `TypeCorrect` | `Spec => []TypeOK` |
| `OutcomesAreTrue` | `Spec => []OutcomeIsTrue` |
| `ClaimsBelongToEmails` | `Spec => []AlertInv` |
| `EmailsHoldTheirCooldown` | `Spec => []EmailHoldsItsCooldown` |
| `OnlyEmailsSuppress` | `Spec => []SuppressedOnlyByAnEmail` |

*Assumptions:* `NotifyingAssumption` (there is a destination, the bounds are natural numbers) and
`ThreadsAssumption` ("nobody" is no thread). Threads may be infinitely many, and a post may take longer than the cooldown.

*Argument.* The outcome is computed at the end of a loop; `LoopSettles` is its loop invariant: every
destination before the one in hand has confirmed or failed, that one too while its alert is under way. For the
alerts, `PostsKeepTheirClaims` says what a thread may rely on while it posts outside the lock: it
owns its claim, which is as old as its post, and no email of the key is young; or another thread has taken the
key, which it could only do after the cooldown, so that the thread's email will silence nothing. Then a rollback
of one's own claim never takes a delivered email's cooldown away, and a rollback of
whatever claim the key holds would, which is the mutant of `EmailHoldsItsCooldown`.

### The listener session

`ListenerSessionProofs` proves, for any number of bridge processes, events, faults and stops, and any mix of
bridges with and without ids:

| Theorem | Says |
|---|---|
| `TypeCorrect` | `Spec => []TypeOK` |
| `ResumeIsComplete` | `Spec => []NothingSkipped`: of the position of a connection |
| `CursorsAreTrue` | `Spec => [](ClaimsOnlyReceived(cursor) /\ ClaimsOnlyReceived(saved))`: of the cursor, in memory and on disk |

*Assumptions:* `SessionAssumption` (the bounds are natural numbers, at least one process).

*Argument.* `NothingSkipped` speaks of the moment a replay starts. The invariant has to say what a cursor means at
any time: `ResumeInv` says that a cursor that names the running bridge has nothing before its number that the
relay did not receive, but for what it was never to see (`blind`), and that the position of a
connection is as good. Only of the *running* bridge: of an earlier one a cursor may claim too
much, because the events of a bridge without ids move its number and leave its id. `CursorInv`
makes this harmless: no cursor names a process later than the one it was connected to, and a
process does not run twice. A failed write leaves `saved` behind, never ahead, and a stop falls back
to it.

### What stands around the engines

`PeripheryProofs` and `OperationsProofs` are about `Periphery`. One lemma, `StepsApart`, says that a step of it is a step
of one part and a stutter of the others; every other proof is then about one part.

| Theorem | Says |
|---|---|
| `RowsOutliveTrades`, `NothingComesBack` | `WithinRetention => (Spec => []PrunedIsOutOfReach)`, by `RowsOutlive` |
| `NoncesFollowTheLock`, `NoncesStayAbove` | `Spec => []NonceStaysAbove`, by `NonceInv` |
| `PagesFollowTheOffset`, `FetchIsComplete` | `Spec => []FetchMissesNoTrade`, by `KrakenInv` |
| `SeenFollowsTheFills`, `OneFillForEachExecution` | `Spec => []EachExecutionOnce`, by `FlexInv` |
| `OnlyTakenExecutions` | `Spec => []TradingInv`: what is buffered or marked was reported and is of the kind the adapter takes |
| `TradesAddUp`, `ConsumersHoldThePosition` | `OneSided => (Spec => []ConsumerHoldsThePosition)`, by `PositionInv` |
| `LocksComeFirst`, `PollsDoNotOverlap` | `NamedOnce => (Spec => []OnePollAtATime)`, by `StartInv` |
| `CacheFollowsWhatIsServed`, `AnswersNeverGoBack` | `FetchTime <= CacheTTL => (Spec => NeverGoesBack)`, by `MarketInv`; an action property |
| `CachesAreTrue`, `RatesHandedOutAreTrue` | `Spec => []RatesAreTrue`, by `RatesInv` |
| `CopiesBeforeDeletes`, `StateOutlivesCommands` | `Spec => []StateIsKept`, by `CloudInv` |
| `TypeCorrect` | `Spec => []TypeOK`, of all nine parts |

*Assumptions:* one named ASSUME per part, in `Periphery`, on the types of its constants. For the executions of an
account it says that they are finitely many, that an id which can be read names one of them, that volumes are unsigned, and
that a defect is one the execution's type can have. Threads, currencies and tickers may be infinitely many.

*Arguments.*
* *Retention.* `Remembered`: a row is no older than its trade, and a trade whose row was pruned was made longer ago than the
  retention. Neither the report nor the listener brings such a trade in, so what a path takes has its row if it ever had one.
  `InReach` says it of what a path has in hand, through lookup, notify and mark: between taking and marking no row can go, because a
  prune comes with a restart, which empties the hands. What was sent and not marked when the process died has no row and is not spoken of.
  The watermark does not occur in the invariant: it saves work, not duplicates.
* *Kraken's nonces.* A thread with a request under way holds the lock, so at most one is
  out, and the last nonce is the one that is out and no lower than any Kraken has
  accepted of this process. `NextNonce` exceeds the last one however the clock stands.
  Before the first accepted nonce there is no such bound: a process that starts with its clock set back is refused
  until the clock has caught up, which the property leaves out and the code accepts.
* *Kraken's fetch.* `PagesHold`: the pages so far have every trade of the beginning that is among the newest `offset`
  ones. Trades made meanwhile only raise the count, so pages overlap and never gap; the offset
  grows by what a page held, at most `PageSize`, and an empty page means that the offset is past the oldest.
* *The Flex report.* `seen` has exactly the executions of the fills, no two fills share one, and every row
  already looked at shows a fill or an error. Looking at a row keeps this wherever the row stands, so the
  order of tags and rows does not matter to the invariant; it holds for every report.
* *What a consumer adds up.* `PositionInv` says that a reported execution waits in the buffer or is on record;
  that a trade's executions are on record once it is sent; and that, symbol by symbol, what was sent adds up to what is on record.
  A flush sends trades of executions that are not on record, so none of them is one that was sent before,
  and a set of trades loses nothing by being a set. The two sums grow by the same: the new trades' volumes, each of which
  is the sum of the volumes of its group, and the groups partition what the flush records. That a trade's volume is its group's
  sum is where `OneSided` comes in: only a sum that has the sign of the last fill's side survives the second application of the
  sign convention.
* *Start-up.* `MadeInOrder` is `amain`'s order, one conjunct per thing made; a poll runs only once the API is open or the
  loops are, which is after the locks. Two polls of a relay listed once are two polls of
  one poller, and hold one lock.
* *Market data.* An entry of the cache is what was served last, and what a thread has fetched is no older than
  what was served, *unless* an entry has been made since its fetch, which is then still young enough
  to be served instead. That last clause is where `FetchTime <= CacheTTL` is needed, and it is why `Keep` looks again.
* *Rates.* A row is the provider's rate for its key, in memory and in the database, whoever wrote it, and
  a database row of another base is of another key. The latest rates are dated from before they were asked for, so
  they are never younger in the cache than in truth.
* *The droplet.* A snapshot equals its droplet's disk from the moment it is asked for, because the droplet is off and
  only a running one writes; so the droplet may go when the snapshot is finished. A resume's droplet has what the
  snapshot has before the snapshot goes. Both hold of the *command*, so a command that dies takes nothing with
  it but its own promise.

*Sums.* The provers cannot instantiate an induction theorem with a predicate. Where a finite set has to be argued about, as for its
greatest element in `Delivery`, the proofs refute a least counterexample, which the well-founded order of the naturals
gives. `AllSubsetsReached` does this once for subsets: a *set* of subsets that has the empty one, and has a
subset when it has all that lack one of its elements, has them all. With it `PeripheryProofs` shows what the model's sums
compute: that the function the fold recurses with exists and agrees with itself on smaller sets (`AdderExists`, `AddersAgree`), so
that a sum is an element and the sum of the rest (`SumOneByOne`), whichever element is taken
first (`SumAnyOrder`); that it depends on the values alone (`SumRenamed`, `SumSame`); and that the sum
of two disjoint sets is that of their sums (`SumTogether`).

## 5. Only model-checked

Every invariant of the passing runs has a theorem in section 4, and so have the safety part of `KeepsCustody`,
`NeverGoesBack` and `KeepsItsPromise`. What is left to TLC is

* liveness: `AtLeastOnce`, `LoopKeepsPolling`, `LastingOutageIsReported`,
  `CatchesUp`, `LastingOutageIsNoticed`, `FailingDestinationIsReported`, `EveryTradeComesIn`,
  `PausedComesBack`, and of `KeepsCustody` the part that says that no fill stays forever. All of them rest on fairness, which is ENABLED;
* the disagreements of section 6, four of which are what happens without a hypothesis: `SingleFillOrders` (`delivery_partial`),
  `OneFillPerId`, `OneSided` and `WithinRetention`.

## 6. Where code and text disagree

Shown by a run:

1. `delivery_partial` (`UndeliveredStaysInReach`): an order fills twice, the listener delivers
   the first fill and never the second. The order-level dedup skips the second without
   deferring it, and another trade of the same cycle moves the watermark past it. The repository's README
   says "at-least-once, never at-most-once".
2. `book_nights` (`RecordedIsTold`): the 18-hour window runs from when a row was written, not
   from the event; a report that is processed late can consume the row of the next night's
   equal, distinct event.
3. `session_stop` (`UndeliveredIsReplayed`): the bridge's cursor is written on receipt, the fills wait in
   a buffer that is not persisted. After a stop in between, the next start asks for what follows,
   and only a poller, if one is enabled, can still deliver the fill. The repository's README says that the cursor is
   "persisted across relay restarts, so the bridge replays exactly the events the relay missed".

Seen while modelling, without a run of its own; the first three are what TLC shows when an instance is changed as said:

* Two executions share the alias Flex has for them, and the listener delivers one. Its row under the alias makes the
  poller, which matches ids without asking who wrote the row (`relay_core/poller_engine.py:387`), drop the trade of both, and a
  later trade moves the watermark past it. `.github/instructions/relay_core.instructions.md:38` says that "a wrong alias
  degrades to a duplicate webhook, never a missed fill". With `TradeTime <- TwoTimes`, `MCDelivery_ibkr` has it as a
  violation of `UndeliveredStaysInReach`. The model takes from `_send_and_mark` and its tests that such siblings exist, and that
  Flex has one trade for them.
* A sale of 3 and a later purchase of 1 that have one order id and symbol are one group, and `Trade`'s validator gives their sum the
  sign of the last fill's side: +2, not -2 (`shared/models.py:246`). Its docstring says that the convention
  "survives aggregation unchanged". Executions that the broker gives no order share the id 0. Added to the account
  of `MCPeriphery`, such a purchase violates `ConsumerHoldsThePosition`.
* With a look-back of the retention or more, which the settings allow, a trade the
  listener sent is listed after its row is gone and sent again, should the watermark not hide it. `README.md:834` says: "The SQLite dedup
  prevents double-sending". With `Lookback = 2`, `MCPeriphery` violates `PrunedIsOutOfReach`: by the hours of the last day.
* `flush` takes the timer of an order that is being sent out of its slot without cancelling it
  (`relay_core/listener_engine.py:806`). If that send fails, the batch is restored under a retry timer,
  and the forgotten timer sends it before its backoff is over. The docstring says that such
  orders are left to their timer. Nothing is lost: `orphans` in `DebounceBuffer` are these timers.
* A consolidated trade is skipped but not marked by the order-level dedup
  (`relay_core/poller_engine.py:401`), so it is sent after all once two intervals have passed and no later
  trade has moved the watermark.
* The recovery email is attempted once, under a cooldown of its own that runs from the previous
  recovery, and is not retried (`relay_core/health.py:210`).
* Nothing tells a page of Kraken's history without a `count` from the last one (`relays/kraken/__init__.py:169`). The poll hands
  over what it has, and if one of those trades is sent, the watermark moves past the older ones that were on the pages
  not asked for. `EveryTradeComesIn` is about what is handed to the engine, not about its watermark.
* Fills of a Flex report without an order id are in no trade (`aggregate_fills`), so a poll that finds only
  such fills sends a payload without trades, and marks them.

## 7. Not modelled

* In `DebounceBuffer`: fire-and-forget fills of `_send_no_mark`, which only pass the stale-fill
  filter (`Executions` has them as preliminary trades); cancellation of `_flush_order` and the final
  drain, which only a shutdown meets. The deployed process ends on SIGTERM without running it, so a
  stop is a crash in `Delivery` and `ListenerSession`.
* In `Delivery`: replay mode, which bypasses the watermark by design; the timestamp cross-check,
  which only logs; a relay without notifiers, where notify
  succeeds at once; the book-trade step, which is `BookTrade`; pruning, which is `Retention`.
* In `Notifying`: the delivery id and the signature, computed from the payload alone.
* In the adapters: the conversion of fields (currencies, fees, prices, times, numbers), and of `shared` the sums
  of cost and fee and the weighted price.
* In `FxRates`: the arithmetic of a rate. In `MarketData`: the routes' validation, `clear_cache`, and
  the reading of Yahoo's document.
* In `Lifecycle`: the shared deployment, whose droplet another project owns, and `sync`, which copies files.
* `reset-db`, which asks for a table that remembers nothing, and `test-webhook`, which sends a sample.
* The debug inbox (one deque on one event loop), the audit log (output), infrastructure, code
  generators and the sanity check (build tooling that shells out to other programs).

## 8. Plan

Models, in the order of what matters most:

1. The composition of `ListenerSession` with `RelayPromise`: what a stop takes from the buffer, a poll cycle brings back.
2. The drain on cancellation, should the process ever handle SIGTERM.
3. `Delivery` with replay mode, and with several aliases of one execution.

Proofs: the safety properties of the passing runs are proved. Next to state and prove: that a standing alert claim and an
outage streak are in step across the two modules that have them; with the composition of step 1, that a stop and the cycles
after it keep the promise together.
