------------------------------- MODULE Startup -------------------------------
(***************************************************************************)
(* The relay process comes up (relay_core/main.py, registry.py,            *)
(* context.py): relays are loaded as the environment names and configures  *)
(* them, then the database is pruned, the pollers' locks made, the API     *)
(* opened and the poll loops started, in that order.  An error of the      *)
(* configuration ends the process.  From the moment the API is open, polls *)
(* on demand (routes/__init__.py) and the loops' own overlap.              *)
(* What a poll does is in Delivery, what the loops do over time in         *)
(* PollLoop.                                                               *)
(***************************************************************************)
EXTENDS Naturals, Sequences, FiniteSets

CONSTANTS
    Listings,  \* what the variable RELAYS may list: sequences of names
    Requests   \* polls on demand

VARIABLES
    step,     \* where amain stands
    listing,  \* RELAYS
    relays,   \* the relays built so far, in the order of the listing
    context,  \* the names of the relay map
    locks,    \* positions of the relays whose poll_locks are made
    loops,    \* the poll loops that run: position of the relay, index of the poller
    polls,    \* polls under way: who polls what
    answer    \* what the API last answered each request

vars == <<step, listing, relays, context, locks, loops, polls, answer>>

-----------------------------------------------------------------------------
(* Configuration: the variables that are set *)

IbkrVars == {"POLLER_DISABLED", "FLEX_TOKEN", "FLEX_QUERY_ID", "FLEX_TOKEN_2", "FLEX_QUERY_ID_2",
             "ACCOUNT_TIMEZONE", "LISTENER_ENABLED", "BRIDGE_WS_URL", "BRIDGE_API_TOKEN"}
KrakenVars == {"POLLER_DISABLED", "LISTENER_ENABLED", "API_KEY", "API_SECRET"}
NotifierVars == {"NOTIFIERS", "TARGET_WEBHOOK_URL", "WEBHOOK_SECRET", "DEBUG_WEBHOOK_PATH"}

One(condition) == IF condition THEN 1 ELSE 0

\* Exit stands for SystemExit, whatever its message.
Exit == [exits |-> TRUE, pollers |-> 0, listens |-> FALSE]
Relay(pollers, listens) ==
    IF pollers = 0 /\ ~listens THEN Exit ELSE [exits |-> FALSE, pollers |-> pollers, listens |-> listens]

\* _build_poller_configs: with any credential of Flex at all, half of one is an error.
IbkrPolls(env) == "POLLER_DISABLED" \notin env
                  /\ env \cap {"FLEX_TOKEN", "FLEX_QUERY_ID", "FLEX_QUERY_ID_2"} # {}

IbkrPollers(env) ==
    IF IbkrPolls(env)
    THEN One({"FLEX_TOKEN", "FLEX_QUERY_ID"} \subseteq env) + One("FLEX_QUERY_ID_2" \in env)
    ELSE 0

IbkrPollersFail(env) ==
    /\ IbkrPolls(env)
    /\ \/ "ACCOUNT_TIMEZONE" \notin env
       \/ Cardinality(env \cap {"FLEX_TOKEN", "FLEX_QUERY_ID"}) = 1
       \/ "FLEX_QUERY_ID_2" \in env /\ env \cap {"FLEX_TOKEN", "FLEX_TOKEN_2"} = {}

IbkrListenerFails(env) ==
    "LISTENER_ENABLED" \in env /\ ~({"BRIDGE_WS_URL", "BRIDGE_API_TOKEN"} \subseteq env)

IbkrBuilt(env) ==
    IF IbkrPollersFail(env) \/ IbkrListenerFails(env)
    THEN Exit ELSE Relay(IbkrPollers(env), "LISTENER_ENABLED" \in env)

\* The one client of both threads needs both credentials, or there is none.
KrakenBuilt(env) ==
    LET credentials == env \cap {"API_KEY", "API_SECRET"}
    IN  IF Cardinality(credentials) = 1 \/ (credentials = {} /\ "LISTENER_ENABLED" \in env)
        THEN Exit
        ELSE Relay(One(credentials # {} /\ "POLLER_DISABLED" \notin env), "LISTENER_ENABLED" \in env)

Built(name) ==
    IF name = "ibkr" THEN {IbkrBuilt(env) : env \in SUBSET IbkrVars}
                     ELSE {KrakenBuilt(env) : env \in SUBSET KrakenVars}

\* No notifier is a dry run; the webhook needs somewhere to go and a secret.
NotifiersFail(env) ==
    /\ "NOTIFIERS" \in env
    /\ "WEBHOOK_SECRET" \notin env \/ env \cap {"TARGET_WEBHOOK_URL", "DEBUG_WEBHOOK_PATH"} = {}

-----------------------------------------------------------------------------
Init ==
    /\ step = "names" /\ listing \in Listings
    /\ relays = <<>> /\ context = {} /\ locks = {} /\ loops = {} /\ polls = {}
    /\ answer = [q \in Requests |-> "none"]

\* Mutant: the API is opened before the locks are made.
ServesFirst == <<"names", "load", "context", "prune", "serve", "locks", "tasks", "running">>

\* amain's order.
Order == <<"names", "load", "context", "prune", "locks", "serve", "tasks", "running">>

Passed(s) == \E i, j \in DOMAIN Order : Order[i] = s /\ Order[j] = step /\ i < j
Done(s) == step = s /\ step' = Order[(CHOOSE i \in DOMAIN Order : Order[i] = s) + 1]

\* SystemExit, or an exception nobody catches: the process is gone.
Exits ==
    /\ step' = "exited" /\ polls' = {} /\ loops' = {}
    /\ UNCHANGED <<listing, relays, context, locks, answer>>

GetRelayNames ==
    IF \A i \in DOMAIN listing : listing[i] \in {"ibkr", "kraken"}
    THEN Done("names") /\ UNCHANGED <<listing, relays, context, locks, loops, polls, answer>>
    ELSE step = "names" /\ Exits

\* A relay's notifiers and numbers are read before it is built, all of them from the environment.
LoadRelay ==
    LET name == listing[Len(relays) + 1]
    IN  /\ step = "load" /\ Len(relays) < Len(listing)
        /\ \E notifiers \in SUBSET NotifierVars, relay \in Built(name), numbersAreValid \in BOOLEAN :
              IF NotifiersFail(notifiers) \/ relay.exits \/ ~numbersAreValid
              THEN Exits
              ELSE /\ relays' = Append(relays, [name |-> name, pollers |-> relay.pollers,
                                                listens |-> relay.listens])
                   /\ UNCHANGED <<step, listing, context, locks, loops, polls, answer>>

Loaded ==
    /\ Len(relays) = Len(listing) /\ Done("load")
    /\ UNCHANGED <<listing, relays, context, locks, loops, polls, answer>>

\* The map of names, then the relays' start-up hooks, which only add log filters.
InitRelays ==
    /\ Done("context")
    /\ context' = {relays[i].name : i \in DOMAIN relays}
    /\ UNCHANGED <<listing, relays, locks, loops, polls, answer>>

\* See Retention.  DEDUP_RETENTION_DAYS may be wrong, or the database out of order.
Prune ==
    \/ Done("prune") /\ UNCHANGED <<listing, relays, context, locks, loops, polls, answer>>
    \/ step = "prune" /\ relays # <<>> /\ Exits

MakeLocks ==
    /\ Done("locks")
    /\ locks' = DOMAIN relays
    /\ UNCHANGED <<listing, relays, context, loops, polls, answer>>

\* API_PORT may be wrong, or taken.
StartApi ==
    \/ Done("serve") /\ UNCHANGED <<listing, relays, context, locks, loops, polls, answer>>
    \/ step = "serve" /\ Exits

Pollers == {p \in (DOMAIN relays) \X (1..2) : p[2] <= relays[p[1]].pollers}

StartTasks ==
    /\ Done("tasks")
    /\ loops' = Pollers
    /\ UNCHANGED <<listing, relays, context, locks, polls, answer>>

-----------------------------------------------------------------------------
(* Polls.  The API knows a relay by its name: of two, the later one. *)

Serving == Passed("serve") /\ step # "exited"
Held(p) == \E poll \in polls : poll.of = p /\ poll.locked

LoopPolls(p) ==
    /\ p \in loops /\ ~Held(p)
    /\ \A poll \in polls : poll.by # p
    /\ polls' = polls \cup {[by |-> p, of |-> p, locked |-> TRUE]}
    /\ UNCHANGED <<step, listing, relays, context, locks, loops, answer>>

LoopPolled(p) ==
    /\ \E poll \in polls : poll.by = p
    /\ polls' = {poll \in polls : poll.by # p}
    /\ UNCHANGED <<step, listing, relays, context, locks, loops, answer>>

Addressed == {p \in Pollers : \A i \in DOMAIN relays : relays[i].name = relays[p[1]].name => i <= p[1]}

Answers(q, a) ==
    /\ answer' = [answer EXCEPT ![q] = a]
    /\ UNCHANGED <<step, listing, relays, context, locks, loops>>

\* No token, no such relay or poller, or a body that is not what it should be.
PollRefused(q) ==
    /\ Serving /\ \A poll \in polls : poll.by # q
    /\ Answers(q, "refused") /\ UNCHANGED polls

\* The lock cannot be had within 10 ms.
PollBusy(q, p) ==
    /\ Serving /\ p \in Addressed /\ \A poll \in polls : poll.by # q
    /\ p[1] \in locks /\ Held(p)
    /\ Answers(q, "busy") /\ UNCHANGED polls

\* `if relay.poll_locks else None`: without locks the poll goes ahead.
PollBegins(q, p) ==
    /\ Serving /\ p \in Addressed /\ \A poll \in polls : poll.by # q
    /\ p[1] \in locks => ~Held(p)
    /\ Answers(q, "none")
    /\ polls' = polls \cup {[by |-> q, of |-> p, locked |-> p[1] \in locks]}

PollEnds(q) ==
    /\ \E poll \in polls : poll.by = q
    /\ polls' = {poll \in polls : poll.by # q}
    /\ \E a \in {"trades", "fetch failed", "error"} : Answers(q, a)

-----------------------------------------------------------------------------
Next ==
    \/ GetRelayNames \/ LoadRelay \/ Loaded \/ InitRelays \/ Prune \/ MakeLocks \/ StartApi \/ StartTasks
    \/ \E p \in Pollers : LoopPolls(p) \/ LoopPolled(p)
    \/ \E q \in Requests : \/ PollRefused(q) \/ PollEnds(q)
                           \/ \E p \in Pollers : PollBusy(q, p) \/ PollBegins(q, p)

Spec == Init /\ [][Next]_vars

-----------------------------------------------------------------------------
TypeOK ==
    /\ step \in {Order[i] : i \in DOMAIN Order} \cup {"exited"}
    /\ Len(relays) <= Len(listing)
    /\ \A i \in DOMAIN relays : relays[i].pollers \in 0..2 /\ (relays[i].pollers > 0 \/ relays[i].listens)
    /\ Passed("context") => context = {relays[i].name : i \in DOMAIN relays}
    /\ locks \subseteq DOMAIN relays /\ loops \subseteq Pollers
    /\ \A poll \in polls : poll.of \in Pollers /\ poll.by \in Requests \cup loops

(* main.py: "before the API server so handle_poll() always sees them (avoids lockless
   on-demand polls during startup)".  Whenever a request comes, while the process
   starts or later, no poller of a relay is polled twice at a time. *)
OnePollAtATime ==
    \A a, b \in polls :
        relays[a.of[1]].name = relays[b.of[1]].name /\ a.of[2] = b.of[2] => a = b
=============================================================================
