-------------------------- MODULE OperationsProofs --------------------------
(***************************************************************************)
(* Theorems about what stands around the engines, for every value of the   *)
(* nine parts' parameters, continued: the start of the process, and the    *)
(* market-data service, the rates, the droplet's life.                     *)
(***************************************************************************)
EXTENDS PeripheryProofs

-----------------------------------------------------------------------------
(* The process comes up (Startup). *)

USE StartAssumption

RelayRecord == [name : STRING, pollers : 0..2, listens : BOOLEAN]

(* The relays are the first of the listing, in its order, each with something to do. *)
RelaysTyped ==
    /\ listing \in Listings /\ relays \in Seq(RelayRecord) /\ Len(relays) <= Len(listing)
    /\ \A i \in 1..Len(relays) : relays[i].name = listing[i] /\ (relays[i].pollers > 0 \/ relays[i].listens)

(* What has been made by each step of amain, and not before. *)
MadeInOrder ==
    /\ step \in {"names", "load", "context", "prune", "locks", "serve", "tasks", "running", "exited"}
    /\ step \in {"prune", "locks", "serve", "tasks", "running"} => context = {relays[i].name : i \in 1..Len(relays)}
    /\ locks \subseteq 1..Len(relays)
    /\ step \in {"serve", "tasks", "running"} => locks = 1..Len(relays)
    /\ loops \subseteq Start!Pollers /\ (step # "running" => loops = {})
    /\ step \notin {"tasks", "running"} => polls = {}

(* A poll has its poller's lock, and no two have the same. *)
PollsLocked ==
    /\ \A poll \in polls : poll \in [by : OnDemand \cup loops, of : Start!Pollers, locked : {TRUE}]
    /\ \A a, b \in polls : a.of = b.of => a = b

StartInv == RelaysTyped /\ MadeInOrder /\ PollsLocked

LEMMA OrderOfSteps ==
    /\ DOMAIN Start!Order = 1..8
    /\ Start!Order[1] = "names" /\ Start!Order[2] = "load" /\ Start!Order[3] = "context"
    /\ Start!Order[4] = "prune" /\ Start!Order[5] = "locks" /\ Start!Order[6] = "serve"
    /\ Start!Order[7] = "tasks" /\ Start!Order[8] = "running"
BY DEF Start!Order

(* The API is open from the step after "serve" on, the context there from the one after
   "context" on. *)
LEMMA StepsPassed ==
    /\ Start!Passed("serve") <=> step \in {"tasks", "running"}
    /\ Start!Passed("context") <=> step \in {"prune", "locks", "serve", "tasks", "running"}
<1>1. \A i \in 1..8 : Start!Order[i] = "serve" <=> i = 6
  BY OrderOfSteps
<1>2. \A i \in 1..8 : Start!Order[i] = "context" <=> i = 3
  BY OrderOfSteps
<1>3. Start!Passed("serve") <=> \E j \in 1..8 : Start!Order[j] = step /\ 6 < j
  BY <1>1, OrderOfSteps DEF Start!Passed
<1>4. Start!Passed("context") <=> \E j \in 1..8 : Start!Order[j] = step /\ 3 < j
  BY <1>2, OrderOfSteps DEF Start!Passed
<1>5. \A j \in 1..8 : 6 < j <=> j = 7 \/ j = 8
  OBVIOUS
<1>6. \A j \in 1..8 : 3 < j <=> j = 4 \/ j = 5 \/ j = 6 \/ j = 7 \/ j = 8
  OBVIOUS
<1>7. Start!Passed("serve") <=> step \in {"tasks", "running"}
  BY <1>3, <1>5, OrderOfSteps
<1>8. Start!Passed("context") <=> step \in {"prune", "locks", "serve", "tasks", "running"}
  BY <1>4, <1>6, OrderOfSteps
<1> QED
  BY <1>7, <1>8

(* A step that is done is followed by the next one. *)
LEMMA StepsFollow ==
    ASSUME NEW n \in 1..7, Start!Done(Start!Order[n])
    PROVE  step = Start!Order[n] /\ step' = Start!Order[n + 1]
<1>1. \A i \in 1..8 : Start!Order[i] = Start!Order[n] => i = n
  BY OrderOfSteps
<1>2. (CHOOSE i \in DOMAIN Start!Order : Start!Order[i] = Start!Order[n]) = n
  BY <1>1, OrderOfSteps
<1> QED
  BY <1>2 DEF Start!Done
(* What amain's steps do, one by one. *)
LEMMA StepsOfAmain ==
    /\ Start!Done("names") => step = "names" /\ step' = "load"
    /\ Start!Done("load") => step = "load" /\ step' = "context"
    /\ Start!Done("context") => step = "context" /\ step' = "prune"
    /\ Start!Done("prune") => step = "prune" /\ step' = "locks"
    /\ Start!Done("locks") => step = "locks" /\ step' = "serve"
    /\ Start!Done("serve") => step = "serve" /\ step' = "tasks"
    /\ Start!Done("tasks") => step = "tasks" /\ step' = "running"
<1>1. \A n \in 1..7 : Start!Done(Start!Order[n]) => step = Start!Order[n] /\ step' = Start!Order[n + 1]
  BY StepsFollow
<1>2. /\ Start!Done(Start!Order[1]) => step = Start!Order[1] /\ step' = Start!Order[2]
      /\ Start!Done(Start!Order[2]) => step = Start!Order[2] /\ step' = Start!Order[3]
      /\ Start!Done(Start!Order[3]) => step = Start!Order[3] /\ step' = Start!Order[4]
      /\ Start!Done(Start!Order[4]) => step = Start!Order[4] /\ step' = Start!Order[5]
      /\ Start!Done(Start!Order[5]) => step = Start!Order[5] /\ step' = Start!Order[6]
      /\ Start!Done(Start!Order[6]) => step = Start!Order[6] /\ step' = Start!Order[7]
      /\ Start!Done(Start!Order[7]) => step = Start!Order[7] /\ step' = Start!Order[8]
  BY <1>1
<1> QED
  BY <1>2, OrderOfSteps

(* build_relay: a relay that is built has a poller or a listener. *)
LEMMA BuiltHasWork ==
    ASSUME NEW name, NEW relay \in Start!Built(name), ~relay.exits
    PROVE  relay.pollers \in 0..2 /\ relay.listens \in BOOLEAN /\ (relay.pollers > 0 \/ relay.listens)
<1>1. ASSUME NEW pollers \in 0..2, NEW listens \in BOOLEAN, relay = Start!Relay(pollers, listens)
      PROVE  relay.pollers \in 0..2 /\ relay.listens \in BOOLEAN /\ (relay.pollers > 0 \/ relay.listens)
  <2>1. relay # Start!Exit
    BY DEF Start!Exit
  <2>2. ~(pollers = 0 /\ ~listens) /\ relay = [exits |-> FALSE, pollers |-> pollers, listens |-> listens]
    BY <1>1, <2>1 DEF Start!Relay
  <2>3. relay.pollers = pollers /\ relay.listens = listens
    BY <2>2
  <2> QED
    BY <2>2, <2>3
<1>2. ASSUME NEW env, relay = Start!IbkrBuilt(env)
      PROVE  relay.pollers \in 0..2 /\ relay.listens \in BOOLEAN /\ (relay.pollers > 0 \/ relay.listens)
  <2>1. Start!IbkrPollers(env) \in 0..2 /\ ("LISTENER_ENABLED" \in env) \in BOOLEAN
    BY DEF Start!IbkrPollers, Start!One
  <2>2. relay = Start!Exit \/ relay = Start!Relay(Start!IbkrPollers(env), "LISTENER_ENABLED" \in env)
    BY <1>2 DEF Start!IbkrBuilt
  <2>3. relay # Start!Exit
    BY DEF Start!Exit
  <2> QED
    BY <1>1, <2>1, <2>2, <2>3
<1>3. ASSUME NEW env, relay = Start!KrakenBuilt(env)
      PROVE  relay.pollers \in 0..2 /\ relay.listens \in BOOLEAN /\ (relay.pollers > 0 \/ relay.listens)
  <2> DEFINE has == env \cap {"API_KEY", "API_SECRET"} # {} /\ "POLLER_DISABLED" \notin env
  <2>1. Start!One(has) \in 0..2 /\ ("LISTENER_ENABLED" \in env) \in BOOLEAN
    BY DEF Start!One
  <2>2. relay = Start!Exit \/ relay = Start!Relay(Start!One(has), "LISTENER_ENABLED" \in env)
    BY <1>3 DEF Start!KrakenBuilt
  <2>3. relay # Start!Exit
    BY DEF Start!Exit
  <2> QED
    BY <1>1, <2>1, <2>2, <2>3
<1> QED
  BY <1>2, <1>3 DEF Start!Built

(* The next relay of the listing is loaded. *)
LEMMA LoadKeepsStartInv ==
    ASSUME StartInv, Start!LoadRelay, ~Start!Exits
    PROVE  StartInv'
<1>1. PICK relay \in Start!Built(listing[Len(relays) + 1]) :
        /\ step = "load" /\ Len(relays) < Len(listing) /\ ~relay.exits
        /\ relays' = Append(relays, [name |-> listing[Len(relays) + 1], pollers |-> relay.pollers,
                                     listens |-> relay.listens])
        /\ UNCHANGED <<step, listing, context, locks, loops, polls, answer>>
  BY DEF Start!LoadRelay
<1> DEFINE name == listing[Len(relays) + 1]
           rec  == [name |-> name, pollers |-> relay.pollers, listens |-> relay.listens]
<1>2. listing \in Seq(STRING) /\ relays \in Seq(RelayRecord) /\ Len(relays) \in Nat
  BY DEF StartInv, RelaysTyped
<1>3. name \in STRING
  BY <1>1, <1>2
<1>4. relay.pollers \in 0..2 /\ relay.listens \in BOOLEAN /\ (relay.pollers > 0 \/ relay.listens)
  BY <1>1, BuiltHasWork
<1>5. rec \in RelayRecord /\ rec.name = name /\ (rec.pollers > 0 \/ rec.listens) /\ relays' = Append(relays, rec)
  BY <1>1, <1>3, <1>4 DEF RelayRecord
<1> HIDE DEF rec
<1>6. /\ relays' \in Seq(RelayRecord) /\ Len(relays') = Len(relays) + 1
      /\ \A i \in 1..Len(relays) : relays'[i] = relays[i]
      /\ relays'[Len(relays) + 1] = rec
  BY <1>2, <1>5
<1>7. RelaysTyped'
  <2>1. ASSUME NEW i \in 1..Len(relays')
        PROVE  relays'[i].name = listing[i] /\ (relays'[i].pollers > 0 \/ relays'[i].listens)
    <3>1. CASE i = Len(relays) + 1
      BY <1>5, <1>6, <3>1
    <3>2. CASE i # Len(relays) + 1
      <4>1. i \in 1..Len(relays)
        BY <1>2, <1>6, <3>2
      <4> QED
        BY <1>6, <4>1 DEF StartInv, RelaysTyped
    <3> QED
      BY <3>1, <3>2
  <2>2. Len(relays') <= Len(listing)
    BY <1>1, <1>2, <1>6
  <2> QED
    BY <1>1, <1>6, <2>1, <2>2 DEF StartInv, RelaysTyped
<1>8. loops = {} /\ polls = {} /\ locks \subseteq 1..Len(relays')
  BY <1>1, <1>2, <1>6 DEF StartInv, MadeInOrder
<1> QED
  BY <1>1, <1>7, <1>8 DEF StartInv, MadeInOrder, PollsLocked

(* Every other step of amain leaves the relays as they are. *)
LEMMA AmainKeepsStartInv ==
    ASSUME StartInv, Start!GetRelayNames \/ Start!Loaded \/ Start!InitRelays \/ Start!Prune
                     \/ Start!MakeLocks \/ Start!StartApi \/ Start!StartTasks \/ Start!Exits
    PROVE  StartInv'
<1>o. DOMAIN relays = 1..Len(relays)
  BY DEF StartInv, RelaysTyped
<1>r. ASSUME UNCHANGED <<listing, relays>> PROVE RelaysTyped' /\ Start!Pollers' = Start!Pollers
  BY <1>r DEF StartInv, RelaysTyped, Start!Pollers
<1>s. ASSUME UNCHANGED <<listing, relays, loops, polls>> PROVE PollsLocked'
  BY <1>s, <1>r DEF StartInv, PollsLocked
<1>1. CASE Start!Exits
  <2>1. step' = "exited" /\ polls' = {} /\ loops' = {} /\ UNCHANGED <<listing, relays, context, locks>>
    BY <1>1 DEF Start!Exits
  <2> QED
    BY <1>r, <2>1 DEF StartInv, MadeInOrder, PollsLocked
<1>2. CASE /\ <<step, step'>> \in {<<"names", "load">>, <<"load", "context">>, <<"prune", "locks">>,
                                <<"serve", "tasks">>}
           /\ UNCHANGED <<listing, relays, context, locks, loops, polls>>
  BY <1>2, <1>r, <1>s DEF StartInv, MadeInOrder
<1>3. CASE Start!InitRelays
  <2>1. /\ step = "context" /\ step' = "prune" /\ UNCHANGED <<listing, relays, locks, loops, polls>>
        /\ context' = {relays[i].name : i \in 1..Len(relays)}
    BY <1>3, <1>o, StepsOfAmain DEF Start!InitRelays
  <2> QED
    BY <2>1, <1>r, <1>s DEF StartInv, MadeInOrder
<1>4. CASE Start!MakeLocks
  <2>1. /\ step = "locks" /\ step' = "serve" /\ UNCHANGED <<listing, relays, context, loops, polls>>
        /\ locks' = 1..Len(relays)
    BY <1>4, <1>o, StepsOfAmain DEF Start!MakeLocks
  <2> QED
    BY <2>1, <1>r, <1>s DEF StartInv, MadeInOrder
<1>5. CASE Start!StartTasks
  <2>1. /\ step = "tasks" /\ step' = "running" /\ UNCHANGED <<listing, relays, context, locks, polls>>
        /\ loops' = Start!Pollers /\ loops = {}
    BY <1>5, StepsOfAmain DEF Start!StartTasks, StartInv, MadeInOrder
  <2>2. MadeInOrder'
    BY <2>1, <1>r DEF StartInv, MadeInOrder
  <2>3. PollsLocked'
    BY <2>1, <1>r DEF StartInv, PollsLocked
  <2> QED
    BY <2>1, <2>2, <2>3, <1>r DEF StartInv
<1>6. CASE Start!GetRelayNames
  BY <1>1, <1>2, <1>6, StepsOfAmain DEF Start!GetRelayNames
<1>7. CASE Start!Loaded
  BY <1>2, <1>7, StepsOfAmain DEF Start!Loaded
<1>8. CASE Start!Prune
  BY <1>1, <1>2, <1>8, StepsOfAmain DEF Start!Prune
<1>9. CASE Start!StartApi
  BY <1>1, <1>2, <1>9, StepsOfAmain DEF Start!StartApi
<1> QED
  BY <1>1, <1>3, <1>4, <1>5, <1>6, <1>7, <1>8, <1>9
(* A poll begins, with its poller's lock, which nobody had. *)
LEMMA PollKeepsStartInv ==
    ASSUME StartInv, step \in {"tasks", "running"}, NEW p \in Start!Pollers, NEW by \in OnDemand \cup loops,
           ~Start!Held(p), polls' = polls \cup {[by |-> by, of |-> p, locked |-> TRUE]},
           UNCHANGED <<step, listing, relays, context, locks, loops>>
    PROVE  StartInv'
<1>1. RelaysTyped' /\ MadeInOrder' /\ Start!Pollers' = Start!Pollers
  BY DEF StartInv, RelaysTyped, MadeInOrder, Start!Pollers
<1>2. \A poll \in polls : poll.of # p
  BY DEF StartInv, PollsLocked, Start!Held
<1> DEFINE new == [by |-> by, of |-> p, locked |-> TRUE]
<1>3. new \in [by : OnDemand \cup loops, of : Start!Pollers, locked : {TRUE}] /\ new.of = p
  OBVIOUS
<1>4. polls' = polls \cup {new}
  OBVIOUS
<1> HIDE DEF new
<1>5. PollsLocked'
  BY <1>1, <1>2, <1>3, <1>4 DEF StartInv, PollsLocked
<1> QED
  BY <1>1, <1>5 DEF StartInv

(* A poll ends, or nothing happens to any. *)
LEMMA FewerPollsKeepStartInv ==
    ASSUME StartInv, polls' \subseteq polls, UNCHANGED <<step, listing, relays, context, locks, loops>>
    PROVE  StartInv'
<1>1. RelaysTyped' /\ MadeInOrder' /\ Start!Pollers' = Start!Pollers
  BY DEF StartInv, RelaysTyped, MadeInOrder, Start!Pollers
<1>2. PollsLocked'
  BY <1>1 DEF StartInv, PollsLocked
<1> QED
  BY <1>1, <1>2 DEF StartInv

LEMMA StartSteps == ASSUME StartInv, Start!Next \/ UNCHANGED startVars PROVE StartInv'
<1>p. \A p \in Start!Pollers : p[1] \in 1..Len(relays)
  BY DEF Start!Pollers, StartInv, RelaysTyped
<1>1. CASE Start!LoadRelay
  BY <1>1, LoadKeepsStartInv, AmainKeepsStartInv
<1>2. ASSUME NEW p \in Start!Pollers, Start!LoopPolls(p) PROVE StartInv'
  <2>1. /\ p \in loops /\ ~Start!Held(p) /\ polls' = polls \cup {[by |-> p, of |-> p, locked |-> TRUE]}
        /\ UNCHANGED <<step, listing, relays, context, locks, loops>>
    BY <1>2 DEF Start!LoopPolls
  <2>2. step = "running"
    BY <2>1 DEF StartInv, MadeInOrder
  <2> QED
    BY <2>1, <2>2, PollKeepsStartInv
<1>3. ASSUME NEW p \in Start!Pollers, Start!LoopPolled(p) PROVE StartInv'
  BY <1>3, FewerPollsKeepStartInv DEF Start!LoopPolled
<1>4. ASSUME NEW q \in OnDemand, NEW p \in Start!Pollers, Start!PollBegins(q, p) PROVE StartInv'
  <2>1. /\ step \in {"tasks", "running"}
        /\ p[1] \in locks => ~Start!Held(p)
        /\ polls' = polls \cup {[by |-> q, of |-> p, locked |-> p[1] \in locks]}
        /\ UNCHANGED <<step, listing, relays, context, locks, loops>>
    BY <1>4, StepsPassed DEF Start!PollBegins, Start!Serving, Start!Answers
  <2>2. p[1] \in locks
    BY <1>p, <2>1 DEF StartInv, MadeInOrder
  <2>3. (p[1] \in locks) = TRUE
    BY <2>2
  <2>4. polls' = polls \cup {[by |-> q, of |-> p, locked |-> TRUE]}
    BY <2>1, <2>3
  <2> QED
    BY <2>1, <2>2, <2>4, PollKeepsStartInv
<1>5. ASSUME NEW q \in OnDemand, NEW p \in Start!Pollers, Start!PollBusy(q, p) PROVE StartInv'
  BY <1>5, FewerPollsKeepStartInv DEF Start!PollBusy, Start!Answers
<1>6. ASSUME NEW q \in OnDemand, Start!PollRefused(q) \/ Start!PollEnds(q) PROVE StartInv'
  <2>1. polls' \subseteq polls /\ UNCHANGED <<step, listing, relays, context, locks, loops>>
    BY <1>6 DEF Start!PollRefused, Start!PollEnds, Start!Answers
  <2> QED
    BY <2>1, FewerPollsKeepStartInv
<1>7. CASE UNCHANGED startVars
  BY <1>7, FewerPollsKeepStartInv DEF startVars
<1> QED
  BY <1>1, <1>2, <1>3, <1>4, <1>5, <1>6, <1>7, AmainKeepsStartInv DEF Start!Next

(* The process comes up in amain's order, and every poll has its poller's lock. *)
THEOREM LocksComeFirst == Spec => []StartInv
<1>1. Init => StartInv
  <2> SUFFICES ASSUME Init PROVE StartInv
    OBVIOUS
  <2>1. /\ step = "names" /\ relays = <<>> /\ context = {} /\ locks = {} /\ loops = {} /\ polls = {}
        /\ listing \in Listings
    BY DEF Init, Start!Init
  <2>2. listing \in Seq(STRING) /\ Len(listing) \in Nat /\ relays \in Seq(RelayRecord) /\ Len(relays) = 0
    BY <2>1
  <2> QED
    BY <2>1, <2>2 DEF StartInv, RelaysTyped, MadeInOrder, PollsLocked
<1>2. StartInv /\ [Next]_vars => StartInv'
  BY StartSteps, StepsApart
<1> QED
  BY <1>1, <1>2, PTL DEF Spec

(* RELAYS names no relay twice. *)
NamedOnce == \A names \in Listings : \A i, j \in 1..Len(names) : names[i] = names[j] => i = j

(* main.py makes the poll locks "before the API server": no poller of a relay is polled
   twice at a time, however loops and requests overlap, when RELAYS names it once. *)
THEOREM PollsDoNotOverlap == NamedOnce => (Spec => []OnePollAtATime)
<1> SUFFICES ASSUME NamedOnce PROVE Spec => []OnePollAtATime
  OBVIOUS
<1>1. StartInv => OnePollAtATime
  <2> SUFFICES ASSUME StartInv, NEW a \in polls, NEW b \in polls,
                      relays[a.of[1]].name = relays[b.of[1]].name, a.of[2] = b.of[2]
               PROVE  a = b
    BY DEF OnePollAtATime, Start!OnePollAtATime
  <2>1. a.of \in (1..Len(relays)) \X (1..2) /\ b.of \in (1..Len(relays)) \X (1..2)
    <3>1. a.of \in Start!Pollers /\ b.of \in Start!Pollers
      BY DEF StartInv, PollsLocked
    <3> QED
      BY <3>1 DEF Start!Pollers, StartInv, RelaysTyped
  <2>2. relays[a.of[1]].name = listing[a.of[1]] /\ relays[b.of[1]].name = listing[b.of[1]]
    BY <2>1 DEF StartInv, RelaysTyped
  <2>3. a.of[1] \in 1..Len(listing) /\ b.of[1] \in 1..Len(listing)
    BY <2>1 DEF StartInv, RelaysTyped
  <2>4. a.of[1] = b.of[1]
    <3>1. listing[a.of[1]] = listing[b.of[1]] /\ listing \in Listings
      BY <2>2 DEF StartInv, RelaysTyped
    <3> QED
      BY <3>1, <2>3 DEF NamedOnce
  <2>5. a.of = b.of
    BY <2>1, <2>4
  <2> QED
    BY <2>5 DEF StartInv, PollsLocked
<1> QED
  BY <1>1, LocksComeFirst, PTL

LEMMA StartTypes == Spec => []Start!TypeOK
<1>1. StartInv => Start!TypeOK
  <2> SUFFICES ASSUME StartInv PROVE Start!TypeOK
    OBVIOUS
  <2>o. DOMAIN relays = 1..Len(relays) /\ relays \in Seq(RelayRecord)
    BY DEF StartInv, RelaysTyped
  <2>1. step \in {Start!Order[i] : i \in DOMAIN Start!Order} \cup {"exited"}
    BY OrderOfSteps DEF StartInv, MadeInOrder
  <2>2. Len(relays) <= Len(listing)
        /\ \A i \in DOMAIN relays : relays[i].pollers \in 0..2 /\ (relays[i].pollers > 0 \/ relays[i].listens)
    <3>1. \A i \in DOMAIN relays : relays[i] \in RelayRecord
      BY <2>o
    <3>2. \A r \in RelayRecord : r.pollers \in 0..2
      BY DEF RelayRecord
    <3> QED
      BY <2>o, <3>1, <3>2 DEF StartInv, RelaysTyped
  <2>3. Start!Passed("context") => context = {relays[i].name : i \in DOMAIN relays}
    BY <2>o, StepsPassed DEF StartInv, MadeInOrder
  <2>4. locks \subseteq DOMAIN relays /\ loops \subseteq Start!Pollers
    BY <2>o DEF StartInv, MadeInOrder
  <2>5. \A poll \in polls : poll.of \in Start!Pollers /\ poll.by \in OnDemand \cup loops
    BY DEF StartInv, PollsLocked
  <2> QED
    BY <2>1, <2>2, <2>3, <2>4, <2>5 DEF Start!TypeOK
<1> QED
  BY <1>1, LocksComeFirst, PTL
-----------------------------------------------------------------------------
(* The market-data service (MarketData). *)

USE MarketAssumption

Places   == {"idle", "asked", "bootstrap", "bootstrapping", "fetch", "refresh", "fetched"}
Readings == [version : Nat, readAt : Nat]
Errands  == [at : Places, ticker : Tickers \cup {"none"}, attempt : 0..MaxAttempts, data : Readings]

MarketTyped ==
    /\ mClock \in 0..MarketClock /\ version \in [Tickers -> 1..MaxVersion]
    /\ session \in BOOLEAN /\ initLock \in Workers \cup {"free"}
    /\ cache \in [Tickers -> [exists : BOOLEAN, version : Nat, cachedAt : Nat]]
    /\ served \in [Tickers -> Nat] /\ mWork \in [Workers -> Errands]
    /\ \A t \in Workers : mWork[t].at # "idle" => mWork[t].ticker \in Tickers

(* _session_init_lock: who bootstraps a session holds it. *)
OneBootstraps == \A t \in Workers : mWork[t].at = "bootstrapping" <=> initLock = t

(* An entry that is there is what was served last; nobody was served a version that is
   still to come. *)
EntryWasServed ==
    \A k \in Tickers : /\ cache[k].version <= version[k] /\ served[k] <= version[k]
                       /\ cache[k].exists => cache[k].version = served[k]

(* What thread t has fetched it fetched a moment ago; when no fetch takes longer than an
   entry lives, it is no older than what was served, unless an entry that was made since
   keeps it from being served. *)
FetchIsNoOlder(t) ==
    LET k    == mWork[t].ticker
        data == mWork[t].data
    IN  mWork[t].at = "fetched" =>
           /\ data.version <= version[k] /\ mClock <= data.readAt + FetchTime /\ data.readAt <= mClock
           /\ FetchTime <= CacheTTL =>
                 data.version >= served[k] \/ (cache[k].exists /\ cache[k].cachedAt >= data.readAt)

MarketInv == MarketTyped /\ OneBootstraps /\ EntryWasServed /\ \A t \in Workers : FetchIsNoOlder(t)

(* What a step makes of a thread's errand. *)
LEMMA NoErrand == Market!Idle \in Errands /\ Market!Idle.at = "idle"
BY DEF Market!Idle, Market!NoData, Errands, Places, Readings

LEMMA ErrandMoved ==
    ASSUME NEW w \in Errands, NEW place \in Places
    PROVE  LET moved == [w EXCEPT !.at = place]
           IN  moved \in Errands /\ moved.at = place /\ moved.ticker = w.ticker
BY DEF Errands

(* A thread goes on without having fetched anything; an entry that is too old may go. *)
LEMMA MoveKeepsMarketInv ==
    ASSUME MarketInv, NEW t \in Workers, NEW w \in Errands, mWork' = [mWork EXCEPT ![t] = w],
           w.at # "fetched", w.at # "idle" => w.ticker \in Tickers,
           w.at = "bootstrapping" <=> initLock' = t, initLock' \in Workers \cup {"free"},
           \A u \in Workers : u # t => (initLock' = u <=> initLock = u),
           session' \in BOOLEAN, UNCHANGED <<mClock, version, served>>, NEW gone \in SUBSET Tickers,
           cache' = [k \in Tickers |-> IF k \in gone THEN Market!NoEntry ELSE cache[k]],
           \A k \in gone : ~Market!Cached(k)
    PROVE  MarketInv'
<1>0. Market!NoEntry \in [exists : BOOLEAN, version : Nat, cachedAt : Nat]
      /\ ~Market!NoEntry.exists /\ Market!NoEntry.version = 0
  BY DEF Market!NoEntry
<1>c. /\ cache' \in [Tickers -> [exists : BOOLEAN, version : Nat, cachedAt : Nat]]
      /\ \A k \in Tickers : cache'[k] = IF k \in gone THEN Market!NoEntry ELSE cache[k]
  BY <1>0 DEF MarketInv, MarketTyped
<1>1. mWork' \in [Workers -> Errands] /\ mWork'[t] = w /\ \A u \in Workers : u # t => mWork'[u] = mWork[u]
  BY DEF MarketInv, MarketTyped
<1>2. MarketTyped'
  BY <1>1, <1>c DEF MarketInv, MarketTyped
<1>3. OneBootstraps'
  BY <1>1 DEF MarketInv, OneBootstraps
<1>4. EntryWasServed'
  BY <1>0, <1>c DEF MarketInv, MarketTyped, EntryWasServed
<1>5. ASSUME NEW u \in Workers PROVE FetchIsNoOlder(u)'
  <2>1. CASE u = t
    BY <1>1, <2>1 DEF FetchIsNoOlder
  <2>2. CASE mWork[u].at # "fetched" /\ u # t
    BY <1>1, <2>2 DEF FetchIsNoOlder
  <2>3. CASE mWork[u].at = "fetched" /\ u # t
    <3> DEFINE k == mWork[u].ticker
    <3>1. k \in Tickers /\ mWork[u] \in Errands /\ mClock \in Nat
      BY <2>3 DEF MarketInv, MarketTyped
    <3>2. mWork[u].data.readAt \in Nat /\ cache[k].cachedAt \in Nat
      BY <3>1 DEF Errands, Readings, MarketInv, MarketTyped
    <3>3. /\ mWork[u].data.version <= version[k] /\ mClock <= mWork[u].data.readAt + FetchTime
          /\ mWork[u].data.readAt <= mClock
          /\ FetchTime <= CacheTTL =>
                mWork[u].data.version >= served[k] \/ (cache[k].exists /\ cache[k].cachedAt >= mWork[u].data.readAt)
      BY <2>3 DEF MarketInv, FetchIsNoOlder
    <3>4. ASSUME FetchTime <= CacheTTL, cache[k].exists, cache[k].cachedAt >= mWork[u].data.readAt
          PROVE  cache'[k] = cache[k]
      <4>1. mClock <= cache[k].cachedAt + CacheTTL
        BY <3>1, <3>2, <3>3, <3>4
      <4>2. k \notin gone
        BY <3>4, <4>1 DEF Market!Cached
      <4> QED
        BY <1>c, <3>1, <4>2
    <3>5. mWork'[u] = mWork[u]
      BY <1>1, <2>3
    <3> HIDE DEF k
    <3> QED
      BY <3>3, <3>4, <3>5 DEF FetchIsNoOlder, k
  <2> QED
    BY <2>1, <2>2, <2>3
<1> QED
  BY <1>2, <1>3, <1>4, <1>5 DEF MarketInv

(* A thread is served from the cache, or by what it has fetched, which it keeps. *)
LEMMA ServeKeepsMarketInv ==
    ASSUME MarketInv, NEW t \in Workers, mWork[t].at \in {"asked", "fetched"}, NEW entry,
           LET k == mWork[t].ticker
           IN  /\ served' = [served EXCEPT ![k] = entry.version]
               /\ \/ Market!Cached(k) /\ entry = cache[k] /\ UNCHANGED cache
                  \/ /\ mWork[t].at = "fetched" /\ cache' = [cache EXCEPT ![k] = entry]
                     /\ entry = [exists |-> TRUE, version |-> mWork[t].data.version, cachedAt |-> mClock],
           mWork' = [mWork EXCEPT ![t] = Market!Idle], session' \in BOOLEAN,
           UNCHANGED <<mClock, version, initLock>>
    PROVE  MarketInv'
<1> DEFINE k == mWork[t].ticker
<1>k. k \in Tickers
  BY DEF MarketInv, MarketTyped
<1>w. /\ mWork' \in [Workers -> Errands] /\ mWork'[t].at = "idle"
      /\ \A u \in Workers : u # t => mWork'[u] = mWork[u]
  BY NoErrand DEF MarketInv, MarketTyped
<1>a. /\ served' = [served EXCEPT ![k] = entry.version]
      /\ \/ Market!Cached(k) /\ entry = cache[k] /\ cache' = cache
         \/ /\ mWork[t].at = "fetched" /\ cache' = [cache EXCEPT ![k] = entry]
            /\ entry = [exists |-> TRUE, version |-> mWork[t].data.version, cachedAt |-> mClock]
  OBVIOUS
<1>b. /\ cache \in [Tickers -> [exists : BOOLEAN, version : Nat, cachedAt : Nat]]
      /\ cache[k].version <= version[k] /\ mClock \in Nat /\ mWork[t] \in Errands
      /\ mWork[t].at = "fetched" => mWork[t].data.version <= version[k]
  BY <1>k DEF MarketInv, MarketTyped, EntryWasServed, FetchIsNoOlder
<1> HIDE DEF k
<1>1. /\ entry \in [exists : BOOLEAN, version : Nat, cachedAt : Nat] /\ entry.version <= version[k]
      /\ served' \in [Tickers -> Nat] /\ served'[k] = entry.version
      /\ \A j \in Tickers : j # k => served'[j] = served[j]
  <2>1. entry \in [exists : BOOLEAN, version : Nat, cachedAt : Nat] /\ entry.version <= version[k]
    <3>1. CASE entry = cache[k]
      BY <1>k, <1>b, <3>1
    <3>2. CASE mWork[t].at = "fetched" /\ entry = [exists |-> TRUE, version |-> mWork[t].data.version, cachedAt |-> mClock]
      <4>1. mWork[t].data.version \in Nat
        BY <1>b DEF Errands, Readings
      <4> QED
        BY <1>b, <3>2, <4>1
    <3> QED
      BY <1>a, <3>1, <3>2
  <2> QED
    BY <1>k, <1>a, <2>1 DEF MarketInv, MarketTyped
<1>2. /\ cache' \in [Tickers -> [exists : BOOLEAN, version : Nat, cachedAt : Nat]] /\ cache'[k] = entry
      /\ \A j \in Tickers : j # k => cache'[j] = cache[j]
  <2>1. CASE entry = cache[k] /\ cache' = cache
    BY <1>k, <1>b, <2>1
  <2>2. CASE cache' = [cache EXCEPT ![k] = entry]
    BY <1>k, <1>1, <1>b, <2>2
  <2> QED
    BY <1>a, <2>1, <2>2
<1>3. MarketTyped'
  BY <1>1, <1>2, <1>w DEF MarketInv, MarketTyped
<1>4. OneBootstraps'
  BY <1>w DEF MarketInv, OneBootstraps
<1>5. EntryWasServed'
  BY <1>k, <1>1, <1>2 DEF MarketInv, EntryWasServed
<1>6. ASSUME NEW u \in Workers, u # t PROVE FetchIsNoOlder(u)'
  <2>0. CASE mWork[u].at # "fetched"
    BY <1>w, <1>6, <2>0 DEF FetchIsNoOlder
  <2>1. CASE mWork[u].at = "fetched" /\ mWork[u].ticker # k
    <3>1. mWork[u].ticker \in Tickers
      BY <2>1 DEF MarketInv, MarketTyped
    <3>2. served'[mWork[u].ticker] = served[mWork[u].ticker]
          /\ cache'[mWork[u].ticker] = cache[mWork[u].ticker] /\ mWork'[u] = mWork[u]
      BY <1>1, <1>2, <1>w, <1>6, <2>1, <3>1
    <3> QED
      BY <3>2 DEF MarketInv, FetchIsNoOlder
  <2>2. CASE mWork[u].ticker = k /\ cache' = cache /\ Market!Cached(k) /\ entry = cache[k]
    <3>1. served'[k] = served[k]
      BY <1>k, <1>1, <2>2 DEF MarketInv, EntryWasServed, Market!Cached
    <3> QED
      BY <1>w, <1>6, <2>2, <3>1 DEF MarketInv, FetchIsNoOlder
  <2>3. CASE /\ mWork[u].ticker = k
             /\ entry = [exists |-> TRUE, version |-> mWork[t].data.version, cachedAt |-> mClock]
    BY <1>2, <1>w, <1>6, <2>3 DEF MarketInv, FetchIsNoOlder
  <2> QED
    BY <1>a, <2>0, <2>1, <2>2, <2>3
<1>7. FetchIsNoOlder(t)'
  BY <1>w DEF FetchIsNoOlder
<1> QED
  BY <1>3, <1>4, <1>5, <1>6, <1>7 DEF MarketInv

(* Each step of get_dividend_info. *)
LEMMA DividendStepsKeepMarketInv ==
    ASSUME MarketInv, NEW t \in Workers, Market!GetDividendInfo(t) \/ \E k \in Tickers : Market!Ask(t, k)
    PROVE  MarketInv'
<1>t. /\ mWork[t] \in Errands /\ mWork[t].at # "idle" => mWork[t].ticker \in Tickers
      /\ initLock \in Workers \cup {"free"} /\ session \in BOOLEAN
      /\ mWork[t].at = "bootstrapping" <=> initLock = t /\ t # "free"
      /\ mWork \in [Workers -> Errands] /\ mClock \in Nat
      /\ version \in [Tickers -> 1..MaxVersion]
  BY DEF MarketInv, MarketTyped, OneBootstraps
<1>e. mWork[t] \in Errands
  BY <1>t
<1>c. cache = [k \in Tickers |-> IF k \in {} THEN Market!NoEntry ELSE cache[k]]
  BY DEF MarketInv, MarketTyped
<1>i. Market!Idle \in Errands /\ Market!Idle.at = "idle"
  BY NoErrand
<1>m. ASSUME NEW w \in Errands, mWork' = [mWork EXCEPT ![t] = w],
             w.at # "fetched", w.at # "idle" => w.ticker \in Tickers,
             w.at = "bootstrapping" <=> initLock' = t, initLock' \in {initLock, t, "free"},
             initLock' # initLock => initLock \in {t, "free"},
             session' \in BOOLEAN, UNCHANGED <<mClock, version, cache, served>>
      PROVE  MarketInv'
  <2>1. \A u \in Workers : u # t => (initLock' = u <=> initLock = u)
    BY <1>m
  <2>2. initLock' \in Workers \cup {"free"}
    BY <1>t, <1>m
  <2>3. cache' = [k \in Tickers |-> IF k \in {} THEN Market!NoEntry ELSE cache[k]]
    BY <1>c, <1>m
  <2> DEFINE gone == {}
  <2>4. gone \in SUBSET Tickers /\ \A k \in gone : ~Market!Cached(k)
    OBVIOUS
  <2>5. cache' = [k \in Tickers |-> IF k \in gone THEN Market!NoEntry ELSE cache[k]]
    BY <2>3
  <2>6. UNCHANGED <<mClock, version, served>>
    BY <1>m
  <2> HIDE DEF gone
  <2> QED
    BY <1>m, <2>1, <2>2, <2>4, <2>5, <2>6, MoveKeepsMarketInv
<1>1. ASSUME NEW k \in Tickers, Market!Ask(t, k) PROVE MarketInv'
  <2> DEFINE w == [Market!Idle EXCEPT !.at = "asked", !.ticker = k]
  <2>1. w \in Errands /\ w.at = "asked" /\ w.ticker = k
    <3>1. "asked" \in Places
      BY DEF Places
    <3> QED
      BY <3>1, NoErrand DEF Errands
  <2>2. mWork' = [mWork EXCEPT ![t] = w] /\ UNCHANGED <<mClock, version, cache, session, initLock, served>>
        /\ mWork[t].at = "idle"
    BY <1>1 DEF Market!Ask, Market!At
  <2> HIDE DEF w
  <2> QED
    BY <1>t, <1>m, <2>1, <2>2
<1>2. CASE Market!LookUp(t)
  <2> DEFINE k == mWork[t].ticker
             w == [mWork[t] EXCEPT !.at = IF session THEN "fetch" ELSE "bootstrap", !.attempt = 1]
  <2>1. mWork[t].at = "asked" /\ k \in Tickers /\ UNCHANGED <<mClock, version, session, initLock>>
    BY <1>t, <1>2 DEF Market!LookUp, Market!At
  <2>2. CASE Market!Cached(k)
    <3>1. served' = [served EXCEPT ![k] = cache[k].version] /\ UNCHANGED cache
          /\ mWork' = [mWork EXCEPT ![t] = Market!Idle]
      BY <1>2, <2>2 DEF Market!LookUp, Market!Serve, Market!Ends
    <3> QED
      BY <1>t, <2>1, <2>2, <3>1, ServeKeepsMarketInv
  <2>3. CASE ~Market!Cached(k)
    <3>1. /\ cache' = [cache EXCEPT ![k] = Market!NoEntry] /\ UNCHANGED served
          /\ mWork' = [mWork EXCEPT ![t] = w]
      BY <1>2, <1>t, <2>3 DEF Market!LookUp
    <3>2. w \in Errands /\ w.at \in {"fetch", "bootstrap"} /\ w.ticker \in Tickers
      <4>1. (IF session THEN "fetch" ELSE "bootstrap") \in Places /\ 1 \in 0..MaxAttempts
        BY DEF Places
      <4> QED
        BY <1>e, <2>1, <4>1 DEF Errands
    <3>3. cache' = [j \in Tickers |-> IF j \in {k} THEN Market!NoEntry ELSE cache[j]]
      BY <2>1, <3>1 DEF MarketInv, MarketTyped
    <3>4. \A j \in {k} : ~Market!Cached(j)
      BY <2>3
    <3> HIDE DEF w, k
    <3> QED
      BY <1>t, <2>1, <3>1, <3>2, <3>3, <3>4, MoveKeepsMarketInv
  <2> QED
    BY <2>2, <2>3
<1>3. CASE \/ Market!EnterBootstrap(t) \/ Market!Bootstrapped(t) \/ Market!BootstrapFails(t)
           \/ Market!Unauthorized(t) \/ Market!Refreshed(t) \/ Market!FetchFails(t)
  <2> DEFINE to(place) == [mWork[t] EXCEPT !.at = place]
             again == [mWork[t] EXCEPT !.at = "refresh", !.attempt = mWork[t].attempt + 1]
  <2>1. \A place \in {"fetch", "bootstrapping"} :
            to(place) \in Errands /\ to(place).at = place /\ to(place).ticker = mWork[t].ticker
    <3>1. \A place \in {"fetch", "bootstrapping"} : place \in Places
      BY DEF Places
    <3> QED
      BY <1>t, <3>1, ErrandMoved
  <2>2. mWork[t].attempt < MaxAttempts =>
            again \in Errands /\ again.at = "refresh" /\ again.ticker = mWork[t].ticker
    <3>1. "refresh" \in Places /\ (mWork[t].attempt < MaxAttempts => mWork[t].attempt + 1 \in 0..MaxAttempts)
      BY <1>t DEF Errands, Places
    <3> QED
      BY <1>e, <3>1 DEF Errands
  <2>3. UNCHANGED <<mClock, version, cache, served>> /\ mWork[t].at # "idle"
    BY <1>3 DEF Market!EnterBootstrap, Market!Bootstrapped, Market!BootstrapFails, Market!Unauthorized,
                Market!Refreshed, Market!FetchFails, Market!At
  <2>4. CASE Market!EnterBootstrap(t)
    <3>1. /\ mWork[t].at = "bootstrap" /\ initLock = "free" /\ UNCHANGED session
          /\ \/ mWork' = [mWork EXCEPT ![t] = to("fetch")] /\ initLock' = initLock
             \/ mWork' = [mWork EXCEPT ![t] = to("bootstrapping")] /\ initLock' = t
      BY <2>4, <1>t DEF Market!EnterBootstrap, Market!At, Market!Moves
    <3> HIDE DEF to
    <3> QED
      BY <1>t, <1>m, <2>1, <2>3, <3>1
  <2>5. CASE Market!Bootstrapped(t)
    <3>1. /\ mWork[t].at = "bootstrapping" /\ initLock' = "free" /\ session' = TRUE
          /\ mWork' = [mWork EXCEPT ![t] = to("fetch")]
      BY <2>5, <1>t DEF Market!Bootstrapped, Market!At, Market!Moves
    <3> HIDE DEF to
    <3> QED
      BY <1>t, <1>m, <2>1, <2>3, <3>1
  <2>6. CASE Market!BootstrapFails(t)
    <3>1. /\ mWork[t].at = "bootstrapping" /\ initLock' = "free" /\ UNCHANGED session
          /\ mWork' = [mWork EXCEPT ![t] = Market!Idle]
      BY <2>6 DEF Market!BootstrapFails, Market!At, Market!Ends
    <3> QED
      BY <1>t, <1>m, <1>i, <2>3, <3>1
  <2>7. CASE Market!Unauthorized(t) \/ Market!Refreshed(t) \/ Market!FetchFails(t)
    <3>1. /\ mWork[t].at \in {"fetch", "refresh"} /\ UNCHANGED <<initLock, session>>
          /\ \/ mWork' = [mWork EXCEPT ![t] = to("fetch")]
             \/ mWork[t].attempt < MaxAttempts /\ mWork' = [mWork EXCEPT ![t] = again]
             \/ mWork' = [mWork EXCEPT ![t] = Market!Idle]
      BY <2>7, <1>t DEF Market!Unauthorized, Market!Refreshed, Market!FetchFails, Market!At,
                        Market!Moves, Market!Ends, Market!NextAttempt
    <3> HIDE DEF to, again
    <3> QED
      BY <1>t, <1>m, <1>i, <2>1, <2>2, <2>3, <3>1
  <2> QED
    BY <1>3, <2>4, <2>5, <2>6, <2>7
<1>4. CASE Market!Fetched(t)
  <2> DEFINE k == mWork[t].ticker
             data == [version |-> version[k], readAt |-> mClock]
             w == [mWork[t] EXCEPT !.at = "fetched", !.data = data]
  <2>1. mWork[t].at = "fetch" /\ mWork' = [mWork EXCEPT ![t] = w]
        /\ UNCHANGED <<mClock, version, cache, session, initLock, served>>
    BY <1>4, <1>t DEF Market!Fetched, Market!At
  <2>2. k \in Tickers /\ version[k] \in Nat
    BY <1>t, <2>1
  <2>3. w \in Errands /\ w.at = "fetched" /\ w.ticker = k /\ w.data.version = version[k] /\ w.data.readAt = mClock
    <3>1. "fetched" \in Places /\ data \in Readings /\ data.version = version[k] /\ data.readAt = mClock
      BY <1>t, <2>2 DEF Readings, Places
    <3> HIDE DEF data
    <3> QED
      BY <1>e, <3>1 DEF Errands
  <2> HIDE DEF w
  <2>4. mWork' \in [Workers -> Errands] /\ mWork'[t] = w /\ \A u \in Workers : u # t => mWork'[u] = mWork[u]
    BY <1>t, <2>1, <2>3
  <2>5. MarketTyped'
    BY <2>1, <2>2, <2>3, <2>4 DEF MarketInv, MarketTyped
  <2>6. OneBootstraps' /\ EntryWasServed'
    BY <2>1, <2>3, <2>4 DEF MarketInv, OneBootstraps, EntryWasServed
  <2>7. FetchIsNoOlder(t)'
    <3>1. served[k] \in Nat /\ served[k] <= version[k]
      BY <2>2 DEF MarketInv, MarketTyped, EntryWasServed
    <3> QED
      BY <1>t, <2>1, <2>2, <2>3, <2>4, <3>1 DEF FetchIsNoOlder
  <2>8. ASSUME NEW u \in Workers, u # t PROVE FetchIsNoOlder(u)'
    BY <2>1, <2>4, <2>8 DEF MarketInv, FetchIsNoOlder
  <2> QED
    BY <2>5, <2>6, <2>7, <2>8 DEF MarketInv
<1>5. CASE Market!Keep(t)
  <2> DEFINE k == mWork[t].ticker
             entry == [exists |-> TRUE, version |-> mWork[t].data.version, cachedAt |-> mClock]
  <2>1. /\ mWork[t].at = "fetched" /\ mWork' = [mWork EXCEPT ![t] = Market!Idle]
        /\ UNCHANGED <<mClock, version, initLock>> /\ session' \in BOOLEAN
    BY <1>5, <1>t DEF Market!Keep, Market!At, Market!Ends
  <2>2. CASE Market!Cached(k)
    <3>1. served' = [served EXCEPT ![k] = cache[k].version] /\ UNCHANGED cache
      BY <1>5, <2>2 DEF Market!Keep, Market!IsThere, Market!Serve
    <3> QED
      BY <2>1, <2>2, <3>1, ServeKeepsMarketInv
  <2>3. CASE ~Market!Cached(k)
    <3>1. served' = [served EXCEPT ![k] = entry.version] /\ cache' = [cache EXCEPT ![k] = entry]
      BY <1>5, <2>3 DEF Market!Keep, Market!IsThere, Market!Serve
    <3> QED
      BY <2>1, <3>1, ServeKeepsMarketInv
  <2> QED
    BY <2>2, <2>3
<1> QED
  BY <1>1, <1>2, <1>3, <1>4, <1>5 DEF Market!GetDividendInfo

LEMMA MarketSteps ==
    ASSUME MarketInv, Market!Next \/ UNCHANGED marketVars
    PROVE  MarketInv'
<1>1. CASE \E t \in Workers : Market!GetDividendInfo(t) \/ \E k \in Tickers : Market!Ask(t, k)
  BY <1>1, DividendStepsKeepMarketInv
<1>2. CASE \E k \in Tickers : Market!YahooChanges(k)
  <2>1. PICK k \in Tickers : Market!YahooChanges(k)
    BY <1>2
  <2>2. /\ version[k] < MaxVersion /\ version' = [version EXCEPT ![k] = version[k] + 1]
        /\ UNCHANGED <<mClock, cache, session, initLock, mWork, served>>
    BY <2>1 DEF Market!YahooChanges
  <2>3. version' \in [Tickers -> 1..MaxVersion] /\ \A j \in Tickers : version[j] <= version'[j]
    BY <2>2 DEF MarketInv, MarketTyped
  <2>4. MarketTyped' /\ OneBootstraps'
    BY <2>2, <2>3 DEF MarketInv, MarketTyped, OneBootstraps
  <2>5. EntryWasServed'
    <3>1. \A j \in Tickers : /\ version[j] \in Nat /\ version'[j] \in Nat
                             /\ cache[j].version \in Nat /\ served[j] \in Nat
      BY <2>3 DEF MarketInv, MarketTyped
    <3> QED
      BY <2>2, <2>3, <3>1 DEF MarketInv, EntryWasServed
  <2>6. ASSUME NEW u \in Workers PROVE FetchIsNoOlder(u)'
    <3>1. CASE mWork[u].at = "fetched"
      <4>1. mWork[u] \in Errands /\ mWork[u].ticker \in Tickers
        BY <3>1 DEF MarketInv, MarketTyped
      <4>2. mWork[u].data.version \in Nat
        BY <4>1 DEF Errands, Readings
      <4>3. /\ version[mWork[u].ticker] <= version'[mWork[u].ticker]
            /\ version[mWork[u].ticker] \in Nat /\ version'[mWork[u].ticker] \in Nat
        BY <4>1, <2>3 DEF MarketInv, MarketTyped
      <4> QED
        BY <2>2, <3>1, <4>2, <4>3 DEF MarketInv, FetchIsNoOlder
    <3> QED
      BY <2>2, <3>1 DEF FetchIsNoOlder
  <2> QED
    BY <2>4, <2>5, <2>6 DEF MarketInv
<1>3. CASE Market!Tick
  <2>1. /\ mClock' = mClock + 1 /\ mClock < MarketClock
        /\ \A u \in Workers : mWork[u].at = "fetched" => mClock < mWork[u].data.readAt + FetchTime
        /\ UNCHANGED <<version, cache, session, initLock, mWork, served>>
    BY <1>3 DEF Market!Tick, Market!At
  <2>2. MarketTyped' /\ OneBootstraps' /\ EntryWasServed'
    BY <2>1 DEF MarketInv, MarketTyped, OneBootstraps, EntryWasServed
  <2>3. ASSUME NEW u \in Workers PROVE FetchIsNoOlder(u)'
    <3>1. CASE mWork[u].at = "fetched"
      <4>1. mWork[u] \in Errands /\ mClock \in Nat
        BY DEF MarketInv, MarketTyped
      <4>2. mWork[u].data.readAt \in Nat
        BY <4>1 DEF Errands, Readings
      <4> QED
        BY <2>1, <3>1, <4>1, <4>2 DEF MarketInv, FetchIsNoOlder
    <3> QED
      BY <2>1, <3>1 DEF FetchIsNoOlder
  <2> QED
    BY <2>2, <2>3 DEF MarketInv
<1>4. CASE UNCHANGED marketVars
  BY <1>4 DEF marketVars, MarketInv, MarketTyped, OneBootstraps, EntryWasServed, FetchIsNoOlder
<1> QED
  BY <1>1, <1>2, <1>3, <1>4 DEF Market!Next

(* What is cached was served last, and what a thread has fetched can be no older than that
   unless an entry was made since the fetch. *)
THEOREM CacheFollowsWhatIsServed == Spec => []MarketInv
<1>1. Init => MarketInv
  <2> SUFFICES ASSUME Init PROVE MarketInv
    OBVIOUS
  <2>1. /\ mClock = 0 /\ version = [k \in Tickers |-> 1] /\ cache = [k \in Tickers |-> Market!NoEntry]
        /\ session = FALSE /\ initLock = "free" /\ mWork = [t \in Workers |-> Market!Idle]
        /\ served = [k \in Tickers |-> 0]
    BY DEF Init, Market!Init
  <2>2. Market!NoEntry \in [exists : BOOLEAN, version : Nat, cachedAt : Nat]
        /\ ~Market!NoEntry.exists /\ Market!NoEntry.version = 0
    BY DEF Market!NoEntry
  <2>3. MarketTyped
    <3>1. mClock \in 0..MarketClock /\ version \in [Tickers -> 1..MaxVersion]
          /\ session \in BOOLEAN /\ initLock \in Workers \cup {"free"}
      <4>1. 0 \in 0..MarketClock /\ 1 \in 1..MaxVersion
        BY MarketAssumption
      <4> QED
        BY <2>1, <4>1
    <3>2. cache \in [Tickers -> [exists : BOOLEAN, version : Nat, cachedAt : Nat]] /\ served \in [Tickers -> Nat]
      BY <2>1, <2>2
    <3>3. mWork \in [Workers -> Errands] /\ \A t \in Workers : mWork[t].at = "idle"
      BY <2>1, NoErrand
    <3> QED
      BY <3>1, <3>2, <3>3 DEF MarketTyped
  <2>4. OneBootstraps
    BY <2>1, NoErrand DEF OneBootstraps
  <2>5. EntryWasServed
    BY <2>1, <2>2 DEF EntryWasServed
  <2>6. \A t \in Workers : FetchIsNoOlder(t)
    BY <2>1, NoErrand DEF FetchIsNoOlder
  <2> QED
    BY <2>3, <2>4, <2>5, <2>6 DEF MarketInv
<1>2. MarketInv /\ [Next]_vars => MarketInv'
  BY MarketSteps, StepsApart
<1> QED
  BY <1>1, <1>2, PTL DEF Spec

(* cache.py, yahoo_client: however the threads of a request overlap, what the service says of
   a ticker never goes back to an older version, when no fetch takes longer than an entry
   lives. *)
THEOREM AnswersNeverGoBack == FetchTime <= CacheTTL => (Spec => NeverGoesBack)
<1> SUFFICES ASSUME FetchTime <= CacheTTL PROVE Spec => NeverGoesBack
  OBVIOUS
<1> DEFINE OnlyForward == \A k \in Tickers : served'[k] >= served[k]
<1>1. MarketInv /\ [Next]_vars => [OnlyForward]_(Market!vars)
  <2> SUFFICES ASSUME MarketInv, [Next]_vars PROVE [OnlyForward]_(Market!vars)
    OBVIOUS
  <2>n. served \in [Tickers -> Nat]
    BY DEF MarketInv, MarketTyped
  <2>1. CASE UNCHANGED marketVars
    BY <2>1 DEF marketVars, Market!vars
  <2>2. ASSUME UNCHANGED served PROVE OnlyForward
    BY <2>2, <2>n
  <2>3. ASSUME NEW t \in Workers, NEW entry, NEW k \in Tickers, served' = [served EXCEPT ![k] = entry],
               entry >= served[k]
        PROVE  OnlyForward
    BY <2>n, <2>3
  <2>4. ASSUME NEW t \in Workers, Market!LookUp(t) PROVE OnlyForward
    <3> DEFINE k == mWork[t].ticker
    <3>1. mWork[t].at = "asked" /\ k \in Tickers
      BY <2>4 DEF Market!LookUp, Market!At, MarketInv, MarketTyped
    <3>2. CASE Market!Cached(k)
      <4>1. served' = [served EXCEPT ![k] = cache[k].version]
        BY <2>4, <3>2 DEF Market!LookUp, Market!Serve
      <4>2. cache[k].version = served[k]
        BY <3>1, <3>2 DEF Market!Cached, MarketInv, EntryWasServed
      <4> QED
        BY <2>n, <3>1, <4>1, <4>2
    <3>3. CASE ~Market!Cached(k)
      <4>1. UNCHANGED served
        BY <2>4, <3>3 DEF Market!LookUp
      <4> QED
        BY <2>2, <4>1
    <3> QED
      BY <3>2, <3>3
  <2>5. ASSUME NEW t \in Workers, Market!Keep(t) PROVE OnlyForward
    <3> DEFINE k == mWork[t].ticker
    <3>1. mWork[t].at = "fetched" /\ k \in Tickers /\ mWork[t] \in Errands /\ mClock \in Nat
          /\ cache \in [Tickers -> [exists : BOOLEAN, version : Nat, cachedAt : Nat]]
      BY <2>5 DEF Market!Keep, Market!At, MarketInv, MarketTyped
    <3>2. CASE Market!Cached(k)
      <4>1. served' = [served EXCEPT ![k] = cache[k].version]
        BY <2>5, <3>2 DEF Market!Keep, Market!IsThere, Market!Serve
      <4>2. cache[k].version = served[k]
        BY <3>1, <3>2 DEF Market!Cached, MarketInv, EntryWasServed
      <4> QED
        BY <2>n, <3>1, <4>1, <4>2
    <3>3. CASE ~Market!Cached(k)
      <4>1. served' = [served EXCEPT ![k] = mWork[t].data.version]
        BY <2>5, <3>3 DEF Market!Keep, Market!IsThere, Market!Serve
      <4>2. mWork[t].data.version \in Nat /\ mWork[t].data.readAt \in Nat /\ cache[k].cachedAt \in Nat
        BY <3>1 DEF Errands, Readings
      <4>3. \/ mWork[t].data.version >= served[k]
            \/ cache[k].exists /\ cache[k].cachedAt >= mWork[t].data.readAt
        BY <3>1 DEF MarketInv, FetchIsNoOlder
      <4>4. mClock <= mWork[t].data.readAt + FetchTime
        BY <3>1 DEF MarketInv, FetchIsNoOlder
      <4>5. mWork[t].data.version >= served[k]
        BY <3>1, <3>3, <4>2, <4>3, <4>4, MarketAssumption DEF Market!Cached
      <4> QED
        BY <2>n, <3>1, <4>1, <4>2, <4>5
    <3> QED
      BY <3>2, <3>3
  <2>6. ASSUME NEW t \in Workers, Market!GetDividendInfo(t) PROVE OnlyForward
    <3>1. ASSUME \/ Market!EnterBootstrap(t) \/ Market!Bootstrapped(t) \/ Market!BootstrapFails(t)
                 \/ Market!Fetched(t) \/ Market!Unauthorized(t) \/ Market!Refreshed(t) \/ Market!FetchFails(t)
          PROVE  UNCHANGED served
      BY <3>1 DEF Market!EnterBootstrap, Market!Bootstrapped, Market!BootstrapFails, Market!Fetched,
                  Market!Unauthorized, Market!Refreshed, Market!FetchFails
    <3>2. CASE Market!LookUp(t)
      BY <2>4, <3>2
    <3>3. CASE Market!Keep(t)
      BY <2>5, <3>3
    <3>4. CASE UNCHANGED served
      BY <2>2, <3>4
    <3> HIDE DEF OnlyForward
    <3> QED
      BY <2>6, <3>1, <3>2, <3>3, <3>4 DEF Market!GetDividendInfo
  <2>7. ASSUME \/ \E t \in Workers, k \in Tickers : Market!Ask(t, k)
               \/ \E k \in Tickers : Market!YahooChanges(k)
               \/ Market!Tick
        PROVE  UNCHANGED served
    BY <2>7 DEF Market!Ask, Market!YahooChanges, Market!Tick
  <2>8. CASE Market!Next
    BY <2>2, <2>6, <2>7, <2>8 DEF Market!Next
  <2> QED
    BY <2>1, <2>8, StepsApart
<1> QED
  BY <1>1, CacheFollowsWhatIsServed, PTL DEF Spec, NeverGoesBack, Market!NeverGoesBack

LEMMA MarketTypes == Spec => []Market!TypeOK
<1>1. MarketInv => Market!TypeOK
  <2> SUFFICES ASSUME MarketInv PROVE Market!TypeOK
    OBVIOUS
  <2>1. \A t \in Workers : mWork[t].attempt \in 0..MaxAttempts
    BY DEF MarketInv, MarketTyped, Errands
  <2> QED
    BY <2>1 DEF MarketInv, MarketTyped, OneBootstraps, EntryWasServed, Market!TypeOK, Market!At
<1> QED
  BY <1>1, CacheFollowsWhatIsServed, PTL
-----------------------------------------------------------------------------
(* The rates attached to trades (FxRates). *)

USE RatesAssumption

Configuration == [base : Currencies, hasKey : BOOLEAN, loaded : BOOLEAN]
EnrichedTrade == [date : Rates!Dates, ccy : Currencies \cup {"none"}]
Enrichments ==
    [at : {"idle", "memory", "stored", "fetch_historical", "persist", "historical", "cached_latest",
           "fetch_latest", "keep_latest", "latest", "shipped", "aborted"},
     trade : EnrichedTrade, now : Nat, quotedAt : Nat, rate : Rates!Key \cup {{}}]

\* What the provider gave for a key is kept under that key.
RowsHold(rows) == rows \subseteq Rates!Row /\ \A row \in rows : row.rate = row.key

\* The latest rates are no older than their entry says.
LatestHolds(entry, t0) ==
    /\ entry \in [exists : BOOLEAN, fetchedAt : Nat, quotedAt : Nat]
    /\ entry.fetchedAt <= entry.quotedAt /\ entry.quotedAt <= t0

\* What a thread has in hand when the base currency is `base`.
RateHolds(w, base, t0) ==
    /\ w.now <= t0 /\ w.quotedAt <= t0
    /\ w.at = "historical" => w.rate = [date |-> w.trade.date, base |-> base, ccy |-> w.trade.ccy]
    /\ w.at = "keep_latest" => w.now <= w.quotedAt
    /\ w.at = "latest" => w.now < w.quotedAt + RateTTL

RatesInv ==
    /\ fClock \in 0..RateClock /\ fRestarts \in 0..RateRestarts /\ config \in Configuration
    /\ RowsHold(mem) /\ RowsHold(store) /\ LatestHolds(latest, fClock)
    /\ fWork \in [Enrichers -> Enrichments]
    /\ \A t \in Enrichers : RateHolds(fWork[t], config.base, fClock)

LEMMA EnrichmentGoesOn ==
    ASSUME RatesInv, NEW t \in Enrichers, NEW w \in Enrichments, fWork' = [fWork EXCEPT ![t] = w],
           RateHolds(w, config.base, fClock), config' \in Configuration, config'.base = config.base,
           RowsHold(mem'), RowsHold(store'), LatestHolds(latest', fClock), UNCHANGED <<fClock, fRestarts>>
    PROVE  RatesInv'
<1>1. fWork' \in [Enrichers -> Enrichments] /\ fWork'[t] = w
      /\ \A u \in Enrichers : u # t => fWork'[u] = fWork[u]
  BY DEF RatesInv
<1>2. ASSUME NEW u \in Enrichers PROVE RateHolds(fWork'[u], config'.base, fClock')
  BY <1>1, <1>2 DEF RatesInv
<1>3. /\ fClock' \in 0..RateClock /\ fRestarts' \in 0..RateRestarts /\ config' \in Configuration
      /\ RowsHold(mem') /\ RowsHold(store') /\ LatestHolds(latest', fClock')
  BY DEF RatesInv
<1> QED
  BY <1>1, <1>2, <1>3 DEF RatesInv

\* Nothing in hand: without a rate, and before any.
LEMMA StartsIdle ==
    ASSUME NEW base, NEW t0 \in Nat
    PROVE  /\ Rates!Idle \in Enrichments /\ RateHolds(Rates!Idle, base, t0)
           /\ Rates!Idle.quotedAt = 0 /\ Rates!Idle.rate = {}
<1>1. 0 \in Rates!Dates
  BY DEF Rates!Dates
<1> QED
  BY <1>1 DEF Rates!Idle, Rates!NoTrade, Enrichments, EnrichedTrade, RateHolds

LEMMA NothingInHand ==
    ASSUME NEW place \in {"shipped", "aborted"}, NEW base, NEW t0 \in Nat
    PROVE  LET w == [Rates!Idle EXCEPT !.at = place] IN w \in Enrichments /\ RateHolds(w, base, t0)
<1>1. ASSUME NEW i \in Enrichments
      PROVE  [i EXCEPT !.at = place] \in Enrichments /\ [i EXCEPT !.at = place].at = place
  BY DEF Enrichments
<1> QED
  BY <1>1, StartsIdle DEF RateHolds

LEMMA ConfigsAreTyped ==
    ASSUME NEW c \in Rates!Configs
    PROVE  c \in Configuration
BY DEF Rates!Configs, Configuration

\* A row that was found is what the provider gave for the trade's key.
LEMMA FoundIsTrue ==
    ASSUME NEW rows, RowsHold(rows), NEW t \in Enrichers, NEW row \in Rates!Found(rows, t)
    PROVE  row \in rows /\ row.rate \in Rates!Key /\ row \in Rates!Row /\ row.key = row.rate
           /\ row.rate = [date |-> fWork[t].trade.date, base |-> config.base, ccy |-> fWork[t].trade.ccy]
<1>1. row \in rows /\ row \in Rates!Row /\ row.rate = row.key
  BY DEF Rates!Found, RowsHold
<1>2. row.key \in Rates!Key
  BY <1>1 DEF Rates!Row
<1>3. /\ row.key.date = fWork[t].trade.date /\ row.key.base = config.base
      /\ row.key.ccy = fWork[t].trade.ccy
  BY DEF Rates!Found, Rates!IsKey
<1>4. row.key = [date |-> row.key.date, base |-> row.key.base, ccy |-> row.key.ccy]
  BY <1>2 DEF Rates!Key
<1> QED
  BY <1>1, <1>2, <1>3, <1>4

\* What the provider answers, and the cache it goes into.
LEMMA FetchedIsTrue ==
    ASSUME NEW t \in Enrichers, fWork[t] \in Enrichments, config \in Configuration
    PROVE  RowsHold(Rates!FetchedRows(t))
<1>1. fWork[t].trade.date \in Rates!Dates /\ config.base \in Currencies
  BY DEF Enrichments, EnrichedTrade, Configuration
<1>2. ASSUME NEW c \in Quoted
      PROVE  [date |-> fWork[t].trade.date, base |-> config.base, ccy |-> c] \in Rates!Key
  BY <1>1 DEF Rates!Key
<1>3. ASSUME NEW k \in Rates!Key
      PROVE  LET row == [key |-> k, rate |-> k] IN row \in Rates!Row /\ row.rate = row.key
  BY DEF Rates!Row
<1> QED
  BY <1>2, <1>3 DEF Rates!FetchedRows, RowsHold

LEMMA ReplacedHolds ==
    ASSUME NEW rows, NEW new, RowsHold(rows), RowsHold(new)
    PROVE  RowsHold(Rates!Replaced(rows, new))
BY DEF RowsHold, Rates!Replaced

(* Each step of enrich_if_enabled. *)
LEMMA EnrichingKeepsRatesInv ==
    ASSUME RatesInv, NEW t \in Enrichers,
           \/ \E date \in Rates!Dates, ccy \in Currencies \cup {"none"} :
                  Rates!Enrich(t, [date |-> date, ccy |-> ccy])
           \/ Rates!LookupFails(t) \/ Rates!Aborts(t)
           \/ Rates!LookUpMemory(t) \/ Rates!LookUpStore(t) \/ Rates!FetchHistorical(t) \/ Rates!Persist(t)
           \/ Rates!LookUpLatest(t) \/ Rates!FetchLatest(t) \/ Rates!KeepLatest(t)
    PROVE  RatesInv'
<1>e. fWork[t] \in Enrichments /\ fWork \in [Enrichers -> Enrichments]
  BY DEF RatesInv
<1>c. config \in Configuration /\ fClock \in Nat
  BY DEF RatesInv
<1>h. RowsHold(mem) /\ RowsHold(store) /\ LatestHolds(latest, fClock) /\ RateHolds(fWork[t], config.base, fClock)
  BY DEF RatesInv
\* A step that leaves the configuration alone and takes t to w.
<1>m. ASSUME NEW w \in Enrichments, fWork' = [fWork EXCEPT ![t] = w], RateHolds(w, config.base, fClock),
             RowsHold(mem'), RowsHold(store'), LatestHolds(latest', fClock),
             UNCHANGED <<fClock, fRestarts, config>>
      PROVE  RatesInv'
  BY <1>c, <1>m, EnrichmentGoesOn
<1>s. ASSUME NEW place \in {"shipped", "aborted"}, Rates!Ends(t, place),
             RowsHold(mem'), RowsHold(store'), LatestHolds(latest', fClock),
             UNCHANGED <<fClock, fRestarts, config>>
      PROVE  RatesInv'
  <2> DEFINE w == [Rates!Idle EXCEPT !.at = place]
  <2>1. w \in Enrichments /\ RateHolds(w, config.base, fClock)
    BY <1>c, NothingInHand
  <2>2. fWork' = [fWork EXCEPT ![t] = w]
    BY <1>s DEF Rates!Ends
  <2> HIDE DEF w
  <2> QED
    BY <1>s, <1>m, <2>1, <2>2
<1>1. ASSUME NEW date \in Rates!Dates, NEW ccy \in Currencies \cup {"none"},
             Rates!Enrich(t, [date |-> date, ccy |-> ccy])
      PROVE  RatesInv'
  <2> DEFINE trade == [date |-> date, ccy |-> ccy]
             w == [Rates!Idle EXCEPT !.at = Rates!Way(trade), !.trade = trade,
                                     !.now = IF Rates!Way(trade) = "memory" THEN 0 ELSE fClock]
  <2>1. /\ config' = [config EXCEPT !.loaded = TRUE] /\ store' \in SUBSET store
        /\ UNCHANGED <<fClock, mem, latest, fRestarts>>
        /\ \/ Rates!Ends(t, "shipped")
           \/ Rates!Way(trade) # "shipped" /\ fWork' = [fWork EXCEPT ![t] = w]
    BY <1>1 DEF Rates!Enrich
  <2>2. config' \in Configuration /\ config'.base = config.base
    BY <1>c, <2>1 DEF Configuration
  <2>3. RowsHold(mem') /\ RowsHold(store') /\ LatestHolds(latest', fClock)
    BY <1>h, <2>1 DEF RowsHold
  <2>4. CASE Rates!Ends(t, "shipped")
    <3> DEFINE none == [Rates!Idle EXCEPT !.at = "shipped"]
    <3>1. none \in Enrichments /\ RateHolds(none, config.base, fClock)
      BY <1>c, NothingInHand
    <3>2. fWork' = [fWork EXCEPT ![t] = none]
      BY <2>4 DEF Rates!Ends
    <3> HIDE DEF none
    <3> QED
      BY <2>1, <2>2, <2>3, <3>1, <3>2, EnrichmentGoesOn
  <2>5. CASE Rates!Way(trade) # "shipped" /\ fWork' = [fWork EXCEPT ![t] = w]
    <3>1. Rates!Way(trade) \in {"memory", "cached_latest"} /\ trade \in EnrichedTrade
      BY <2>5 DEF Rates!Way, EnrichedTrade
    <3> HIDE DEF trade
    <3>i. Rates!Idle \in Enrichments /\ Rates!Idle.quotedAt = 0
      BY <1>c, StartsIdle
    <3>2. w.at = Rates!Way(trade) /\ w.quotedAt = 0 /\ w.now \in Nat /\ w.now <= fClock
      BY <1>c, <3>i DEF Enrichments
    <3>3. w \in Enrichments
      BY <1>c, <3>1, <3>i DEF Enrichments
    <3> HIDE DEF w
    <3>4. RateHolds(w, config.base, fClock)
      BY <1>c, <3>1, <3>2 DEF RateHolds
    <3> QED
      BY <2>1, <2>2, <2>3, <2>5, <3>3, <3>4, EnrichmentGoesOn
  <2> QED
    BY <2>1, <2>4, <2>5
<1>2. CASE Rates!LookupFails(t) \/ Rates!Aborts(t)
  <2>1. /\ \E place \in {"shipped", "aborted"} : Rates!Ends(t, place)
        /\ UNCHANGED <<fClock, config, mem, store, latest, fRestarts>>
    BY <1>2 DEF Rates!LookupFails, Rates!Aborts
  <2> QED
    BY <1>h, <1>s, <2>1
\* A row that was found, and nothing found.
<1>g. ASSUME NEW rows, RowsHold(rows), NEW row \in Rates!Found(rows, t), Rates!Gives(t, row.rate),
             RowsHold(mem'), RowsHold(store'), LatestHolds(latest', fClock),
             UNCHANGED <<fClock, fRestarts, config>>
      PROVE  RatesInv'
  <2> DEFINE w == [fWork[t] EXCEPT !.at = "historical", !.rate = row.rate]
  <2>1. row.rate \in Rates!Key
        /\ row.rate = [date |-> fWork[t].trade.date, base |-> config.base, ccy |-> fWork[t].trade.ccy]
    BY <1>g, FoundIsTrue
  <2>2. fWork' = [fWork EXCEPT ![t] = w]
    BY <1>g, <1>e DEF Rates!Gives
  <2>3. /\ w \in Enrichments /\ w.at = "historical" /\ w.rate = row.rate /\ w.trade = fWork[t].trade
        /\ w.now = fWork[t].now /\ w.quotedAt = fWork[t].quotedAt
    BY <1>e, <2>1 DEF Enrichments
  <2> HIDE DEF w
  <2>4. RateHolds(w, config.base, fClock)
    BY <1>h, <2>1, <2>3 DEF RateHolds
  <2> QED
    BY <1>g, <1>m, <2>2, <2>3, <2>4
<1>p. ASSUME NEW place \in {"stored", "fetch_historical", "persist", "fetch_latest"}, Rates!Moves(t, place),
             RowsHold(mem'), RowsHold(store'), LatestHolds(latest', fClock),
             UNCHANGED <<fClock, fRestarts, config>>
      PROVE  RatesInv'
  <2> DEFINE w == [fWork[t] EXCEPT !.at = place]
  <2>1. fWork' = [fWork EXCEPT ![t] = w]
    BY <1>p, <1>e DEF Rates!Moves
  <2>2. w \in Enrichments /\ w.at = place /\ w.now = fWork[t].now /\ w.quotedAt = fWork[t].quotedAt
    BY <1>e DEF Enrichments
  <2> HIDE DEF w
  <2>3. RateHolds(w, config.base, fClock)
    BY <1>h, <2>2 DEF RateHolds
  <2> QED
    BY <1>p, <1>m, <2>1, <2>2, <2>3
<1>3. CASE Rates!LookUpMemory(t)
  <2>1. UNCHANGED <<fClock, config, mem, store, latest, fRestarts>>
        /\ (Rates!Moves(t, "stored") \/ \E row \in Rates!Found(mem, t) : Rates!Gives(t, row.rate))
    BY <1>3 DEF Rates!LookUpMemory
  <2> QED
    BY <1>h, <1>g, <1>p, <2>1
<1>4. CASE Rates!LookUpStore(t)
  <2>1. /\ UNCHANGED <<fClock, config, store, latest, fRestarts>>
        /\ \/ \E row \in Rates!Found(store, t) : Rates!Gives(t, row.rate) /\ mem' = mem \cup {row}
           \/ Rates!Moves(t, "fetch_historical") /\ UNCHANGED mem
    BY <1>4 DEF Rates!LookUpStore
  <2>2. ASSUME NEW row \in Rates!Found(store, t), mem' = mem \cup {row} PROVE RowsHold(mem')
    <3>1. row \in Rates!Row /\ row.rate = row.key
      BY <1>h DEF Rates!Found, RowsHold
    <3> QED
      BY <1>h, <2>2, <3>1 DEF RowsHold
  <2> QED
    BY <1>h, <1>g, <1>p, <2>1, <2>2
<1>5. CASE Rates!FetchHistorical(t)
  <2>1. /\ mem' = Rates!Replaced(mem, Rates!FetchedRows(t)) /\ Rates!Moves(t, "persist")
        /\ UNCHANGED <<fClock, config, store, latest, fRestarts>>
    BY <1>5 DEF Rates!FetchHistorical
  <2>2. RowsHold(mem')
    BY <1>e, <1>c, <1>h, <2>1, FetchedIsTrue, ReplacedHolds
  <2> QED
    BY <1>h, <1>p, <2>1, <2>2
<1>6. CASE Rates!Persist(t)
  <2>1. /\ store' = Rates!Replaced(store, Rates!FetchedRows(t))
        /\ \/ \E row \in Rates!Found(Rates!FetchedRows(t), t) : Rates!Gives(t, row.rate)
           \/ Rates!Ends(t, "shipped")
        /\ UNCHANGED <<fClock, config, mem, latest, fRestarts>>
    BY <1>6 DEF Rates!Persist
  <2>2. RowsHold(Rates!FetchedRows(t)) /\ RowsHold(store')
    BY <1>e, <1>c, <1>h, <2>1, FetchedIsTrue, ReplacedHolds
  <2> QED
    BY <1>h, <1>g, <1>s, <2>1, <2>2
\* The latest rates are handed out while they are young.
<1>l. ASSUME NEW quotedAt \in Nat, quotedAt <= fClock, fWork[t].now < quotedAt + RateTTL,
             Rates!HandOut(t, quotedAt), RowsHold(mem'), RowsHold(store'), LatestHolds(latest', fClock),
             UNCHANGED <<fClock, fRestarts, config>>
      PROVE  RatesInv'
  <2>1. CASE Rates!Ends(t, "shipped")
    BY <1>l, <1>s, <2>1
  <2>2. CASE ~Rates!Ends(t, "shipped")
    <3> DEFINE w == [fWork[t] EXCEPT !.at = "latest", !.quotedAt = quotedAt]
    <3>1. fWork' = [fWork EXCEPT ![t] = w]
      BY <1>l, <1>e, <2>2 DEF Rates!HandOut
    <3>2. w \in Enrichments /\ w.at = "latest" /\ w.now = fWork[t].now /\ w.quotedAt = quotedAt
      BY <1>e DEF Enrichments
    <3> HIDE DEF w
    <3>3. RateHolds(w, config.base, fClock)
      BY <1>h, <1>l, <3>2 DEF RateHolds
    <3> QED
      BY <1>l, <1>m, <3>1, <3>2, <3>3
  <2> QED
    BY <2>1, <2>2
<1>7. CASE Rates!LookUpLatest(t)
  <2>1. UNCHANGED <<fClock, config, mem, store, latest, fRestarts>>
    BY <1>7 DEF Rates!LookUpLatest
  <2>2. CASE Rates!Moves(t, "fetch_latest")
    BY <1>h, <1>p, <2>1, <2>2
  <2>3. CASE ~Rates!Moves(t, "fetch_latest")
    <3>1. fWork[t].now < latest.fetchedAt + RateTTL /\ Rates!HandOut(t, latest.quotedAt)
      <4>1. latest.fetchedAt \in Nat /\ fWork[t].now \in Nat
        BY <1>h, <1>e DEF LatestHolds, Enrichments
      <4> QED
        BY <1>7, <2>3, <4>1 DEF Rates!LookUpLatest
    <3>2. latest.quotedAt \in Nat /\ latest.fetchedAt \in Nat /\ latest.fetchedAt <= latest.quotedAt
          /\ latest.quotedAt <= fClock /\ fWork[t].now \in Nat
      BY <1>h, <1>e DEF LatestHolds, Enrichments
    <3>3. fWork[t].now < latest.quotedAt + RateTTL
      BY <3>1, <3>2
    <3> QED
      BY <1>h, <1>l, <2>1, <3>1, <3>2, <3>3
  <2> QED
    BY <2>2, <2>3
<1>8. CASE Rates!FetchLatest(t)
  <2> DEFINE w == [fWork[t] EXCEPT !.at = "keep_latest", !.quotedAt = fClock]
  <2>1. fWork' = [fWork EXCEPT ![t] = w] /\ UNCHANGED <<fClock, config, mem, store, latest, fRestarts>>
    BY <1>8, <1>e DEF Rates!FetchLatest
  <2>2. w \in Enrichments /\ w.at = "keep_latest" /\ w.now = fWork[t].now /\ w.quotedAt = fClock
    BY <1>e, <1>c DEF Enrichments
  <2> HIDE DEF w
  <2>3. RateHolds(w, config.base, fClock)
    BY <1>h, <1>c, <2>2 DEF RateHolds
  <2> QED
    BY <1>h, <1>m, <2>1, <2>2, <2>3
<1>9. CASE Rates!KeepLatest(t)
  <2>1. /\ fWork[t].at = "keep_latest" /\ Rates!HandOut(t, fWork[t].quotedAt)
        /\ latest' = [exists |-> TRUE, fetchedAt |-> fWork[t].now, quotedAt |-> fWork[t].quotedAt]
        /\ UNCHANGED <<fClock, config, mem, store, fRestarts>>
    BY <1>9 DEF Rates!KeepLatest, Rates!At, Rates!FetchedAt
  <2>2. /\ fWork[t].now \in Nat /\ fWork[t].quotedAt \in Nat /\ fWork[t].now <= fWork[t].quotedAt
        /\ fWork[t].quotedAt <= fClock
    BY <1>h, <1>e, <2>1 DEF RateHolds, Enrichments
  <2>3. LatestHolds(latest', fClock)
    BY <2>1, <2>2 DEF LatestHolds
  <2>4. fWork[t].now < fWork[t].quotedAt + RateTTL
    BY <2>2
  <2> QED
    BY <1>h, <1>l, <2>1, <2>2, <2>3, <2>4
<1> QED
  BY <1>1, <1>2, <1>3, <1>4, <1>5, <1>6, <1>7, <1>8, <1>9

LEMMA RatesSteps ==
    ASSUME RatesInv, Rates!Next \/ UNCHANGED ratesVars
    PROVE  RatesInv'
<1>1. CASE Rates!Tick
  <2>1. fClock' = fClock + 1 /\ fClock < RateClock /\ UNCHANGED <<config, mem, store, latest, fWork, fRestarts>>
    BY <1>1 DEF Rates!Tick
  <2>2. fClock \in Nat /\ fClock' \in 0..RateClock
    BY <2>1 DEF RatesInv
  <2>3. LatestHolds(latest', fClock')
    BY <2>1, <2>2 DEF RatesInv, LatestHolds
  <2>4. ASSUME NEW t \in Enrichers PROVE RateHolds(fWork'[t], config'.base, fClock')
    <3>1. fWork[t].now \in Nat /\ fWork[t].quotedAt \in Nat
      BY DEF RatesInv, Enrichments
    <3> QED
      BY <2>1, <2>2, <3>1 DEF RatesInv, RateHolds
  <2> QED
    BY <2>1, <2>2, <2>3, <2>4 DEF RatesInv
<1>2. CASE Rates!Restart
  <2>1. /\ fRestarts' = fRestarts + 1 /\ fRestarts < RateRestarts /\ config' \in Rates!Configs
        /\ mem' = {} /\ latest' = Rates!NoEntry /\ fWork' = [t \in Enrichers |-> Rates!Idle]
        /\ UNCHANGED <<fClock, store>>
    BY <1>2 DEF Rates!Restart
  <2>2. config' \in Configuration /\ fRestarts' \in 0..RateRestarts /\ fClock \in Nat
    BY <2>1, ConfigsAreTyped DEF RatesInv
  <2>3. RowsHold(mem') /\ LatestHolds(latest', fClock')
    BY <2>1, <2>2 DEF RowsHold, LatestHolds, Rates!NoEntry
  <2>4. Rates!Idle \in Enrichments /\ RateHolds(Rates!Idle, config'.base, fClock)
    <3>1. fClock \in Nat
      BY <2>1, <2>2
    <3> QED
      BY <3>1, StartsIdle
  <2> QED
    BY <2>1, <2>2, <2>3, <2>4 DEF RatesInv
<1>3. CASE UNCHANGED ratesVars
  BY <1>3 DEF ratesVars, RatesInv
<1> QED
  BY <1>1, <1>2, <1>3, EnrichingKeepsRatesInv DEF Rates!Next

(* Every cache holds what the provider gave for its key, and the latest rates are no older
   than their entry says. *)
THEOREM CachesAreTrue == Spec => []RatesInv
<1>1. Init => RatesInv
  <2> SUFFICES ASSUME Init PROVE RatesInv
    OBVIOUS
  <2>1. /\ fClock = 0 /\ config \in Rates!Configs /\ mem = {} /\ store = {} /\ latest = Rates!NoEntry
        /\ fWork = [t \in Enrichers |-> Rates!Idle] /\ fRestarts = 0
    BY DEF Init, Rates!Init
  <2>2. config \in Configuration /\ fRestarts \in 0..RateRestarts /\ fClock \in 0..RateClock
    BY <2>1, ConfigsAreTyped
  <2>3. RowsHold(mem) /\ RowsHold(store) /\ LatestHolds(latest, fClock)
    BY <2>1 DEF RowsHold, LatestHolds, Rates!NoEntry
  <2>4. Rates!Idle \in Enrichments /\ RateHolds(Rates!Idle, config.base, fClock)
    <3>1. fClock \in Nat
      BY <2>1, <2>2
    <3> QED
      BY <3>1, StartsIdle
  <2> QED
    BY <2>1, <2>2, <2>3, <2>4 DEF RatesInv
<1>2. RatesInv /\ [Next]_vars => RatesInv'
  BY RatesSteps, StepsApart
<1> QED
  BY <1>1, <1>2, PTL DEF Spec

(* client.py, cache.py: a historical rate handed out is the provider's for the trade's date,
   currency and the base configured now; a latest one is younger than the TTL. *)
THEOREM RatesHandedOutAreTrue == Spec => []RatesAreTrue
<1>1. RatesInv => RatesAreTrue
  BY DEF RatesInv, RateHolds, RatesAreTrue, Rates!RatesAreTrue, Rates!At
<1> QED
  BY <1>1, CachesAreTrue, PTL

LEMMA RatesTypes == Spec => []Rates!TypeOK
<1>1. RatesInv => Rates!TypeOK
  <2> SUFFICES ASSUME RatesInv PROVE Rates!TypeOK
    OBVIOUS
  <2>1. ASSUME NEW rows, RowsHold(rows), NEW r \in rows, NEW s \in rows, r.key = s.key PROVE r = s
    <3>1. r = [key |-> r.key, rate |-> r.rate] /\ s = [key |-> s.key, rate |-> s.rate]
      BY <2>1 DEF RowsHold, Rates!Row
    <3> QED
      BY <2>1, <3>1 DEF RowsHold
  <2>2. latest.fetchedAt <= fClock /\ latest.quotedAt <= fClock
    BY DEF RatesInv, LatestHolds
  <2>3. \A t \in Enrichers : fWork[t].now <= fClock /\ fWork[t].quotedAt <= fClock
    BY DEF RatesInv, RateHolds
  <2>4. RowsHold(mem) /\ RowsHold(store) /\ mem \subseteq Rates!Row /\ store \subseteq Rates!Row
        /\ fClock \in 0..RateClock /\ fRestarts \in 0..RateRestarts
    BY DEF RatesInv, RowsHold
  <2>5. \A rows \in {mem, store} : \A r, s \in rows : r.key = s.key => r = s
    BY <2>1, <2>4
  <2> QED
    BY <2>2, <2>3, <2>4, <2>5 DEF Rates!TypeOK
<1> QED
  BY <1>1, CachesAreTrue, PTL
-----------------------------------------------------------------------------
(* The life of the droplet (Lifecycle). *)

USE CloudAssumption

Steps == {"none", "power_off", "snapshot", "unassign", "delete", "save",
          "create", "assign", "up", "delete_snapshot", "unlink",
          "import", "apply", "preserve", "destroy", "destroyed"}
CommandRecord == [name : {"none", "pause", "resume", "deploy", "destroy"}, step : Steps,
                  droplet : 0..MaxDroplets, snapshot : 0..MaxSnapshots]

MachinesTyped ==
    /\ machine \in [Cloud!Droplets -> {"none", "booting", "on", "stopping", "off", "deleted"}]
    /\ disk \in [Cloud!Droplets -> SUBSET written]
    /\ snapshots \in [Cloud!SnapIds -> {"none", "taking", "taken", "deleted"}]
    /\ image \in [Cloud!SnapIds -> SUBSET written]
    /\ written \subseteq Cloud!Records /\ forgone \subseteq written

NamesTyped ==
    /\ reservedIp \in 0..MaxDroplets /\ tfDroplet \in 0..MaxDroplets
    /\ pauseState \in 0..MaxSnapshots /\ tfIp \in BOOLEAN /\ ipExists \in BOOLEAN
    /\ reservedIp # 0 => ipExists
    /\ deaths \in 0..MaxDeaths /\ command \in CommandRecord

(* From the snapshot on, the droplet that is being paused stays off, and the snapshot has
   what its disk has. *)
PauseHolds ==
    command.name = "pause" =>
        /\ command.droplet \in Cloud!Droplets
        /\ command.step \in {"unassign", "delete"} =>
               /\ command.snapshot \in Cloud!SnapIds /\ machine[command.droplet] = "off"
               /\ image[command.snapshot] = disk[command.droplet]
        /\ command.step = "delete" => snapshots[command.snapshot] = "taken"

(* The droplet resume has made is there and has what the snapshot has. *)
ResumeHolds ==
    command.name = "resume" =>
        /\ command.snapshot \in Cloud!SnapIds
        /\ command.step \in {"assign", "up", "delete_snapshot"} =>
               /\ command.droplet \in Cloud!Droplets /\ Cloud!Exists(command.droplet)
               /\ image[command.snapshot] \subseteq disk[command.droplet]

Kept(r) ==
    \/ \E d \in Cloud!Droplets : Cloud!Exists(d) /\ r \in disk[d]
    \/ \E s \in Cloud!SnapIds : snapshots[s] = "taken" /\ r \in image[s]

AllKept == \A r \in written : r \in forgone \/ Kept(r)

CloudInv == MachinesTyped /\ NamesTyped /\ PauseHolds /\ ResumeHolds /\ AllKept

(* No disk that is there and no snapshot that is taken goes. *)
LEMMA NothingGoes ==
    ASSUME AllKept, UNCHANGED written, forgone \subseteq forgone',
           \A d \in Cloud!Droplets : Cloud!Exists(d) => Cloud!Exists(d)' /\ disk[d] \subseteq disk'[d],
           \A s \in Cloud!SnapIds : snapshots[s] = "taken" => snapshots'[s] = "taken" /\ image'[s] = image[s]
    PROVE  AllKept'
<1>1. ASSUME NEW r \in written, Kept(r) PROVE Kept(r)'
  BY <1>1 DEF Kept
<1> QED
  BY <1>1 DEF AllKept

(* A step of a command that touches neither a machine nor a snapshot. *)
LEMMA CommandMoves ==
    ASSUME CloudInv, UNCHANGED <<machine, disk, snapshots, image, written, forgone>>,
           NamesTyped', PauseHolds', ResumeHolds'
    PROVE  CloudInv'
<1>1. MachinesTyped'
  BY DEF CloudInv, MachinesTyped
<1>2. AllKept'
  BY DEF CloudInv, AllKept, Kept, Cloud!Exists
<1> QED
  BY <1>1, <1>2 DEF CloudInv

(* Goes(step): the command goes on with the droplet and the snapshot it has. *)
LEMMA CommandGoes ==
    ASSUME command \in CommandRecord, NEW to \in Steps, Cloud!Goes(to)
    PROVE  /\ command' \in CommandRecord /\ command'.step = to /\ command'.name = command.name
           /\ command'.droplet = command.droplet /\ command'.snapshot = command.snapshot
BY DEF Cloud!Goes, CommandRecord

LEMMA NoCommand == Cloud!Idle \in CommandRecord /\ Cloud!Idle.name = "none"
<1>1. 0 \in 0..MaxDroplets /\ 0 \in 0..MaxSnapshots
  BY CloudAssumption
<1> QED
  BY <1>1 DEF Cloud!Idle, CommandRecord, Steps

(* A command ends, dies or begins with a step that needs nothing. *)
LEMMA CommandsBeginAndEnd ==
    ASSUME CloudInv,
           \/ Cloud!Dies \/ Cloud!PauseBegins \/ Cloud!ResumeBegins \/ Cloud!DeployBegins \/ Cloud!DestroyBegins
           \/ Cloud!SavePauseState \/ Cloud!RemovePauseState \/ Cloud!CallRefused
           \/ Cloud!DeployUp \/ Cloud!DestroyEnds
    PROVE  CloudInv'
<1>t. NamesTyped /\ command \in CommandRecord
  BY DEF CloudInv, NamesTyped
<1>e. ASSUME command' = Cloud!Idle, UNCHANGED Cloud!cloud, UNCHANGED Cloud!ghost, UNCHANGED <<tfDroplet, tfIp>>,
             pauseState' \in 0..MaxSnapshots, deaths' \in 0..MaxDeaths
      PROVE  CloudInv'
  <2>1. UNCHANGED <<machine, disk, snapshots, image, written, forgone>> /\ UNCHANGED <<reservedIp, ipExists>>
    BY <1>e DEF Cloud!cloud, Cloud!ghost
  <2>2. command' \in CommandRecord /\ command'.name = "none"
    BY <1>e, NoCommand
  <2>3. NamesTyped'
    BY <1>t, <1>e, <2>1, <2>2 DEF NamesTyped
  <2>4. PauseHolds' /\ ResumeHolds'
    BY <2>2 DEF PauseHolds, ResumeHolds
  <2> QED
    BY <2>1, <2>3, <2>4, CommandMoves
<1>1. CASE Cloud!Dies
  <2>1. command' = Cloud!Idle /\ deaths < MaxDeaths /\ deaths' = deaths + 1
        /\ UNCHANGED Cloud!cloud /\ UNCHANGED Cloud!local /\ UNCHANGED Cloud!ghost
    BY <1>1 DEF Cloud!Dies, Cloud!Ends
  <2>2. pauseState' \in 0..MaxSnapshots /\ deaths' \in 0..MaxDeaths /\ UNCHANGED <<tfDroplet, tfIp>>
    BY <1>t, <2>1 DEF NamesTyped, Cloud!local
  <2> QED
    BY <1>e, <2>1, <2>2
<1>2. CASE Cloud!SavePauseState \/ Cloud!RemovePauseState
  <2>1. /\ command' = Cloud!Idle /\ pauseState' \in {command.snapshot, 0}
        /\ UNCHANGED Cloud!cloud /\ UNCHANGED Cloud!ghost /\ UNCHANGED <<tfDroplet, tfIp, deaths>>
    BY <1>2 DEF Cloud!SavePauseState, Cloud!RemovePauseState, Cloud!Ends
  <2>2. pauseState' \in 0..MaxSnapshots /\ deaths' \in 0..MaxDeaths
    BY <1>t, <2>1 DEF NamesTyped, CommandRecord
  <2> QED
    BY <1>e, <2>1, <2>2
<1>3. CASE Cloud!CallRefused \/ Cloud!DeployUp \/ Cloud!DestroyEnds
  <2>1. /\ command' = Cloud!Idle /\ UNCHANGED Cloud!cloud /\ UNCHANGED Cloud!local /\ UNCHANGED Cloud!ghost
        /\ UNCHANGED deaths
    BY <1>3 DEF Cloud!CallRefused, Cloud!DeployUp, Cloud!DestroyEnds, Cloud!Ends
  <2>2. pauseState' \in 0..MaxSnapshots /\ deaths' \in 0..MaxDeaths /\ UNCHANGED <<tfDroplet, tfIp>>
    BY <1>t, <2>1 DEF NamesTyped, Cloud!local
  <2> QED
    BY <1>e, <2>1, <2>2
\* A command begins.
<1>b. ASSUME command' \in CommandRecord, UNCHANGED Cloud!cloud, UNCHANGED Cloud!local, UNCHANGED Cloud!ghost,
             UNCHANGED deaths, PauseHolds', ResumeHolds'
      PROVE  CloudInv'
  <2>1. UNCHANGED <<machine, disk, snapshots, image, written, forgone>>
        /\ UNCHANGED <<reservedIp, ipExists, pauseState, tfDroplet, tfIp>>
    BY <1>b DEF Cloud!cloud, Cloud!ghost, Cloud!local
  <2>2. NamesTyped'
    BY <1>t, <1>b, <2>1 DEF NamesTyped
  <2> QED
    BY <1>b, <2>1, <2>2, CommandMoves
<1>4. CASE Cloud!PauseBegins
  <2>1. /\ command' = [name |-> "pause", step |-> "power_off", droplet |-> reservedIp, snapshot |-> 0]
        /\ reservedIp # 0 /\ UNCHANGED Cloud!cloud /\ UNCHANGED Cloud!local /\ UNCHANGED Cloud!ghost
        /\ UNCHANGED deaths
    BY <1>4 DEF Cloud!PauseBegins, Cloud!Exists
  <2>2. command' \in CommandRecord /\ reservedIp \in Cloud!Droplets
    <3>1. reservedIp \in 0..MaxDroplets /\ 0 \in 0..MaxSnapshots
      BY <1>t, CloudAssumption DEF NamesTyped
    <3>2. reservedIp \in Cloud!Droplets
      BY <2>1, <3>1 DEF Cloud!Droplets
    <3> QED
      BY <2>1, <3>1, <3>2 DEF CommandRecord, Steps
  <2>3. PauseHolds' /\ ResumeHolds'
    BY <2>1, <2>2 DEF PauseHolds, ResumeHolds
  <2> QED
    BY <1>b, <2>1, <2>2, <2>3
<1>5. CASE Cloud!ResumeBegins
  <2>1. /\ command' = [name |-> "resume", step |-> "create", droplet |-> 0, snapshot |-> pauseState]
        /\ pauseState # 0 /\ UNCHANGED Cloud!cloud /\ UNCHANGED Cloud!local /\ UNCHANGED Cloud!ghost
        /\ UNCHANGED deaths
    BY <1>5 DEF Cloud!ResumeBegins
  <2>2. command' \in CommandRecord /\ pauseState \in Cloud!SnapIds
    <3>1. pauseState \in 0..MaxSnapshots /\ 0 \in 0..MaxDroplets
      BY <1>t, CloudAssumption DEF NamesTyped
    <3>2. pauseState \in Cloud!SnapIds
      BY <2>1, <3>1 DEF Cloud!SnapIds
    <3> QED
      BY <2>1, <3>1, <3>2 DEF CommandRecord, Steps
  <2>3. PauseHolds' /\ ResumeHolds'
    BY <2>1, <2>2 DEF PauseHolds, ResumeHolds
  <2> QED
    BY <1>b, <2>1, <2>2, <2>3
<1>6. CASE Cloud!DeployBegins \/ Cloud!DestroyBegins
  <2>1. /\ \/ command' = [Cloud!Idle EXCEPT !.name = "deploy", !.step = "import"]
           \/ command' = [Cloud!Idle EXCEPT !.name = "destroy", !.step = "preserve"]
        /\ UNCHANGED Cloud!cloud /\ UNCHANGED Cloud!local /\ UNCHANGED Cloud!ghost /\ UNCHANGED deaths
    BY <1>6 DEF Cloud!DeployBegins, Cloud!DestroyBegins
  <2>2. command' \in CommandRecord /\ command'.name \in {"deploy", "destroy"}
    BY <2>1, NoCommand DEF CommandRecord, Steps
  <2>3. PauseHolds' /\ ResumeHolds'
    BY <2>2 DEF PauseHolds, ResumeHolds
  <2> QED
    BY <1>b, <2>1, <2>2, <2>3
<1> QED
  BY <1>1, <1>2, <1>3, <1>4, <1>5, <1>6

(* The droplet is powered off, imaged and deleted. *)
LEMMA PausingKeepsCloudInv ==
    ASSUME CloudInv, Cloud!PauseStep
    PROVE  CloudInv'
<1> DEFINE d == command.droplet
           snapshot == command.snapshot
<1>t. MachinesTyped /\ NamesTyped /\ command \in CommandRecord /\ PauseHolds /\ AllKept
  BY DEF CloudInv, NamesTyped
<1>1. CASE Cloud!PowerOff
  <2>1. /\ command.name = "pause" /\ machine[d] \in {"on", "stopping", "off"}
        /\ machine' = [machine EXCEPT ![d] = IF machine[d] = "off" THEN machine[d] ELSE "stopping"]
        /\ Cloud!Goes("snapshot") /\ UNCHANGED <<disk, snapshots, image, reservedIp, ipExists>>
        /\ UNCHANGED Cloud!local /\ UNCHANGED deaths /\ UNCHANGED Cloud!ghost
    BY <1>1 DEF Cloud!PowerOff, Cloud!At
  <2>2. command' \in CommandRecord /\ command'.name = "pause" /\ command'.step = "snapshot" /\ command'.droplet = d
    BY <1>t, <2>1, CommandGoes DEF Steps
  <2>3. d \in Cloud!Droplets
    BY <1>t, <2>1 DEF PauseHolds
  <2> HIDE DEF d
  <2>4. MachinesTyped' /\ UNCHANGED <<written, forgone>>
    BY <1>t, <2>1, <2>3 DEF MachinesTyped, Cloud!ghost
  <2>5. NamesTyped'
    BY <1>t, <2>1, <2>2 DEF NamesTyped, Cloud!local
  <2>6. PauseHolds' /\ ResumeHolds'
    BY <2>2, <2>3 DEF PauseHolds, ResumeHolds
  <2>7. AllKept'
    <3>1. \A e \in Cloud!Droplets : Cloud!Exists(e) => Cloud!Exists(e)'
      BY <1>t, <2>1, <2>3 DEF MachinesTyped, Cloud!Exists
    <3> QED
      BY <1>t, <2>1, <2>4, <3>1, NothingGoes
  <2> QED
    BY <2>4, <2>5, <2>6, <2>7 DEF CloudInv
<1>2. ASSUME NEW s \in Cloud!NewSnapshot, Cloud!TakeSnapshot(s) PROVE CloudInv'
  <2>1. /\ command.name = "pause" /\ machine[d] = "off"
        /\ snapshots' = [snapshots EXCEPT ![s] = "taking"] /\ image' = [image EXCEPT ![s] = disk[d]]
        /\ command' = [command EXCEPT !.step = "unassign", !.snapshot = s]
        /\ UNCHANGED <<machine, disk, reservedIp, ipExists>>
        /\ UNCHANGED Cloud!local /\ UNCHANGED deaths /\ UNCHANGED Cloud!ghost
    BY <1>2 DEF Cloud!TakeSnapshot, Cloud!At, Cloud!PoweredOff
  <2>2. s \in Cloud!SnapIds /\ snapshots[s] = "none" /\ s \in 0..MaxSnapshots
    BY DEF Cloud!NewSnapshot, Cloud!Lowest, Cloud!SnapIds
  <2>3. /\ command' \in CommandRecord /\ command'.name = "pause" /\ command'.step = "unassign"
        /\ command'.droplet = d /\ command'.snapshot = s
    BY <1>t, <2>1, <2>2 DEF CommandRecord, Steps
  <2>4. d \in Cloud!Droplets
    BY <1>t, <2>1 DEF PauseHolds
  <2> HIDE DEF d
  <2>5. MachinesTyped' /\ UNCHANGED <<written, forgone>>
    BY <1>t, <2>1, <2>2, <2>4 DEF MachinesTyped, Cloud!ghost
  <2>6. NamesTyped'
    BY <1>t, <2>1, <2>3 DEF NamesTyped, Cloud!local
  <2>7. image'[s] = disk[d] /\ \A other \in Cloud!SnapIds : other # s => /\ image'[other] = image[other]
                                                                     /\ snapshots'[other] = snapshots[other]
    BY <1>t, <2>1, <2>2 DEF MachinesTyped
  <2>8. PauseHolds' /\ ResumeHolds'
    BY <2>1, <2>2, <2>3, <2>4, <2>7 DEF PauseHolds, ResumeHolds
  <2>9. AllKept'
    <3>1. \A e \in Cloud!Droplets : Cloud!Exists(e) => Cloud!Exists(e)'
      BY <2>1 DEF Cloud!Exists
    <3> QED
      BY <1>t, <2>1, <2>2, <2>5, <2>7, <3>1, NothingGoes
  <2> QED
    BY <2>5, <2>6, <2>8, <2>9 DEF CloudInv
<1>3. CASE Cloud!Unassign
  <2>1. /\ command.name = "pause" /\ command.step = "unassign" /\ snapshots[snapshot] = "taken" /\ reservedIp' = 0
        /\ Cloud!Goes("delete") /\ UNCHANGED <<machine, disk, snapshots, image, ipExists>>
        /\ UNCHANGED Cloud!local /\ UNCHANGED deaths /\ UNCHANGED <<written, forgone>>
    BY <1>3 DEF Cloud!Unassign, Cloud!At, Cloud!ghost
  <2>2. /\ command' \in CommandRecord /\ command'.name = "pause" /\ command'.step = "delete"
        /\ command'.droplet = d /\ command'.snapshot = snapshot
    BY <1>t, <2>1, CommandGoes DEF Steps
  <2>3. NamesTyped'
    <3>1. reservedIp' \in 0..MaxDroplets
      BY <2>1, CloudAssumption
    <3> QED
      BY <1>t, <2>1, <2>2, <3>1 DEF NamesTyped, Cloud!local
  <2>4. PauseHolds' /\ ResumeHolds'
    BY <1>t, <2>1, <2>2 DEF PauseHolds, ResumeHolds
  <2> QED
    BY <2>1, <2>3, <2>4, CommandMoves
<1>4. CASE Cloud!DeleteDroplet
  <2>1. /\ command.name = "pause" /\ command.step = "delete"
        /\ machine' = [machine EXCEPT ![d] = "deleted"]
        /\ Cloud!Goes("save") /\ UNCHANGED <<disk, snapshots, image, reservedIp, ipExists>>
        /\ UNCHANGED Cloud!local /\ UNCHANGED deaths /\ UNCHANGED <<written, forgone>>
    BY <1>4 DEF Cloud!DeleteDroplet, Cloud!At, Cloud!ghost
  <2>2. command' \in CommandRecord /\ command'.name = "pause" /\ command'.step = "save" /\ command'.droplet = d
    BY <1>t, <2>1, CommandGoes DEF Steps
  <2>3. /\ d \in Cloud!Droplets /\ snapshot \in Cloud!SnapIds
        /\ snapshots[snapshot] = "taken" /\ image[snapshot] = disk[d]
    BY <1>t, <2>1 DEF PauseHolds
  <2> HIDE DEF d, snapshot
  <2>4. MachinesTyped'
    BY <1>t, <2>1, <2>3 DEF MachinesTyped
  <2>5. NamesTyped'
    BY <1>t, <2>1, <2>2 DEF NamesTyped, Cloud!local
  <2>6. PauseHolds' /\ ResumeHolds'
    BY <2>2, <2>3 DEF PauseHolds, ResumeHolds
  <2>7. ASSUME NEW r \in written, r \notin forgone PROVE Kept(r)'
    <3>1. ASSUME NEW e \in Cloud!Droplets, Cloud!Exists(e), r \in disk[e] PROVE Kept(r)'
      <4>1. CASE e = d
        BY <2>1, <2>3, <3>1, <4>1 DEF Kept
      <4>2. CASE e # d
        <5>1. Cloud!Exists(e)'
          BY <1>t, <2>1, <3>1, <4>2 DEF MachinesTyped, Cloud!Exists
        <5> QED
          BY <2>1, <3>1, <5>1 DEF Kept
      <4> QED
        BY <4>1, <4>2
    <3>2. ASSUME NEW s \in Cloud!SnapIds, snapshots[s] = "taken", r \in image[s] PROVE Kept(r)'
      BY <2>1, <3>2 DEF Kept
    <3> QED
      BY <1>t, <2>7, <3>1, <3>2 DEF AllKept, Kept
  <2> QED
    BY <2>1, <2>4, <2>5, <2>6, <2>7 DEF CloudInv, AllKept
<1> QED
  BY <1>1, <1>2, <1>3, <1>4, CommandsBeginAndEnd DEF Cloud!PauseStep

(* A droplet is made of the snapshot, which goes when the stack is up. *)
LEMMA ResumingKeepsCloudInv ==
    ASSUME CloudInv, Cloud!ResumeStep
    PROVE  CloudInv'
<1> DEFINE d == command.droplet
           snapshot == command.snapshot
<1>t. MachinesTyped /\ NamesTyped /\ command \in CommandRecord /\ ResumeHolds /\ AllKept
  BY DEF CloudInv, NamesTyped
<1>1. ASSUME NEW e \in Cloud!NewDroplet, Cloud!CreateDroplet(e) PROVE CloudInv'
  <2>1. /\ command.name = "resume" /\ machine' = [machine EXCEPT ![e] = "booting"]
        /\ disk' = [disk EXCEPT ![e] = image[snapshot]] /\ snapshots' = snapshots
        /\ command' = [command EXCEPT !.step = "assign", !.droplet = e]
        /\ UNCHANGED <<image, reservedIp, ipExists>>
        /\ UNCHANGED Cloud!local /\ UNCHANGED deaths /\ UNCHANGED <<written, forgone>>
    BY <1>1 DEF Cloud!CreateDroplet, Cloud!At, Cloud!ImageKept, Cloud!ghost
  <2>2. e \in Cloud!Droplets /\ ~Cloud!Exists(e) /\ e \in 0..MaxDroplets
    BY DEF Cloud!NewDroplet, Cloud!Lowest, Cloud!Droplets
  <2>3. /\ command' \in CommandRecord /\ command'.name = "resume" /\ command'.step = "assign"
        /\ command'.droplet = e /\ command'.snapshot = snapshot
    BY <1>t, <2>1, <2>2 DEF CommandRecord, Steps
  <2>4. snapshot \in Cloud!SnapIds
    BY <1>t, <2>1 DEF ResumeHolds
  <2> HIDE DEF d, snapshot
  <2>5. MachinesTyped'
    BY <1>t, <2>1, <2>2, <2>4 DEF MachinesTyped
  <2>6. NamesTyped'
    BY <1>t, <2>1, <2>3 DEF NamesTyped, Cloud!local
  <2>7. /\ machine'[e] = "booting" /\ disk'[e] = image[snapshot] /\ e # 0
        /\ \A o \in Cloud!Droplets : o # e => machine'[o] = machine[o] /\ disk'[o] = disk[o]
    BY <1>t, <2>1, <2>2 DEF MachinesTyped, Cloud!Droplets
  <2>8. PauseHolds' /\ ResumeHolds'
    BY <2>1, <2>2, <2>3, <2>4, <2>7 DEF PauseHolds, ResumeHolds, Cloud!Exists
  <2>9. AllKept'
    <3>1. \A o \in Cloud!Droplets : Cloud!Exists(o) => Cloud!Exists(o)' /\ disk[o] \subseteq disk'[o]
      BY <2>2, <2>7 DEF Cloud!Exists
    <3> QED
      BY <1>t, <2>1, <3>1, NothingGoes
  <2> QED
    BY <2>5, <2>6, <2>8, <2>9 DEF CloudInv
<1>2. CASE Cloud!AssignIp \/ Cloud!ResumeUp
  <2>1. /\ command.name = "resume" /\ command.step \in {"assign", "up"}
        /\ \E to \in {"up", "delete_snapshot"} : Cloud!Goes(to)
        /\ reservedIp' \in {reservedIp, d} /\ (reservedIp' # reservedIp => ipExists)
        /\ UNCHANGED <<machine, disk, snapshots, image, written, forgone>>
        /\ UNCHANGED ipExists /\ UNCHANGED Cloud!local /\ UNCHANGED deaths
    BY <1>2 DEF Cloud!AssignIp, Cloud!ResumeUp, Cloud!At, Cloud!ghost, Cloud!cloud
  <2>2. /\ command' \in CommandRecord /\ command'.name = "resume"
        /\ command'.droplet = d /\ command'.snapshot = snapshot
    BY <1>t, <2>1, CommandGoes DEF Steps
  <2>3. /\ snapshot \in Cloud!SnapIds /\ d \in Cloud!Droplets /\ Cloud!Exists(d) /\ image[snapshot] \subseteq disk[d]
    BY <1>t, <2>1 DEF ResumeHolds
  <2>4. d \in 0..MaxDroplets
    BY <1>t DEF CommandRecord
  <2> HIDE DEF d, snapshot
  <2>5. NamesTyped'
    BY <1>t, <2>1, <2>2, <2>4 DEF NamesTyped, Cloud!local
  <2>6. PauseHolds' /\ ResumeHolds'
    <3>1. d # 0 /\ machine'[d] \notin {"none", "deleted"} /\ image'[snapshot] \subseteq disk'[d]
      BY <2>1, <2>3 DEF Cloud!Exists
    <3> QED
      BY <2>2, <2>3, <3>1 DEF PauseHolds, ResumeHolds, Cloud!Exists
  <2> QED
    BY <2>1, <2>5, <2>6, CommandMoves
<1>3. CASE Cloud!DeleteSnapshot
  <2>1. /\ command.name = "resume" /\ command.step = "delete_snapshot"
        /\ snapshots' = [snapshots EXCEPT ![snapshot] = "deleted"] /\ Cloud!Goes("unlink")
        /\ UNCHANGED <<machine, disk, image, reservedIp, ipExists>>
        /\ UNCHANGED Cloud!local /\ UNCHANGED deaths /\ UNCHANGED <<written, forgone>>
    BY <1>3 DEF Cloud!DeleteSnapshot, Cloud!At, Cloud!ghost
  <2>2. /\ command' \in CommandRecord /\ command'.name = "resume" /\ command'.step = "unlink"
        /\ command'.snapshot = snapshot
    BY <1>t, <2>1, CommandGoes DEF Steps
  <2>3. /\ snapshot \in Cloud!SnapIds /\ d \in Cloud!Droplets /\ Cloud!Exists(d) /\ image[snapshot] \subseteq disk[d]
    BY <1>t, <2>1 DEF ResumeHolds
  <2> HIDE DEF d, snapshot
  <2>4. MachinesTyped'
    BY <1>t, <2>1, <2>3 DEF MachinesTyped
  <2>5. NamesTyped'
    BY <1>t, <2>1, <2>2 DEF NamesTyped, Cloud!local
  <2>6. PauseHolds' /\ ResumeHolds'
    BY <2>2, <2>3 DEF PauseHolds, ResumeHolds
  <2>7. ASSUME NEW r \in written, r \notin forgone PROVE Kept(r)'
    <3>1. ASSUME NEW e \in Cloud!Droplets, Cloud!Exists(e), r \in disk[e] PROVE Kept(r)'
      BY <2>1, <3>1 DEF Kept, Cloud!Exists
    <3>2. ASSUME NEW s \in Cloud!SnapIds, snapshots[s] = "taken", r \in image[s] PROVE Kept(r)'
      <4>1. CASE s = snapshot
        BY <2>3, <3>1, <3>2, <4>1
      <4>2. CASE s # snapshot
        <5>1. snapshots'[s] = "taken"
          BY <1>t, <2>1, <3>2, <4>2 DEF MachinesTyped
        <5> QED
          BY <2>1, <3>2, <5>1 DEF Kept
      <4> QED
        BY <4>1, <4>2
    <3> QED
      BY <1>t, <2>7, <3>1, <3>2 DEF AllKept, Kept
  <2> QED
    BY <2>1, <2>4, <2>5, <2>6, <2>7 DEF CloudInv, AllKept
<1> QED
  BY <1>1, <1>2, <1>3, CommandsBeginAndEnd DEF Cloud!ResumeStep

(* Terraform's droplet comes into being, or goes with what is on its disk. *)
LEMMA TerraformKeepsCloudInv ==
    ASSUME CloudInv, Cloud!DeployStep \/ Cloud!DestroyStep
    PROVE  CloudInv'
<1>t. MachinesTyped /\ NamesTyped /\ command \in CommandRecord /\ AllKept
  BY DEF CloudInv, NamesTyped
<1>1. CASE Cloud!ImportIp \/ Cloud!PreserveIp
  <2>1. /\ command.name \in {"deploy", "destroy"} /\ tfIp' \in {ipExists, FALSE, tfIp}
        /\ \E to \in {"apply", "destroy"} : Cloud!Goes(to)
        /\ UNCHANGED <<machine, disk, snapshots, image, written, forgone>>
        /\ UNCHANGED <<reservedIp, ipExists, pauseState, tfDroplet, deaths>>
    BY <1>1 DEF Cloud!ImportIp, Cloud!PreserveIp, Cloud!At, Cloud!cloud, Cloud!ghost
  <2>2. command' \in CommandRecord /\ command'.name \in {"deploy", "destroy"}
    BY <1>t, <2>1, CommandGoes DEF Steps
  <2>3. NamesTyped'
    BY <1>t, <2>1, <2>2 DEF NamesTyped
  <2>4. PauseHolds' /\ ResumeHolds'
    BY <2>2 DEF PauseHolds, ResumeHolds
  <2> QED
    BY <2>1, <2>3, <2>4, CommandMoves
<1>2. ASSUME NEW d \in Cloud!Droplets, Cloud!Apply(d) PROVE CloudInv'
  <2>1. /\ command.name = "deploy"
        /\ \/ Cloud!Exists(d) /\ machine' = machine
           \/ ~Cloud!Exists(d) /\ machine' = [machine EXCEPT ![d] = "booting"]
        /\ disk' = [disk EXCEPT ![d] = IF Cloud!Exists(d) THEN disk[d] ELSE {}]
        /\ tfDroplet' = d /\ reservedIp' = d /\ ipExists' = TRUE /\ tfIp' = TRUE
        /\ command' = [command EXCEPT !.step = "up", !.droplet = d]
        /\ UNCHANGED <<snapshots, image, pauseState, deaths>> /\ UNCHANGED <<written, forgone>>
    BY <1>2 DEF Cloud!Apply, Cloud!At, Cloud!ghost, Cloud!NewDroplet, Cloud!Lowest
  <2>2. d \in 0..MaxDroplets /\ d # 0
    BY DEF Cloud!Droplets
  <2>3. command' \in CommandRecord /\ command'.name = "deploy"
    BY <1>t, <2>1, <2>2 DEF CommandRecord, Steps
  <2>4. MachinesTyped'
    BY <1>t, <2>1 DEF MachinesTyped
  <2>5. NamesTyped'
    BY <1>t, <2>1, <2>2, <2>3 DEF NamesTyped
  <2>6. PauseHolds' /\ ResumeHolds'
    BY <2>3 DEF PauseHolds, ResumeHolds
  <2>7. AllKept'
    <3>1. \A e \in Cloud!Droplets : Cloud!Exists(e) => Cloud!Exists(e)' /\ disk[e] \subseteq disk'[e]
      BY <1>t, <2>1 DEF MachinesTyped, Cloud!Exists
    <3> QED
      BY <1>t, <2>1, <3>1, NothingGoes
  <2> QED
    BY <2>4, <2>5, <2>6, <2>7 DEF CloudInv
<1>3. ASSUME NEW d \in Cloud!Droplets, Cloud!Replace(d) PROVE CloudInv'
  <2>1. /\ command.name = "deploy" /\ Cloud!Exists(tfDroplet) /\ ~Cloud!Exists(d) /\ d # tfDroplet
        /\ machine' = [machine EXCEPT ![tfDroplet] = "deleted", ![d] = "booting"]
        /\ disk' = [disk EXCEPT ![d] = {}]
        /\ forgone' = forgone \cup disk[tfDroplet]
        /\ tfDroplet' = d /\ reservedIp' = d /\ ipExists' = TRUE /\ tfIp' = TRUE
        /\ command' = [command EXCEPT !.step = "up", !.droplet = d]
        /\ UNCHANGED <<snapshots, image, pauseState, deaths, written>>
    BY <1>3 DEF Cloud!Replace, Cloud!At, Cloud!NewDroplet, Cloud!Lowest
  <2>2. d \in 0..MaxDroplets /\ d # 0 /\ tfDroplet \in Cloud!Droplets
    <3>1. tfDroplet \in 0..MaxDroplets /\ tfDroplet # 0 /\ MaxDroplets \in Nat
      BY <1>t, <2>1, CloudAssumption DEF NamesTyped, Cloud!Exists
    <3>2. Cloud!Droplets = 1..MaxDroplets
      BY DEF Cloud!Droplets
    <3>3. tfDroplet \in Cloud!Droplets
      BY <3>1, <3>2
    <3>4. d \in 0..MaxDroplets /\ d # 0
      BY <3>1, <3>2
    <3> QED
      BY <3>3, <3>4
  <2>3. command' \in CommandRecord /\ command'.name = "deploy"
    BY <1>t, <2>1, <2>2 DEF CommandRecord, Steps
  <2>4. MachinesTyped'
    <3>1. forgone' \subseteq written /\ disk[tfDroplet] \subseteq written
      BY <1>t, <2>1, <2>2 DEF MachinesTyped
    <3> QED
      BY <1>t, <2>1, <2>2, <3>1 DEF MachinesTyped
  <2>5. NamesTyped'
    BY <1>t, <2>1, <2>2, <2>3 DEF NamesTyped
  <2>6. PauseHolds' /\ ResumeHolds'
    BY <2>3 DEF PauseHolds, ResumeHolds
  <2>7. ASSUME NEW r \in written, r \notin forgone' PROVE Kept(r)'
    <3>1. ASSUME NEW e \in Cloud!Droplets, Cloud!Exists(e), r \in disk[e] PROVE Kept(r)'
      <4>1. e # tfDroplet /\ e # d
        BY <2>1, <2>7, <3>1
      <4>2. Cloud!Exists(e)' /\ disk'[e] = disk[e]
        BY <1>t, <2>1, <3>1, <4>1 DEF Cloud!Exists, MachinesTyped
      <4> QED
        BY <3>1, <4>2 DEF Kept
    <3>2. ASSUME NEW s \in Cloud!SnapIds, snapshots[s] = "taken", r \in image[s] PROVE Kept(r)'
      BY <2>1, <3>2 DEF Kept
    <3>3. r \notin forgone
      BY <2>1, <2>7
    <3> QED
      BY <1>t, <3>1, <3>2, <3>3 DEF AllKept, Kept
  <2> QED
    BY <2>1, <2>4, <2>5, <2>6, <2>7 DEF CloudInv, AllKept
<1>4. CASE Cloud!Destroy
  <2>1. /\ command.name = "destroy"
        /\ machine' = [d \in Cloud!Droplets |-> IF d = tfDroplet /\ Cloud!Exists(d) THEN "deleted" ELSE machine[d]]
        /\ reservedIp' = IF tfIp \/ reservedIp = tfDroplet THEN 0 ELSE reservedIp
        /\ ipExists' = (ipExists /\ ~tfIp)
        /\ tfDroplet' = 0 /\ tfIp' = FALSE /\ Cloud!Goes("destroyed")
        /\ forgone' = forgone \cup UNION {disk[d] : d \in {e \in Cloud!Droplets : e = tfDroplet /\ Cloud!Exists(e)}}
        /\ UNCHANGED <<disk, snapshots, image, pauseState, deaths, written>>
    BY <1>4 DEF Cloud!Destroy, Cloud!At
  <2>2. command' \in CommandRecord /\ command'.name = "destroy"
    BY <1>t, <2>1, CommandGoes DEF Steps
  <2>3. MachinesTyped'
    <3>1. machine' \in [Cloud!Droplets -> {"none", "booting", "on", "stopping", "off", "deleted"}]
      BY <1>t, <2>1 DEF MachinesTyped
    <3>2. forgone' \subseteq written
      BY <1>t, <2>1 DEF MachinesTyped
    <3> QED
      BY <1>t, <2>1, <3>1, <3>2 DEF MachinesTyped
  <2>4. NamesTyped'
    <3>1. 0 \in 0..MaxDroplets
      BY CloudAssumption
    <3>2. reservedIp' \in 0..MaxDroplets /\ ipExists' \in BOOLEAN /\ (reservedIp' # 0 => ipExists')
      BY <1>t, <2>1, <3>1 DEF NamesTyped
    <3> QED
      BY <1>t, <2>1, <2>2, <3>1, <3>2 DEF NamesTyped
  <2>5. PauseHolds' /\ ResumeHolds'
    BY <2>2 DEF PauseHolds, ResumeHolds
  <2>6. ASSUME NEW r \in written, r \notin forgone' PROVE Kept(r)'
    <3>0. r \notin forgone
      BY <2>1, <2>6
    <3>1. ASSUME NEW e \in Cloud!Droplets, Cloud!Exists(e), r \in disk[e] PROVE Kept(r)'
      <4>1. e # tfDroplet
        BY <2>1, <2>6, <3>1
      <4>2. Cloud!Exists(e)'
        BY <2>1, <3>1, <4>1 DEF Cloud!Exists
      <4> QED
        BY <2>1, <3>1, <4>2 DEF Kept
    <3>2. ASSUME NEW s \in Cloud!SnapIds, snapshots[s] = "taken", r \in image[s] PROVE Kept(r)'
      BY <2>1, <3>2 DEF Kept
    <3> QED
      BY <1>t, <3>0, <3>1, <3>2 DEF AllKept, Kept
  <2> QED
    BY <2>1, <2>3, <2>4, <2>5, <2>6 DEF CloudInv, AllKept
<1> QED
  BY <1>1, <1>2, <1>3, <1>4, CommandsBeginAndEnd DEF Cloud!DeployStep, Cloud!DestroyStep

(* The machines, the snapshots and the relay go on by themselves. *)
LEMMA MachinesKeepCloudInv ==
    ASSUME CloudInv,
           \/ Cloud!CloudStep
           \/ \E d \in Cloud!Droplets : Cloud!TurnedOn(d) \/ \E r \in Cloud!Records : Cloud!RelayWrites(d, r)
    PROVE  CloudInv'
<1>t. MachinesTyped /\ NamesTyped /\ command \in CommandRecord /\ PauseHolds /\ ResumeHolds /\ AllKept
  BY DEF CloudInv, NamesTyped
<1>1. ASSUME NEW d \in Cloud!Droplets, Cloud!Boots(d) \/ Cloud!Stops(d) \/ Cloud!TurnedOn(d) PROVE CloudInv'
  <2>1. /\ \/ machine[d] \in {"booting", "stopping"}
           \/ command = Cloud!Idle /\ machine[d] = "off"
        /\ \E to \in {"on", "off"} : machine' = [machine EXCEPT ![d] = to]
        /\ UNCHANGED <<disk, snapshots, image, reservedIp, ipExists, command, deaths>>
        /\ UNCHANGED Cloud!local /\ UNCHANGED <<written, forgone>>
    BY <1>1 DEF Cloud!Boots, Cloud!Stops, Cloud!TurnedOn, Cloud!DropletTurns, Cloud!ghost
  <2>2. MachinesTyped'
    BY <1>t, <2>1 DEF MachinesTyped
  <2>3. NamesTyped'
    BY <1>t, <2>1 DEF NamesTyped, Cloud!local
  <2>4. \A e \in Cloud!Droplets : e # d => machine'[e] = machine[e]
    BY <1>t, <2>1 DEF MachinesTyped
  <2>e. \A e \in Cloud!Droplets : Cloud!Exists(e) => Cloud!Exists(e)'
    BY <1>t, <2>1 DEF MachinesTyped, Cloud!Exists
  <2>5. command.name = "pause" => (machine[d] \in {"booting", "stopping"} /\ machine[d] # "off")
    BY <2>1, NoCommand
  <2>6. PauseHolds'
    BY <1>t, <2>1, <2>4, <2>5 DEF PauseHolds
  <2>u. UNCHANGED <<command, disk, snapshots, image, written, forgone>>
    BY <2>1
  <2>7. ResumeHolds'
    BY <1>t, <2>u, <2>e DEF ResumeHolds
  <2>8. AllKept'
    BY <1>t, <2>u, <2>e, NothingGoes
  <2> QED
    BY <2>2, <2>3, <2>6, <2>7, <2>8 DEF CloudInv
<1>2. ASSUME NEW s \in Cloud!SnapIds, Cloud!SnapshotTaken(s) PROVE CloudInv'
  <2>1. /\ snapshots' = [snapshots EXCEPT ![s] = "taken"]
        /\ UNCHANGED <<machine, disk, image, reservedIp, ipExists, command, deaths>>
        /\ UNCHANGED Cloud!local /\ UNCHANGED <<written, forgone>>
    BY <1>2 DEF Cloud!SnapshotTaken, Cloud!ghost
  <2>2. MachinesTyped' /\ \A o \in Cloud!SnapIds : snapshots[o] = "taken" => snapshots'[o] = "taken"
    BY <1>t, <2>1 DEF MachinesTyped
  <2>3. NamesTyped'
    BY <1>t, <2>1 DEF NamesTyped, Cloud!local
  <2>4. PauseHolds'
    BY <1>t, <2>1, <2>2 DEF PauseHolds
  <2>5. ResumeHolds' /\ \A e \in Cloud!Droplets : Cloud!Exists(e) => Cloud!Exists(e)'
    BY <1>t, <2>1 DEF ResumeHolds, Cloud!Exists
  <2>6. AllKept'
    BY <1>t, <2>1, <2>2, <2>5, NothingGoes
  <2> QED
    BY <2>2, <2>3, <2>4, <2>5, <2>6 DEF CloudInv
<1>3. ASSUME NEW d \in Cloud!Droplets, NEW r \in Cloud!Records, Cloud!RelayWrites(d, r) PROVE CloudInv'
  <2>1. /\ machine[d] \in {"on", "stopping"} /\ disk' = [disk EXCEPT ![d] = disk[d] \cup {r}]
        /\ written' = written \cup {r}
        /\ UNCHANGED <<machine, snapshots, image, reservedIp, ipExists, command, deaths, forgone>>
        /\ UNCHANGED Cloud!local
    BY <1>3 DEF Cloud!RelayWrites, Cloud!Running
  <2>2. /\ disk' \in [Cloud!Droplets -> SUBSET written'] /\ disk'[d] = disk[d] \cup {r}
        /\ \A e \in Cloud!Droplets : disk[e] \subseteq disk'[e] /\ (e # d => disk'[e] = disk[e])
    BY <1>t, <2>1 DEF MachinesTyped
  <2>3. MachinesTyped'
    <3>1. image' \in [Cloud!SnapIds -> SUBSET written']
      BY <1>t, <2>1 DEF MachinesTyped
    <3> QED
      BY <1>t, <2>1, <2>2, <3>1 DEF MachinesTyped
  <2>4. NamesTyped'
    BY <1>t, <2>1 DEF NamesTyped, Cloud!local
  <2>5. PauseHolds'
    BY <1>t, <2>1, <2>2 DEF PauseHolds
  <2>6. ResumeHolds'
    <3>1. \A e \in Cloud!Droplets : Cloud!Exists(e) => Cloud!Exists(e)'
      BY <2>1 DEF Cloud!Exists
    <3>2. \A e \in Cloud!Droplets, s \in Cloud!SnapIds : image[s] \subseteq disk[e] => image'[s] \subseteq disk'[e]
      BY <2>1, <2>2
    <3> QED
      BY <1>t, <2>1, <3>1, <3>2 DEF ResumeHolds
  <2>7. ASSUME NEW o \in written', o \notin forgone' PROVE Kept(o)'
    <3>1. CASE o = r
      <4>1. Cloud!Exists(d)'
        BY <2>1 DEF Cloud!Exists, Cloud!Droplets
      <4> QED
        BY <2>2, <3>1, <4>1 DEF Kept
    <3>2. CASE o # r
      <4>1. Kept(o)
        BY <1>t, <2>1, <2>7, <3>2 DEF AllKept
      <4>2. \A e \in Cloud!Droplets : Cloud!Exists(e) => Cloud!Exists(e)'
        BY <2>1 DEF Cloud!Exists
      <4> QED
        BY <2>1, <2>2, <4>1, <4>2 DEF Kept
    <3> QED
      BY <3>1, <3>2
  <2> QED
    BY <2>3, <2>4, <2>5, <2>6, <2>7 DEF CloudInv, AllKept
<1> QED
  BY <1>1, <1>2, <1>3 DEF Cloud!CloudStep

LEMMA CloudSteps ==
    ASSUME CloudInv, Cloud!Next \/ UNCHANGED cloudVars
    PROVE  CloudInv'
<1>1. CASE UNCHANGED cloudVars
  BY <1>1 DEF cloudVars, CloudInv, MachinesTyped, NamesTyped, PauseHolds, ResumeHolds, AllKept, Kept, Cloud!Exists
<1> QED
  BY <1>1, PausingKeepsCloudInv, ResumingKeepsCloudInv, TerraformKeepsCloudInv, MachinesKeepCloudInv,
     CommandsBeginAndEnd DEF Cloud!Next, Cloud!CommandStep

(* Wherever a command died: the snapshot of a pause has what the disk has before the disk goes,
   and the droplet of a resume has what the snapshot has before the snapshot goes. *)
THEOREM CopiesBeforeDeletes == Spec => []CloudInv
<1>1. Init => CloudInv
  <2> SUFFICES ASSUME Init PROVE CloudInv
    OBVIOUS
  <2>1. /\ machine = [d \in Cloud!Droplets |-> "none"] /\ disk = [d \in Cloud!Droplets |-> {}]
        /\ snapshots = [s \in Cloud!SnapIds |-> "none"] /\ image = [s \in Cloud!SnapIds |-> {}]
        /\ reservedIp = 0 /\ pauseState = 0 /\ tfDroplet = 0 /\ tfIp = FALSE /\ ipExists = FALSE
        /\ command = Cloud!Idle /\ deaths = 0 /\ written = {} /\ forgone = {}
    BY DEF Init, Cloud!Init
  <2>2. MachinesTyped
    BY <2>1 DEF MachinesTyped
  <2>3. NamesTyped
    <3>1. 0 \in 0..MaxDroplets /\ 0 \in 0..MaxSnapshots /\ 0 \in 0..MaxDeaths
      BY CloudAssumption
    <3> QED
      BY <2>1, <3>1, NoCommand DEF NamesTyped
  <2>4. PauseHolds /\ ResumeHolds
    BY <2>1, NoCommand DEF PauseHolds, ResumeHolds
  <2>5. AllKept
    BY <2>1 DEF AllKept
  <2> QED
    BY <2>2, <2>3, <2>4, <2>5 DEF CloudInv
<1>2. CloudInv /\ [Next]_vars => CloudInv'
  BY CloudSteps, StepsApart
<1> QED
  BY <1>1, <1>2, PTL DEF Spec

(* pause.py, resume.py, deploy.py: whatever command dies where, and whichever is given next,
   every record the relay wrote is on a droplet or in a snapshot, unless it was destroyed. *)
THEOREM StateOutlivesCommands == Spec => []StateIsKept
<1>1. CloudInv => StateIsKept
  BY DEF CloudInv, AllKept, Kept, StateIsKept, Cloud!StateIsKept
<1> QED
  BY <1>1, CopiesBeforeDeletes, PTL

LEMMA CloudTypes == Spec => []Cloud!TypeOK
<1>1. CloudInv => Cloud!TypeOK
  <2> SUFFICES ASSUME CloudInv PROVE Cloud!TypeOK
    OBVIOUS
  <2>1. /\ disk \in [Cloud!Droplets -> SUBSET Cloud!Records] /\ image \in [Cloud!SnapIds -> SUBSET Cloud!Records]
    BY DEF CloudInv, MachinesTyped
  <2>2. command.droplet \in 0..MaxDroplets /\ command.snapshot \in 0..MaxSnapshots
    BY DEF CloudInv, NamesTyped, CommandRecord
  <2> QED
    BY <2>1, <2>2 DEF CloudInv, MachinesTyped, NamesTyped, Cloud!TypeOK
<1> QED
  BY <1>1, CopiesBeforeDeletes, PTL
-----------------------------------------------------------------------------
(* What each part's variables may hold, whichever part is the subject. *)
THEOREM TypeCorrect == Spec => []TypeOK
<1>1. Init => subject \in Subjects
  BY DEF Init
<1>2. subject \in Subjects /\ [Next]_vars => (subject \in Subjects)'
  BY DEF Next, vars, StartStep, TradingStep, KeepingStep, NonceStep, KrakenStep, FlexStep, RatesStep,
         MarketStep, CloudStep
<1>3. Spec => [](subject \in Subjects)
  BY <1>1, <1>2, PTL DEF Spec
<1>4. /\ subject \in Subjects
      /\ Start!TypeOK /\ Trading!TypeOK /\ Keeping!TypeOK
      /\ Nonce!TypeOK /\ Kraken!TypeOK /\ Flex!TypeOK /\ Rates!TypeOK /\ Market!TypeOK /\ Cloud!TypeOK
      => TypeOK
  BY DEF TypeOK
<1> QED
  BY <1>3, <1>4, StartTypes, TradingTypes, KeepingTypes, NonceTypes, KrakenTypes, FlexTypes, RatesTypes,
     MarketTypes, CloudTypes, PTL
==============================================================================
