---------------------------- MODULE KrakenClient ----------------------------
(***************************************************************************)
(* The Kraken REST client (relays/kraken/rest_client.py), which the poller *)
(* and the listener share.  A request carries a nonce; Kraken refuses one  *)
(* that is not above every nonce it has seen of the key.  What the         *)
(* requests ask for is in KrakenFeed.                                      *)
(***************************************************************************)
EXTENDS Naturals

CONSTANTS
    Threads,      \* that make requests: polls, the listener's connect
    MaxClock,     \* bound: readings of the clock
    MaxRequests,  \* bound: nonces ever issued
    MaxRestarts   \* bound: restarts of the process

VARIABLES
    clock,      \* what time.time() reads
    lastNonce,  \* _last_nonce
    lock,       \* who holds _request_lock
    request,    \* where each thread's request is, and its nonce
    highest,    \* Kraken: the highest nonce seen of the key
    accepted,   \* ghost: whether Kraken has accepted a nonce of this process
    issued, restarts

vars == <<clock, lastNonce, lock, request, highest, accepted, issued, restarts>>

-----------------------------------------------------------------------------
NoRequest == [at |-> "none", nonce |-> 0]

Init ==
    /\ clock = 1 /\ lastNonce = 0 /\ lock = "free"
    /\ request = [t \in Threads |-> NoRequest]
    /\ highest = 0 /\ accepted = FALSE /\ issued = 0 /\ restarts = 0

At(t, place) == request[t].at = place

\* Mutant: requests are not serialised.
LockIgnored == TRUE

LockIsFree == lock = "free"

Acquire(t) ==
    /\ At(t, "none") /\ LockIsFree
    /\ lock' = t
    /\ request' = [request EXCEPT ![t].at = "locked"]
    /\ UNCHANGED <<clock, lastNonce, highest, accepted, issued, restarts>>

\* _next_nonce: the clock, unless it has not moved on since the last one.
NextNonce == IF clock <= lastNonce THEN lastNonce + 1 ELSE clock

Sign(t) ==
    /\ At(t, "locked") /\ issued < MaxRequests
    /\ lastNonce' = NextNonce
    /\ request' = [request EXCEPT ![t] = [at |-> "sent", nonce |-> NextNonce]]
    /\ issued' = issued + 1
    /\ UNCHANGED <<clock, lock, highest, accepted, restarts>>

Releases(t) ==
    /\ lock' = "free"
    /\ request' = [request EXCEPT ![t] = NoRequest]
    /\ UNCHANGED <<clock, lastNonce, issued, restarts>>

\* Kraken reads the request and its answer comes back, a refusal of the nonce included.
Answered(t) ==
    /\ At(t, "sent")
    /\ IF request[t].nonce > highest
       THEN highest' = request[t].nonce /\ accepted' = TRUE
       ELSE UNCHANGED <<highest, accepted>>
    /\ Releases(t)

\* The request is lost, or its answer is: httpx raises, and the lock is released.
TimesOut(t) ==
    /\ At(t, "sent")
    /\ highest' \in {highest} \cup (IF request[t].nonce > highest THEN {request[t].nonce} ELSE {})
    /\ accepted' = (accepted \/ highest' # highest)
    /\ Releases(t)

\* The clock advances, stands still between two requests, or is set back.
ClockMoves(c) ==
    /\ c # clock
    /\ clock' = c
    /\ UNCHANGED <<lastNonce, lock, request, highest, accepted, issued, restarts>>

\* A request under way when the process ends has reached Kraken or never will.
Restart ==
    /\ restarts < MaxRestarts
    /\ restarts' = restarts + 1
    /\ lastNonce' = 0 /\ lock' = "free" /\ request' = [t \in Threads |-> NoRequest]
    /\ accepted' = FALSE
    /\ UNCHANGED <<clock, highest, issued>>

Next ==
    \/ \E t \in Threads : Acquire(t) \/ Sign(t) \/ Answered(t) \/ TimesOut(t)
    \/ \E c \in 1..MaxClock : ClockMoves(c)
    \/ Restart

Spec == Init /\ [][Next]_vars

-----------------------------------------------------------------------------
TypeOK ==
    /\ clock \in 1..MaxClock /\ lastNonce \in Nat /\ highest \in Nat
    /\ lock \in Threads \cup {"free"}
    /\ request \in [Threads -> [at : {"none", "locked", "sent"}, nonce : Nat]]
    /\ accepted \in BOOLEAN /\ issued \in 0..MaxRequests /\ restarts \in 0..MaxRestarts

(* rest_client.py: "keeps Kraken's view strictly monotonic when the poller and listener
   fire concurrently", and "protects against NTP backwards-jumps".  Once Kraken has accepted a
   nonce of this process, it will find no request of the process too low. *)
NonceStaysAbove ==
    \A t \in Threads : accepted /\ At(t, "sent") => request[t].nonce > highest
=============================================================================
