---------------------------- MODULE RelayPromise ----------------------------
(***************************************************************************)
(* What a relay promises about the trades of an account, with nothing of   *)
(* tables, registries and threads: "at-least-once, never at-most-once".  A *)
(* trade the broker reports stays within the relay's reach until all of it *)
(* has been delivered; what is recorded was delivered first; and nobody    *)
(* takes up a fill that is already on record.  Two senders may still have  *)
(* the same fill in hand: that is the duplicate the relay accepts.         *)
(***************************************************************************)
CONSTANTS Fills, Trades, TradeOf, Senders

VARIABLES
    reported,   \* trades the broker reports
    inReach,    \* those a later poll will look at again
    inHand,     \* the fills each sender is about to send
    delivered,  \* fills some receiver has
    recorded    \* fills on record as processed

promiseVars == <<reported, inReach, inHand, delivered, recorded>>

PromiseInit ==
    /\ reported = {} /\ inReach = {}
    /\ inHand = [s \in Senders |-> {}]
    /\ delivered = {} /\ recorded = {}

Delivered(trades) == \A f \in Fills : TradeOf[f] \in trades => f \in delivered

Report(r) ==
    /\ r \notin reported
    /\ reported' = reported \cup {r} /\ inReach' = inReach \cup {r}
    /\ UNCHANGED <<inHand, delivered, recorded>>

TakeUp(s) ==
    /\ inHand[s] = {}
    /\ \E new \in SUBSET (Fills \ recorded) : inHand' = [inHand EXCEPT ![s] = new]
    /\ UNCHANGED <<reported, inReach, delivered, recorded>>

\* Fills are left to somebody else, or a sender is stopped.
LetGo ==
    /\ inHand' \in [Senders -> SUBSET Fills] /\ \A s \in Senders : inHand'[s] \subseteq inHand[s]
    /\ UNCHANGED <<reported, inReach, delivered, recorded>>

\* The receiver has all of what was in hand, whatever the sender hears of it, or nothing.
Send(s) ==
    /\ inHand' = [inHand EXCEPT ![s] = {}]
    /\ delivered' \in {delivered, delivered \cup inHand[s]}
    /\ UNCHANGED <<reported, inReach, recorded>>

Record ==
    /\ \E fills \in SUBSET delivered : recorded' = recorded \cup fills
    /\ UNCHANGED <<reported, inReach, inHand, delivered>>

\* Trades are looked at no more.
PassBy ==
    /\ \E trades \in SUBSET inReach : Delivered(trades) /\ inReach' = inReach \ trades
    /\ UNCHANGED <<reported, inHand, delivered, recorded>>

PromiseNext ==
    \/ \E r \in Trades : Report(r)
    \/ \E s \in Senders : TakeUp(s) \/ Send(s)
    \/ LetGo \/ Record \/ PassBy

Promise == PromiseInit /\ [][PromiseNext]_promiseVars
=============================================================================
