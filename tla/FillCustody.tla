----------------------------- MODULE FillCustody -----------------------------
(***************************************************************************)
(* What the listener's debounce buffer promises about the fills it is      *)
(* given, with nothing of how it keeps the promise: a fill is in the       *)
(* buffer's custody from the moment the message that carries it is         *)
(* accepted until it has been delivered to the notifiers or reported to    *)
(* the operator as dropped.  It never leaves in any other way, and it      *)
(* does not stay forever.                                                  *)
(***************************************************************************)
CONSTANT Fills

VARIABLES
    held,       \* fills in the buffer's custody
    delivered,  \* fills some successful send has carried
    dropped     \* fills reported (logged and alerted) as dropped

custodyVars == <<held, delivered, dropped>>

CustodyInit == held = {} /\ delivered = {} /\ dropped = {}

\* A message is accepted.  A fill may be accepted again: a WebSocket feed replays.
Take ==
    /\ \E accepted \in SUBSET Fills : held' = held \cup accepted
    /\ UNCHANGED <<delivered, dropped>>

\* Fills are delivered or dropped.  `again' are those of which a newer copy is
\* still in custody, accepted while the settled one was being sent.
Settle ==
    \E sent, given_up \in SUBSET held :
        \E again \in SUBSET (sent \cup given_up) :
            /\ held' = (held \ (sent \cup given_up)) \cup again
            /\ delivered' = delivered \cup sent
            /\ dropped' = dropped \cup given_up

CustodyNext == Take \/ Settle

CustodySafety == CustodyInit /\ [][CustodyNext]_custodyVars

\* No fill stays in custody forever.
CustodyEnds == \A f \in Fills : (f \in held) ~> (f \notin held)

Custody == CustodySafety /\ CustodyEnds
=============================================================================
