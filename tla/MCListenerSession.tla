-------------------------- MODULE MCListenerSession --------------------------
(* Instances of ListenerSession for TLC. *)
EXTENDS ListenerSession

\* The first bridge process predates bridgeId.
UpgradedBridge == {1}

\* The second one emits two events, so that a cursor can be one too far.
UnequalEvents == [b \in 1..Processes |-> IF b = 2 THEN 2 ELSE 1]

TwoEvents == [b \in 1..Processes |-> 2]
=============================================================================
