--------------------------- MODULE MCDebounceBuffer ---------------------------
(* DebounceBuffer on small instances. *)
EXTENDS DebounceBuffer, TLC

CONSTANTS f1, f2, f3, o1, o2, e1

OrderEach   == f1 :> o1 @@ f3 :> o2
OneOrder    == f1 :> o1 @@ f2 :> o1

Once          == [f \in Fills |-> 1]
FirstReplayed == [f \in Fills |-> IF f = f1 THEN 2 ELSE 1]
=============================================================================
