----------------------------- MODULE MCPeriphery -----------------------------
(* Periphery on small instances. *)
EXTENDS Periphery

\* RELAYS names a relay once: see the README for what happens when it does not.
FourListings == {<<>>, <<"ibkr">>, <<"ibkr", "kraken">>, <<"ibkr", "unknown">>}

\* An order of two legs, one of them filled in two parts, with its summary; and an
\* execution whose order the broker does not know, and one whose time cannot be read.
Execution(id, order, type, local, side, shares) ==
    [id |-> id, order |-> order, secType |-> type, symbol |-> "TSLA", localSymbol |-> local,
     side |-> side, shares |-> shares, time |-> 1, defects |-> {}]

SixExecutions ==
    {Execution("e1", "o1", "OPT", "TSLA call", "buy", 1),
     Execution("e2", "o1", "OPT", "TSLA call", "buy", 2),
     Execution("e3", "o1", "OPT", "TSLA put", "sell", 1),
     Execution("e4", "o1", "BAG", "", "buy", 1),
     Execution("e5", "0", "STK", "", "sell", 3),
     [Execution("e6", "o2", "STK", "", "buy", 2) EXCEPT !.defects = {"time"}]}
==============================================================================
