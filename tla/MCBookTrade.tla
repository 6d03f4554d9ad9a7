----------------------------- MODULE MCBookTrade -----------------------------
(* BookTrade on small instances. *)
EXTENDS BookTrade, TLC

CONSTANTS e1, e2, k1, p, w1, w2

OneKey    == e1 :> k1 @@ e2 :> k1
TwoNights == e1 :> 0 @@ e2 :> 1
TwoSends  == p :> "poll" @@ w1 :> "ws" @@ w2 :> "ws"
OneSend   == p :> "poll" @@ w1 :> "ws"

SendSymmetry == Permutations({w1, w2})
==============================================================================
