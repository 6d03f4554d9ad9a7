--------------------------- MODULE PeripheryProofs ---------------------------
(***************************************************************************)
(* Theorems about what stands around the engines, for every value of the   *)
(* nine parts' parameters.  In this module: the dedup table's retention,   *)
(* Kraken's nonces and its history, the Flex report, what a consumer of    *)
(* the trades adds up, and what the sums of the model compute.             *)
(***************************************************************************)
EXTENDS Periphery, FiniteSetTheorems, WellFoundedInduction, TLAPS

-----------------------------------------------------------------------------
(* A step of the periphery is one of the part that is the subject; the others stand. *)
LEMMA StepsApart ==
    ASSUME [Next]_vars
    PROVE  /\ Start!Next \/ UNCHANGED startVars
           /\ Trading!Next \/ UNCHANGED tradeVars
           /\ Keeping!Next \/ UNCHANGED keepVars
           /\ Nonce!Next \/ UNCHANGED nonceVars
           /\ Kraken!Next \/ UNCHANGED krakenVars
           /\ Flex!Next \/ UNCHANGED flexVars
           /\ Rates!Next \/ UNCHANGED ratesVars
           /\ Market!Next \/ UNCHANGED marketVars
           /\ Cloud!Next \/ UNCHANGED cloudVars
<1>1. CASE Next
  BY <1>1 DEF Next, StartStep, TradingStep, KeepingStep, NonceStep, KrakenStep, FlexStep, RatesStep,
              MarketStep, CloudStep
<1>2. CASE UNCHANGED vars
  BY <1>2 DEF vars
<1> QED
  BY <1>1, <1>2

-----------------------------------------------------------------------------
(* How long the dedup table remembers (Retention). *)

USE KeepingAssumption

(* What a step of a path may do with its hand: let go, or hold what it took or part of it. *)
LEMMA HandTyped ==
    ASSUME Keeping!TypeOK, NEW p \in Keeping!Paths,
           NEW at \in {"idle", "taken", "new", "sent", "marked"}, NEW batch \in SUBSET TradeIds,
           hand' = [hand EXCEPT ![p] = [at |-> at, batch |-> batch]]
    PROVE  hand' \in [Keeping!Paths ->
                          [at : {"idle", "taken", "new", "sent", "marked"}, batch : SUBSET TradeIds]]
  BY DEF Keeping!TypeOK

LEMMA KeepingStepTyped ==
    ASSUME Keeping!TypeOK, Keeping!Next \/ UNCHANGED keepVars
    PROVE  Keeping!TypeOK'
<1> USE DEF Keeping!TypeOK
<1>n. Keeping!NotYet \in Keeping!Moments
  BY DEF Keeping!NotYet, Keeping!Moments
<1>i. "idle" \in {"idle", "taken", "new", "sent", "marked"} /\ {} \in SUBSET TradeIds
  OBVIOUS
<1>1. ASSUME NEW t \in TradeIds, Keeping!Happens(t) PROVE Keeping!TypeOK'
  BY <1>1 DEF Keeping!Happens
<1>2. ASSUME NEW p \in Keeping!Paths, NEW batch \in SUBSET TradeIds, Keeping!Takes(p, batch)
      PROVE  Keeping!TypeOK'
  BY <1>2, HandTyped DEF Keeping!Takes
<1>3. ASSUME NEW p \in Keeping!Paths, Keeping!LooksUp(p) PROVE Keeping!TypeOK'
  <2> DEFINE new == {t \in hand[p].batch :
                        ~Keeping!HasRow(t) /\ (p = "poller" => ~Keeping!Before(made[t], watermark))}
  <2>1. new \in SUBSET TradeIds
    OBVIOUS
  <2>2. \/ hand' = [hand EXCEPT ![p] = [at |-> "idle", batch |-> {}]]
        \/ hand' = [hand EXCEPT ![p] = [at |-> "new", batch |-> new]]
    BY <1>3 DEF Keeping!LooksUp, Keeping!Idle
  <2>3. UNCHANGED <<now, made, processed, watermark, recorded>>
    BY <1>3 DEF Keeping!LooksUp
  <2> HIDE DEF new
  <2> QED
    BY <1>i, <2>1, <2>2, <2>3, HandTyped
<1>4. ASSUME NEW p \in Keeping!Paths, Keeping!Notifies(p) PROVE Keeping!TypeOK'
  <2>1. \/ hand' = [hand EXCEPT ![p] = [at |-> "idle", batch |-> {}]]
        \/ hand' = [hand EXCEPT ![p] = [at |-> "sent", batch |-> hand[p].batch]]
    BY <1>4 DEF Keeping!Notifies, Keeping!Idle
  <2> QED
    BY <1>4, <2>1, HandTyped DEF Keeping!Notifies
<1>5. ASSUME NEW p \in Keeping!Paths, Keeping!Marks(p) PROVE Keeping!TypeOK'
  <2>1. \/ hand' = [hand EXCEPT ![p] = [at |-> "idle", batch |-> {}]]
        \/ hand' = [hand EXCEPT ![p] = [at |-> "marked", batch |-> hand[p].batch]]
    <3>1. [hand[p] EXCEPT !.at = "marked"] = [at |-> "marked", batch |-> hand[p].batch]
      OBVIOUS
    <3> QED
      BY <1>5, <3>1 DEF Keeping!Marks, Keeping!Idle
  <2>2. processed' \in [TradeIds -> Keeping!Moments] /\ recorded' \subseteq TradeIds
    BY <1>5 DEF Keeping!Marks
  <2> QED
    BY <1>5, <2>1, <2>2, HandTyped DEF Keeping!Marks
<1>6. CASE Keeping!MovesWatermark
  <2>1. "poller" \in Keeping!Paths
    BY DEF Keeping!Paths
  <2>2. watermark' \in Keeping!Moments
    BY <1>6, <2>1 DEF Keeping!MovesWatermark
  <2> QED
    BY <1>6, <2>1, <2>2, HandTyped DEF Keeping!MovesWatermark, Keeping!Idle
<1>7. CASE Keeping!LosesWatermark \/ Keeping!ResetWatermark \/ UNCHANGED keepVars
  BY <1>7, <1>n DEF Keeping!LosesWatermark, Keeping!ResetWatermark, keepVars
<1>8. CASE Keeping!Restart
  BY <1>8, <1>n DEF Keeping!Restart, Keeping!Idle
<1>9. CASE Keeping!TimePasses
  <2>1. now' \in Keeping!Moments /\ now'.day > 0
    BY <1>9 DEF Keeping!TimePasses, Keeping!Moments
  <2> QED
    BY <1>9, <2>1 DEF Keeping!TimePasses
<1>10. ASSUME NEW t \in TradeIds, Keeping!Hears(t) PROVE Keeping!TypeOK'
  BY <1>2, <1>10 DEF Keeping!Hears, Keeping!Paths
<1>11. CASE Keeping!Fetches
  BY <1>2, <1>11 DEF Keeping!Fetches, Keeping!Paths
<1> QED
  BY <1>1, <1>3, <1>4, <1>5, <1>6, <1>7, <1>8, <1>9, <1>10, <1>11 DEF Keeping!Next

LEMMA KeepingTypes == Spec => []Keeping!TypeOK
<1>1. Init => Keeping!TypeOK
  BY DEF Init, Keeping!Init, Keeping!TypeOK, Keeping!NotYet, Keeping!Moments, Keeping!Idle, Keeping!Paths
<1>2. Keeping!TypeOK /\ [Next]_vars => Keeping!TypeOK'
  BY KeepingStepTyped, StepsApart
<1> QED
  BY <1>1, <1>2, PTL DEF Spec

(* A row is no older than its trade, and a trade whose row is gone was made longer ago than
   the retention. *)
Remembered(t) ==
    /\ ~Keeping!Before(now, made[t])
    /\ Keeping!HasRow(t) => made[t] # Keeping!NotYet /\ ~Keeping!Before(processed[t], made[t])
    /\ Keeping!Pruned(t) =>
           made[t] # Keeping!NotYet /\ Keeping!Before(Keeping!Later(made[t], Retention), now)

(* What a path has in hand was made, and was within its reach when it took it: no prune has
   come since, for a restart empties both hands. *)
InReach == \A p \in Keeping!Paths : \A t \in hand[p].batch : made[t] # Keeping!NotYet /\ ~Keeping!Pruned(t)

(* The inductive invariant.  Of the watermark it says nothing but its type, so it may be lost. *)
RowsOutlive == Keeping!TypeOK /\ InReach /\ \A t \in TradeIds : Remembered(t)

(* The order of moments, and of the days added to one. *)
LEMMA MomentsOrdered ==
    ASSUME NEW a \in Keeping!Moments, NEW b \in Keeping!Moments, NEW c \in Keeping!Moments
    PROVE  /\ ~Keeping!Before(a, a)
           /\ ~Keeping!Before(a, b) /\ ~Keeping!Before(b, c) => ~Keeping!Before(a, c)
           /\ ~Keeping!Before(a, b) /\ Keeping!Before(Keeping!Later(a, Retention), c)
                  => Keeping!Before(Keeping!Later(b, Retention), c)
           /\ Keeping!Before(Keeping!Later(a, Retention), b) /\ ~Keeping!Before(c, b)
                  => Keeping!Before(Keeping!Later(a, Retention), c)
  BY DEF Keeping!Moments, Keeping!Before, Keeping!Later

(* With horizons within the retention, what a path takes was not pruned. *)
LEMMA TakesInReach ==
    ASSUME RowsOutlive, Keeping!WithinRetention, NEW t \in TradeIds,
           Keeping!Listed(t) \/ ~Keeping!Before(Keeping!Later(made[t], MaxFillAge), now)
    PROVE  ~Keeping!Pruned(t)
<1>1. now \in Keeping!Moments /\ made[t] \in Keeping!Moments
  BY DEF RowsOutlive, Keeping!TypeOK
<1>2. ~Keeping!Before(Keeping!Later(made[t], Retention), now)
  BY <1>1 DEF Keeping!WithinRetention, Keeping!Listed, Keeping!Before, Keeping!Later, Keeping!Moments
<1> QED
  BY <1>2 DEF RowsOutlive, Remembered

(* A path that keeps to what it had, or lets go, stays in reach while no row goes. *)
LEMMA HandsInReach ==
    ASSUME RowsOutlive, NEW p \in Keeping!Paths, NEW at, NEW batch \in SUBSET TradeIds,
           hand' = [hand EXCEPT ![p] = [at |-> at, batch |-> batch]],
           UNCHANGED <<now, made, processed, recorded>>,
           \A t \in batch : made[t] # Keeping!NotYet /\ ~Keeping!Pruned(t)
    PROVE  InReach' /\ \A t \in TradeIds : Remembered(t)'
<1>1. \A q \in Keeping!Paths : hand'[q].batch = hand[q].batch \/ hand'[q].batch = batch
  BY DEF RowsOutlive, Keeping!TypeOK
<1>2. InReach'
  BY <1>1 DEF RowsOutlive, InReach, Keeping!Pruned, Keeping!HasRow, Keeping!NotYet
<1>3. \A t \in TradeIds : Remembered(t)'
  BY DEF RowsOutlive, Remembered, Keeping!Pruned, Keeping!HasRow, Keeping!Before, Keeping!Later, Keeping!NotYet
<1> QED
  BY <1>2, <1>3

LEMMA StepKeepsRows ==
    ASSUME RowsOutlive, Keeping!WithinRetention, Keeping!Next \/ UNCHANGED keepVars
    PROVE  InReach' /\ \A t \in TradeIds : Remembered(t)'
<1>t. /\ now \in Keeping!Moments /\ now # Keeping!NotYet
      /\ made \in [TradeIds -> Keeping!Moments] /\ processed \in [TradeIds -> Keeping!Moments]
      /\ \A p \in Keeping!Paths : hand[p].batch \in SUBSET TradeIds
      /\ DOMAIN hand = Keeping!Paths
  BY DEF RowsOutlive, Keeping!TypeOK, Keeping!NotYet
<1>1. ASSUME NEW t \in TradeIds, Keeping!Happens(t) PROVE InReach' /\ \A u \in TradeIds : Remembered(u)'
  <2>1. /\ UNCHANGED <<now, processed, recorded, hand>> /\ made[t] = Keeping!NotYet
        /\ made'[t] = now /\ \A u \in TradeIds : u # t => made'[u] = made[u]
    BY <1>1, <1>t DEF Keeping!Happens
  <2>2. ~Keeping!Before(now, now) /\ ~Keeping!HasRow(t) /\ ~Keeping!Pruned(t)
    BY <2>1, <1>t, MomentsOrdered DEF RowsOutlive, Remembered
  <2>3. InReach'
    BY <2>1, <2>2, <1>t DEF RowsOutlive, InReach, Keeping!Pruned, Keeping!HasRow, Keeping!NotYet
  <2>4. ASSUME NEW u \in TradeIds PROVE Remembered(u)'
    <3>1. CASE u = t
      BY <3>1, <2>1, <2>2 DEF Remembered, Keeping!Pruned, Keeping!HasRow, Keeping!NotYet
    <3>2. CASE u # t
      BY <3>2, <2>1 DEF RowsOutlive, Remembered, Keeping!Pruned, Keeping!HasRow, Keeping!NotYet
    <3> QED
      BY <3>1, <3>2
  <2> QED
    BY <2>3, <2>4
<1>2. ASSUME NEW t \in TradeIds, Keeping!Hears(t) PROVE InReach' /\ \A u \in TradeIds : Remembered(u)'
  <2>1. made[t] # Keeping!NotYet /\ ~Keeping!Pruned(t)
    BY <1>2, TakesInReach DEF Keeping!Hears
  <2>2. /\ hand' = [hand EXCEPT !["listener"] = [at |-> "taken", batch |-> {t}]]
        /\ UNCHANGED <<now, made, processed, recorded>>
    BY <1>2 DEF Keeping!Hears, Keeping!Takes
  <2>3. "listener" \in Keeping!Paths /\ {t} \in SUBSET TradeIds
        /\ \A u \in {t} : made[u] # Keeping!NotYet /\ ~Keeping!Pruned(u)
    BY <2>1 DEF Keeping!Paths
  <2> QED
    BY <2>2, <2>3, HandsInReach
<1>3. CASE Keeping!Fetches
  <2> DEFINE listed == {t \in TradeIds : Keeping!Listed(t)}
  <2>1. \A t \in listed : made[t] # Keeping!NotYet /\ ~Keeping!Pruned(t)
    BY TakesInReach DEF Keeping!Listed
  <2>2. /\ hand' = [hand EXCEPT !["poller"] = [at |-> "taken", batch |-> listed]]
        /\ UNCHANGED <<now, made, processed, recorded>>
    BY <1>3 DEF Keeping!Fetches, Keeping!Takes
  <2>3. listed \in SUBSET TradeIds
    OBVIOUS
  <2> HIDE DEF listed
  <2> QED
    BY <2>1, <2>2, <2>3, HandsInReach DEF Keeping!Paths
<1>4. ASSUME NEW p \in Keeping!Paths, Keeping!LooksUp(p) \/ Keeping!Notifies(p)
      PROVE  InReach' /\ \A u \in TradeIds : Remembered(u)'
  <2>1. UNCHANGED <<now, made, processed, recorded>>
    BY <1>4 DEF Keeping!LooksUp, Keeping!Notifies
  <2>2. ASSUME NEW at, NEW batch \in SUBSET hand[p].batch,
               hand' = [hand EXCEPT ![p] = [at |-> at, batch |-> batch]]
        PROVE  InReach' /\ \A u \in TradeIds : Remembered(u)'
    <3>1. batch \in SUBSET TradeIds /\ \A t \in batch : made[t] # Keeping!NotYet /\ ~Keeping!Pruned(t)
      BY <1>t DEF RowsOutlive, InReach
    <3> QED
      BY <2>1, <2>2, <3>1, HandsInReach
  <2>3. CASE Keeping!LooksUp(p)
    <3> DEFINE new == {t \in hand[p].batch :
                          ~Keeping!HasRow(t) /\ (p = "poller" => ~Keeping!Before(made[t], watermark))}
    <3>1. \/ hand' = [hand EXCEPT ![p] = [at |-> "idle", batch |-> {}]]
          \/ hand' = [hand EXCEPT ![p] = [at |-> "new", batch |-> new]]
      BY <2>3 DEF Keeping!LooksUp, Keeping!Idle
    <3>2. new \in SUBSET hand[p].batch /\ {} \in SUBSET hand[p].batch
      OBVIOUS
    <3> HIDE DEF new
    <3> QED
      BY <2>2, <3>1, <3>2
  <2>4. CASE Keeping!Notifies(p)
    <3>1. \/ hand' = [hand EXCEPT ![p] = [at |-> "idle", batch |-> {}]]
          \/ hand' = [hand EXCEPT ![p] = [at |-> "sent", batch |-> hand[p].batch]]
      BY <2>4 DEF Keeping!Notifies, Keeping!Idle, RowsOutlive, Keeping!TypeOK
    <3>2. hand[p].batch \in SUBSET hand[p].batch /\ {} \in SUBSET hand[p].batch
      OBVIOUS
    <3> QED
      BY <2>2, <3>1, <3>2
  <2> QED
    BY <1>4, <2>3, <2>4
<1>5. ASSUME NEW p \in Keeping!Paths, Keeping!Marks(p) PROVE InReach' /\ \A u \in TradeIds : Remembered(u)'
  <2>1. /\ UNCHANGED <<now, made>> /\ recorded' = recorded \cup hand[p].batch
        /\ \A t \in TradeIds : processed'[t] =
               IF t \in hand[p].batch /\ ~Keeping!HasRow(t) THEN now ELSE processed[t]
        /\ \A q \in Keeping!Paths : hand'[q].batch = hand[q].batch \/ hand'[q].batch = {}
    BY <1>5, <1>t DEF Keeping!Marks, Keeping!Idle
  <2>2. \A t \in TradeIds : /\ Keeping!HasRow(t) => Keeping!HasRow(t)'
                           /\ Keeping!Pruned(t)' => Keeping!Pruned(t)
    BY <2>1, <1>t DEF Keeping!HasRow, Keeping!Pruned, Keeping!NotYet
  <2>3. InReach'
    <3>1. \A q \in Keeping!Paths : hand'[q].batch \subseteq hand[q].batch /\ hand[q].batch \subseteq TradeIds
      BY <2>1, <1>t
    <3>2. ASSUME NEW q \in Keeping!Paths, NEW t \in hand'[q].batch
          PROVE  made'[t] # Keeping!NotYet /\ ~Keeping!Pruned(t)'
      <4>1. t \in TradeIds /\ t \in hand[q].batch
        BY <3>1
      <4>2. made[t] # Keeping!NotYet /\ ~Keeping!Pruned(t)
        BY <4>1 DEF RowsOutlive, InReach
      <4>3. ~Keeping!Pruned(t)'
        BY <2>1, <2>2, <4>1, <4>2, <1>t DEF Keeping!Pruned, Keeping!HasRow, Keeping!NotYet
      <4> QED
        BY <2>1, <4>2, <4>3
    <3> QED
      BY <3>2 DEF InReach, Keeping!NotYet
  <2>4. ASSUME NEW t \in TradeIds PROVE Remembered(t)'
    <3>1. CASE t \in hand[p].batch /\ ~Keeping!HasRow(t)
      BY <3>1, <2>1, <2>2 DEF RowsOutlive, InReach, Remembered, Keeping!NotYet
    <3>2. CASE ~(t \in hand[p].batch /\ ~Keeping!HasRow(t))
      BY <3>2, <2>1, <2>2 DEF RowsOutlive, Remembered, Keeping!HasRow, Keeping!NotYet
    <3> QED
      BY <3>1, <3>2
  <2> QED
    BY <2>3, <2>4
<1>6. CASE Keeping!MovesWatermark
  <2>1. /\ UNCHANGED <<now, made, processed, recorded>>
        /\ hand' = [hand EXCEPT !["poller"] = [at |-> "idle", batch |-> {}]]
    BY <1>6 DEF Keeping!MovesWatermark, Keeping!Idle
  <2>2. "poller" \in Keeping!Paths /\ {} \in SUBSET TradeIds
        /\ \A t \in {} : made[t] # Keeping!NotYet /\ ~Keeping!Pruned(t)
    BY DEF Keeping!Paths
  <2> QED
    BY <2>1, <2>2, HandsInReach
<1>7. CASE Keeping!LosesWatermark \/ Keeping!ResetWatermark \/ UNCHANGED keepVars
  <2>1. UNCHANGED <<now, made, processed, hand, recorded>>
    BY <1>7 DEF Keeping!LosesWatermark, Keeping!ResetWatermark, keepVars
  <2> QED
    BY <2>1 DEF RowsOutlive, InReach, Remembered, Keeping!Pruned, Keeping!HasRow, Keeping!NotYet
<1>8. CASE Keeping!Restart
  <2>1. /\ UNCHANGED <<now, made, recorded>> /\ \A p \in Keeping!Paths : hand'[p].batch = {}
        /\ \A t \in TradeIds : processed'[t] = IF Keeping!IsOld(t) THEN Keeping!NotYet ELSE processed[t]
    BY <1>8 DEF Keeping!Restart, Keeping!Idle
  <2>2. InReach'
    BY <2>1 DEF InReach
  <2>3. ASSUME NEW t \in TradeIds PROVE Remembered(t)'
    <3>1. /\ ~Keeping!Before(now, made[t])'
          /\ Keeping!HasRow(t)' => made'[t] # Keeping!NotYet /\ ~Keeping!Before(processed[t], made[t])'
      BY <2>1 DEF RowsOutlive, Remembered, Keeping!HasRow, Keeping!NotYet
    <3>2. CASE Keeping!HasRow(t) /\ Keeping!IsOld(t)
      <4>1. ~Keeping!Before(processed[t], made[t]) /\ made[t] # Keeping!NotYet
        BY <3>2 DEF RowsOutlive, Remembered
      <4>2. Keeping!Before(Keeping!Later(made[t], Retention), now)
        BY <3>2, <4>1, <1>t, MomentsOrdered DEF Keeping!IsOld
      <4> QED
        BY <2>1, <3>1, <4>1, <4>2 DEF Remembered, Keeping!NotYet, Keeping!Before, Keeping!Later
    <3>3. CASE ~(Keeping!HasRow(t) /\ Keeping!IsOld(t))
      <4>1. processed'[t] = processed[t]
        BY <2>1, <3>3 DEF Keeping!HasRow
      <4> QED
        BY <2>1, <4>1 DEF RowsOutlive, Remembered, Keeping!Pruned, Keeping!HasRow, Keeping!NotYet
    <3> QED
      BY <3>2, <3>3
  <2> QED
    BY <2>2, <2>3
<1>9. CASE Keeping!TimePasses
  <2>1. /\ UNCHANGED <<made, processed, hand, recorded>> /\ now' \in Keeping!Moments
        /\ ~Keeping!Before(now', now)
    BY <1>9, <1>t DEF Keeping!TimePasses, Keeping!Moments, Keeping!Before
  <2>2. InReach'
    BY <2>1 DEF RowsOutlive, InReach, Keeping!Pruned, Keeping!HasRow, Keeping!NotYet
  <2>3. ASSUME NEW t \in TradeIds PROVE Remembered(t)'
    <3>1. ~Keeping!Before(now', made[t])
      BY <2>1, <1>t, MomentsOrdered DEF RowsOutlive, Remembered
    <3>2. Keeping!Pruned(t) => Keeping!Before(Keeping!Later(made[t], Retention), now')
      BY <2>1, <1>t, MomentsOrdered DEF RowsOutlive, Remembered
    <3> QED
      BY <2>1, <3>1, <3>2 DEF RowsOutlive, Remembered, Keeping!Pruned, Keeping!HasRow, Keeping!NotYet, Keeping!Before, Keeping!Later
  <2> QED
    BY <2>2, <2>3
<1> QED
  BY <1>1, <1>2, <1>3, <1>4, <1>5, <1>6, <1>7, <1>8, <1>9 DEF Keeping!Next

(* dedup/__init__.py, DEFAULT_RETENTION_DAYS: with horizons within the retention, what a feed
   brings of the trades that were sent and marked still has its row. *)
THEOREM RowsOutliveTrades ==
    ASSUME Keeping!WithinRetention
    PROVE  Spec => []RowsOutlive
<1>1. Init => RowsOutlive
  <2>1. Init => Keeping!TypeOK
    BY DEF Init, Keeping!Init, Keeping!TypeOK, Keeping!NotYet, Keeping!Moments, Keeping!Idle, Keeping!Paths
  <2> QED
    BY <2>1 DEF Init, Keeping!Init, RowsOutlive, InReach, Remembered, Keeping!NotYet, Keeping!Idle,
                Keeping!HasRow, Keeping!Pruned, Keeping!Before
<1>2. RowsOutlive /\ [Next]_vars => RowsOutlive'
  BY StepKeepsRows, KeepingStepTyped, StepsApart DEF RowsOutlive
<1> QED
  BY <1>1, <1>2, PTL DEF Spec

(* No path takes for new what was sent and marked, whatever restarts, lost watermarks, sends
   that fail or are cut off, and quiet days come between. *)
THEOREM NothingComesBack ==
    ASSUME Keeping!WithinRetention
    PROVE  Spec => []PrunedIsOutOfReach
<1>1. RowsOutlive => PrunedIsOutOfReach
  BY DEF RowsOutlive, InReach, PrunedIsOutOfReach, Keeping!PrunedIsOutOfReach
<1> QED
  BY <1>1, RowsOutliveTrades, PTL

-----------------------------------------------------------------------------
(* The nonces of a process (KrakenClient). *)

USE NonceAssumption

NonceRequests == [at : {"none", "locked", "sent"}, nonce : Nat]

NoncesTyped ==
    /\ nClock \in 1..NonceClock /\ lastNonce \in Nat /\ highest \in Nat /\ accepted \in BOOLEAN
    /\ request \in [Requesters -> NonceRequests]
    /\ lock \in Requesters \cup {"free"} /\ issued \in 0..MaxRequests /\ nRestarts \in 0..NonceRestarts

(* _request_lock: a thread with a request under way holds it. *)
OneAtATime == \A t \in Requesters : ~Nonce!At(t, "none") => lock = t

(* The request that is out carries the last nonce, above all that Kraken accepted of this
   process; when none is out, Kraken has seen none above the last. *)
LastIsHighest ==
    /\ accepted => highest <= lastNonce
    /\ \A t \in Requesters : Nonce!At(t, "sent") => request[t].nonce = lastNonce
    /\ Nonce!NonceStaysAbove

NonceInv == NoncesTyped /\ OneAtATime /\ LastIsHighest

(* _next_nonce goes up, wherever the nClock stands. *)
LEMMA NoncesGrow ==
    ASSUME NoncesTyped
    PROVE  Nonce!NextNonce \in Nat /\ Nonce!NextNonce > lastNonce
BY DEF NoncesTyped, Nonce!NextNonce

(* A request ends, answered or not: Kraken has seen at most its nonce. *)
LEMMA EndKeepsNonces ==
    ASSUME NonceInv, NEW t \in Requesters, Nonce!At(t, "sent"), Nonce!Releases(t),
           highest' \in {highest, request[t].nonce}, highest' >= highest,
           accepted' \in BOOLEAN, accepted' => accepted \/ highest' = request[t].nonce
    PROVE  NonceInv'
<1>1. \A u \in Requesters : request'[u].at = "none"
  BY DEF Nonce!Releases, NonceInv, NoncesTyped, OneAtATime, Nonce!At, NonceRequests, Nonce!NoRequest
<1>2. NoncesTyped'
  BY DEF Nonce!Releases, NonceInv, NoncesTyped, NonceRequests, Nonce!NoRequest
<1>3. OneAtATime' /\ Nonce!NonceStaysAbove'
  BY <1>1 DEF OneAtATime, Nonce!NonceStaysAbove, Nonce!At
<1>4. request[t].nonce = lastNonce /\ lastNonce' = lastNonce
  BY DEF NonceInv, LastIsHighest, Nonce!Releases
<1>5. accepted' => highest' <= lastNonce'
  BY <1>4 DEF NonceInv, NoncesTyped, LastIsHighest
<1>6. LastIsHighest'
  BY <1>1, <1>3, <1>5 DEF LastIsHighest, Nonce!At
<1> QED
  BY <1>2, <1>3, <1>6 DEF NonceInv

LEMMA StepKeepsNonces ==
    ASSUME NonceInv, Nonce!Next \/ UNCHANGED nonceVars
    PROVE  NonceInv'
<1>1. ASSUME NEW t \in Requesters, Nonce!Acquire(t) PROVE NonceInv'
  BY <1>1 DEF Nonce!Acquire, Nonce!LockIsFree, NonceInv, NoncesTyped, OneAtATime, LastIsHighest, Nonce!NonceStaysAbove,
              Nonce!At, NonceRequests
<1>2. ASSUME NEW t \in Requesters, Nonce!Sign(t) PROVE NonceInv'
  <2>1. NoncesTyped' /\ lastNonce' > lastNonce
    BY <1>2, NoncesGrow DEF Nonce!Sign, NonceInv, NoncesTyped, NonceRequests
  <2>2. OneAtATime'
    BY <1>2 DEF Nonce!Sign, NonceInv, NoncesTyped, OneAtATime, Nonce!At, NonceRequests
  <2>3. ASSUME NEW u \in Requesters, Nonce!At(u, "sent")' PROVE u = t
    BY <1>2, <2>3 DEF Nonce!Sign, NonceInv, NoncesTyped, OneAtATime, Nonce!At, NonceRequests
  <2>4. request'[t].nonce = lastNonce' /\ UNCHANGED <<highest, accepted>>
    BY <1>2 DEF Nonce!Sign, NonceInv, NoncesTyped
  <2>5. accepted' => highest' < lastNonce'
    BY <2>1, <2>4 DEF NonceInv, NoncesTyped, LastIsHighest
  <2>6. LastIsHighest'
    BY <2>1, <2>3, <2>4, <2>5 DEF LastIsHighest, Nonce!NonceStaysAbove, NoncesTyped
  <2> QED
    BY <2>1, <2>2, <2>6 DEF NonceInv
<1>3. ASSUME NEW t \in Requesters, Nonce!Answered(t) PROVE NonceInv'
  <2>1. Nonce!At(t, "sent") /\ Nonce!Releases(t) /\ highest \in Nat /\ request[t].nonce \in Nat /\ accepted \in BOOLEAN
    BY <1>3 DEF Nonce!Answered, NonceInv, NoncesTyped, NonceRequests
  <2>2. CASE request[t].nonce > highest
    <3>1. highest' = request[t].nonce /\ accepted' = TRUE
      BY <1>3, <2>2 DEF Nonce!Answered
    <3> QED
      BY <2>1, <2>2, <3>1, EndKeepsNonces
  <2>3. CASE ~(request[t].nonce > highest)
    <3>1. highest' = highest /\ accepted' = accepted
      BY <1>3, <2>3 DEF Nonce!Answered
    <3> QED
      BY <2>1, <3>1, EndKeepsNonces
  <2> QED
    BY <2>2, <2>3
<1>4. ASSUME NEW t \in Requesters, Nonce!TimesOut(t) PROVE NonceInv'
  BY <1>4, EndKeepsNonces DEF Nonce!TimesOut, NonceInv, NoncesTyped, NonceRequests
<1>5. ASSUME NEW c \in 1..NonceClock, Nonce!ClockMoves(c) PROVE NonceInv'
  BY <1>5 DEF Nonce!ClockMoves, NonceInv, NoncesTyped, OneAtATime, LastIsHighest, Nonce!NonceStaysAbove, Nonce!At
<1>6. CASE Nonce!Restart
  <2>1. /\ UNCHANGED <<nClock, highest, issued>>
        /\ lastNonce' = 0 /\ lock' = "free" /\ accepted' = FALSE
        /\ nRestarts < NonceRestarts /\ nRestarts' = nRestarts + 1
        /\ request' = [t \in Requesters |-> Nonce!NoRequest]
    BY <1>6 DEF Nonce!Restart
  <2>2. Nonce!NoRequest \in NonceRequests /\ Nonce!NoRequest.at = "none"
    BY DEF Nonce!NoRequest, NonceRequests
  <2>3. NoncesTyped'
    <3>1. request' \in [Requesters -> NonceRequests]
      BY <2>1, <2>2
    <3>2. nRestarts' \in 0..NonceRestarts
      BY <2>1 DEF NonceInv, NoncesTyped
    <3>3. lastNonce' \in Nat /\ accepted' \in BOOLEAN /\ lock' \in Requesters \cup {"free"}
      BY <2>1
    <3> QED
      BY <2>1, <3>1, <3>2, <3>3 DEF NonceInv, NoncesTyped
  <2> QED
    BY <2>1, <2>2, <2>3 DEF NonceInv, OneAtATime, LastIsHighest, Nonce!NonceStaysAbove, Nonce!At
<1>7. CASE UNCHANGED nonceVars
  BY <1>7 DEF nonceVars, NonceInv, NoncesTyped, OneAtATime, LastIsHighest, Nonce!NonceStaysAbove, Nonce!At
<1> QED
  BY <1>1, <1>2, <1>3, <1>4, <1>5, <1>6, <1>7 DEF Nonce!Next

(* The inductive invariant, which follows the lock and the last nonce. *)
THEOREM NoncesFollowTheLock == Spec => []NonceInv
<1>1. Init => NonceInv
  <2>0. Nonce!NoRequest \in NonceRequests /\ Nonce!NoRequest.at = "none"
    BY DEF Nonce!NoRequest, NonceRequests
  <2>1. Init => NoncesTyped
    <3>1. Init => nClock \in Nat /\ lastNonce \in Nat /\ highest \in Nat
      BY DEF Init, Nonce!Init
    <3>2. Init => accepted \in BOOLEAN /\ request \in [Requesters -> NonceRequests]
      BY <2>0 DEF Init, Nonce!Init
    <3>3. Init => nClock = 1 /\ issued = 0 /\ nRestarts = 0 /\ lock = "free"
      BY DEF Init, Nonce!Init
    <3> QED
      BY <3>1, <3>2, <3>3 DEF NoncesTyped
  <2>2. Init => \A t \in Requesters : request[t].at = "none"
    BY <2>0 DEF Init, Nonce!Init
  <2>3. Init => OneAtATime /\ LastIsHighest
    BY <2>2 DEF Init, Nonce!Init, OneAtATime, LastIsHighest, Nonce!NonceStaysAbove, Nonce!At
  <2> QED
    BY <2>1, <2>3 DEF NonceInv
<1>2. NonceInv /\ [Next]_vars => NonceInv'
  BY StepKeepsNonces, StepsApart
<1> QED
  BY <1>1, <1>2, PTL DEF Spec

(* rest_client.py: "keeps Kraken's view strictly monotonic", whatever the clock does, from the
   first nonce of the process that Kraken has accepted. *)
THEOREM NoncesStayAbove == Spec => []NonceStaysAbove
<1>1. NonceInv => NonceStaysAbove
  BY DEF NonceInv, LastIsHighest, NonceStaysAbove
<1> QED
  BY <1>1, NoncesFollowTheLock, PTL

LEMMA NonceTypes == Spec => []Nonce!TypeOK
<1>1. NonceInv => Nonce!TypeOK
  BY DEF NonceInv, NoncesTyped, NonceRequests, Nonce!TypeOK
<1> QED
  BY <1>1, NoncesFollowTheLock, PTL
-----------------------------------------------------------------------------
(* The pages of Kraken's history (KrakenFeed). *)

USE KrakenAssumption

Fetches == [at : {"none", "page", "config_error", "cut", "complete"}, offset : Nat, got : SUBSET (1..total),
            from : 0..total]

(* The pages so far hold what is older than the fetch and among the newest `offset` trades,
   however many trades came after: it is only ever that the pages overlap. *)
PagesHold == fetch.at = "page" => \A n \in 1..fetch.from : n + fetch.offset > total => n \in fetch.got

KrakenInv == Kraken!TypeOK /\ fetch \in Fetches /\ PagesHold /\ Kraken!FetchMissesNoTrade

(* A page has at most PageSize trades, and none when the offset is past the oldest. *)
LEMMA PageIsBounded ==
    ASSUME total \in Nat, NEW offset \in Nat
    PROVE  LET page == Kraken!HistoryPage(offset)
           IN  /\ page \subseteq 1..total
               /\ Cardinality(page) \in Nat /\ Cardinality(page) <= PageSize
               /\ page = {} => offset >= total
<1> DEFINE page == Kraken!HistoryPage(offset)
           a == total - offset - PageSize + 1
           b == total - offset
<1>1. a \in Int /\ b \in Int /\ b - a + 1 = PageSize /\ a <= b
  OBVIOUS
<1>2. page \subseteq 1..total
  BY DEF Kraken!HistoryPage
<1>3. page \subseteq a..b
  BY DEF Kraken!HistoryPage
<1>4. page = {} => offset >= total
  <2>1. ASSUME offset < total PROVE b \in page
    BY <2>1 DEF Kraken!HistoryPage
  <2> QED
    BY <2>1
<1> HIDE DEF page, a, b
<1>5. IsFiniteSet(a..b) /\ Cardinality(a..b) = PageSize
  BY <1>1, FS_Interval
<1>6. IsFiniteSet(page) /\ Cardinality(page) <= PageSize
  BY <1>3, <1>5, FS_Subset
<1>7. Cardinality(page) \in Nat
  BY <1>6, FS_CardinalityType
<1> QED
  BY <1>2, <1>4, <1>6, <1>7 DEF page

(* KrakenFeed's cardinality is that of finite sets. *)
LEMMA KrakenCardinality == ASSUME NEW S PROVE Kraken!Cardinality(S) = Cardinality(S)
BY DEF Kraken!Cardinality, Cardinality, Kraken!IsFiniteSet, IsFiniteSet

(* A page arrives. *)
LEMMA PagesKeepKrakenInv == ASSUME KrakenInv, Kraken!PageArrives PROVE KrakenInv'
<1> DEFINE page   == Kraken!HistoryPage(fetch.offset)
           offset == fetch.offset + Cardinality(page)
<1>1. UNCHANGED <<mode, key, total, kRestarts, feed, wire, known>> /\ fetch.at = "page"
  BY DEF Kraken!PageArrives, Kraken!feedVars
<1>p. PICK more \in {"page", "cut"} :
        fetch' = [fetch EXCEPT !.offset = offset, !.got = fetch.got \cup page,
                               !.at = IF Kraken!IsLastPage(page, offset) THEN "complete" ELSE more]
  <2> DEFINE to == [counted |-> "page", uncounted |-> "cut"]
  <2>1. DOMAIN to = {"counted", "uncounted"} /\ \A sort \in {"counted", "uncounted"} : to[sort] \in {"page", "cut"}
    OBVIOUS
  <2>2. \E sort \in {"counted", "uncounted"} :
          fetch' = [fetch EXCEPT !.offset = offset, !.got = fetch.got \cup page,
                                 !.at = IF Kraken!IsLastPage(page, offset) THEN "complete" ELSE to[sort]]
    BY <2>1, KrakenCardinality DEF Kraken!PageArrives
  <2> QED
    BY <2>1, <2>2
<1>f. failures' \in 0..MaxFailures
  BY DEF Kraken!PageArrives, KrakenInv, Kraken!TypeOK
<1> DEFINE at == IF Kraken!IsLastPage(page, offset) THEN "complete" ELSE more
<1>a. fetch' = [fetch EXCEPT !.offset = offset, !.got = fetch.got \cup page, !.at = at]
  BY <1>p
<1>2. /\ total \in Nat /\ fetch.offset \in Nat /\ fetch.from \in 0..total /\ fetch.got \subseteq 1..total
      /\ \A n \in 1..fetch.from : n + fetch.offset > total => n \in fetch.got
  BY <1>1 DEF KrakenInv, Kraken!TypeOK, Fetches, PagesHold
<1>3. /\ page \subseteq 1..total /\ Cardinality(page) \in Nat /\ Cardinality(page) <= PageSize
      /\ page = {} => fetch.offset >= total
  BY <1>2, PageIsBounded
<1>4. offset \in Nat
  BY <1>2, <1>3
<1>5. \A n \in 1..fetch.from : n + offset > total => n \in fetch.got \cup page
  <2>1. ASSUME NEW n \in 1..fetch.from, n + offset > total, n \notin fetch.got PROVE n \in page
    BY <1>2, <1>3, <2>1 DEF Kraken!HistoryPage
  <2> QED
    BY <2>1
<1>6. at = "complete" => offset >= total
  <2>1. page = {} => offset >= total
    BY <1>2, <1>3
  <2> QED
    BY <2>1 DEF Kraken!IsLastPage
<1>7. at \in {"complete", "page", "cut"}
  OBVIOUS
<1> HIDE DEF page, offset, at
<1>8. /\ fetch'.at = at /\ fetch'.offset = offset /\ fetch'.got = fetch.got \cup page
      /\ fetch'.from = fetch.from /\ fetch' \in Fetches'
  BY <1>1, <1>a, <1>2, <1>3, <1>4, <1>7 DEF KrakenInv, Fetches
<1>9. Kraken!TypeOK'
  BY <1>1, <1>2, <1>3, <1>f, <1>7, <1>8 DEF KrakenInv, Kraken!TypeOK
<1>10. PagesHold'
  BY <1>1, <1>5, <1>8 DEF PagesHold
<1>11. Kraken!FetchMissesNoTrade'
  <2>1. ASSUME at = "complete" PROVE 1..fetch.from \subseteq fetch.got \cup page
    BY <1>2, <1>4, <1>5, <1>6, <2>1
  <2> QED
    BY <1>8, <2>1 DEF Kraken!FetchMissesNoTrade
<1> QED
  BY <1>8, <1>9, <1>10, <1>11 DEF KrakenInv

(* A fetch that is not under way misses nothing. *)
LEMMA NoFetchHolds ==
    ASSUME Kraken!TypeOK', total' \in Nat, fetch' \in {[Kraken!NoFetch EXCEPT !.at = a] : a \in {"none", "config_error"}}
    PROVE  KrakenInv'
BY DEF KrakenInv, Fetches, PagesHold, Kraken!FetchMissesNoTrade, Kraken!NoFetch

LEMMA KrakenSteps ==
    ASSUME KrakenInv, Kraken!Next \/ UNCHANGED krakenVars
    PROVE  KrakenInv'
<1> USE DEF Kraken!world, Kraken!feedVars
<1>t. Kraken!TypeOK /\ fetch \in Fetches /\ total \in Nat
  BY DEF KrakenInv, Kraken!TypeOK
<1>s. ASSUME UNCHANGED <<total, fetch>>, Kraken!TypeOK' PROVE KrakenInv'
  BY <1>s DEF KrakenInv, Fetches, PagesHold, Kraken!FetchMissesNoTrade
<1>1. CASE Kraken!FetchBegins
  <2>1. fetch' = [Kraken!NoFetch EXCEPT !.at = "page", !.from = total]
        /\ UNCHANGED <<mode, key, total, failures, kRestarts, feed, wire, known>>
    BY <1>1 DEF Kraken!FetchBegins
  <2>2. fetch' = [at |-> "page", offset |-> 0, got |-> {}, from |-> total]
    BY <2>1 DEF Kraken!NoFetch
  <2>a. fetch'.at = "page" /\ fetch'.offset = 0 /\ fetch'.got = {} /\ fetch'.from = total
    BY <2>2
  <2>3. Kraken!TypeOK'
    BY <1>t, <2>1, <2>a DEF Kraken!TypeOK
  <2>4. fetch' \in Fetches' /\ Kraken!FetchMissesNoTrade'
    BY <1>t, <2>1, <2>2 DEF Fetches, Kraken!FetchMissesNoTrade
  <2>5. PagesHold'
    BY <1>t, <2>1, <2>a DEF PagesHold
  <2> QED
    BY <2>3, <2>4, <2>5 DEF KrakenInv
<1>2. CASE Kraken!FetchFails
  <2>1. /\ UNCHANGED <<mode, key, total, kRestarts, feed, wire, known>>
        /\ fetch' \in {[Kraken!NoFetch EXCEPT !.at = a] : a \in {"none", "config_error"}}
        /\ failures' \in 0..MaxFailures
    BY <1>t, <1>2 DEF Kraken!FetchFails, Kraken!TypeOK
  <2>2. Kraken!TypeOK'
    BY <1>t, <2>1 DEF Kraken!TypeOK, Kraken!NoFetch
  <2> QED
    BY <1>t, <2>1, <2>2, NoFetchHolds
<1>3. CASE Kraken!ConfigErrorReported \/ Kraken!Parse \/ Kraken!Restart
  <2>1. /\ UNCHANGED <<mode, key, total, failures>> /\ fetch' = Kraken!NoFetch
        /\ kRestarts' \in 0..FeedRestarts
        /\ UNCHANGED <<feed, wire>> \/ (feed' = "down" /\ wire' = {})
        /\ known' = known \/ known' = known \cup (fetch.got \ Malformed)
    BY <1>t, <1>3 DEF Kraken!TypeOK, Kraken!ConfigErrorReported, Kraken!Parse, Kraken!Restart, Kraken!Parsed
  <2>2. Kraken!TypeOK'
    <3>1. known' \subseteq 1..total \ Malformed
      BY <1>t, <2>1 DEF Kraken!TypeOK
    <3>2. wire' \subseteq 1..total /\ (wire' # {} => feed' = "connected")
          /\ feed' \in {"down", "connected", "stopped"}
      BY <1>t, <2>1 DEF Kraken!TypeOK
    <3>3. /\ fetch'.at \in {"none", "page", "config_error", "cut", "complete"}
          /\ fetch'.got \subseteq 1..total /\ fetch'.from \in 0..total
      BY <1>t, <2>1 DEF Kraken!NoFetch
    <3> QED
      BY <1>t, <2>1, <3>1, <3>2, <3>3 DEF Kraken!TypeOK
  <2>3. fetch' \in {[Kraken!NoFetch EXCEPT !.at = a] : a \in {"none", "config_error"}}
    BY <2>1 DEF Kraken!NoFetch
  <2> QED
    BY <1>t, <2>1, <2>2, <2>3, NoFetchHolds
<1>4. CASE Kraken!Subscribe \/ Kraken!ConnectFails
  <2>1. /\ UNCHANGED <<mode, key, total, failures, kRestarts, fetch, wire, known>>
        /\ feed = "down" /\ feed' \in {"connected", "down", "stopped"}
    BY <1>4 DEF Kraken!Subscribe, Kraken!ConnectFails
  <2> QED
    BY <1>t, <1>s, <2>1 DEF Kraken!TypeOK
<1>5. CASE Kraken!Messages \/ Kraken!FeedBreaks
  <2>1. /\ UNCHANGED <<mode, key, total, failures, kRestarts, fetch>> /\ feed = "connected"
        /\ \/ feed' = feed /\ wire' \subseteq wire
           \/ feed' = "down" /\ wire' = {}
        /\ \E trades \in SUBSET wire : known' = known \cup (trades \ Malformed)
    BY <1>5 DEF Kraken!Messages, Kraken!OnMessage, Kraken!FeedBreaks, Kraken!Parsed
  <2> QED
    BY <1>t, <1>s, <2>1 DEF Kraken!TypeOK
<1>6. CASE Kraken!Trade
  <2>1. /\ UNCHANGED <<mode, key, failures, kRestarts, fetch, feed, known>>
        /\ total < MaxTrades /\ total' = total + 1
        /\ wire' = IF feed = "connected" THEN wire \cup {total + 1} ELSE wire
    BY <1>6 DEF Kraken!Trade
  <2>2. 1..total \subseteq 1..total' /\ 0..total \subseteq 0..total' /\ total' \in 0..MaxTrades
        /\ total + 1 \in 1..total'
    BY <1>t, <2>1 DEF Kraken!TypeOK
  <2>3. Kraken!TypeOK'
    <3>1. wire' \subseteq 1..total' /\ (wire' # {} => feed' = "connected")
      BY <1>t, <2>1, <2>2 DEF Kraken!TypeOK
    <3> QED
      BY <1>t, <2>1, <2>2, <3>1 DEF Kraken!TypeOK
  <2>4. fetch' \in Fetches'
    BY <1>t, <2>1, <2>2 DEF Fetches
  <2>5. PagesHold'
    BY <1>t, <2>1 DEF KrakenInv, PagesHold, Fetches
  <2> QED
    BY <2>1, <2>3, <2>4, <2>5 DEF KrakenInv, Kraken!FetchMissesNoTrade
<1>7. CASE Kraken!KeyRevoked \/ UNCHANGED krakenVars
  <2>1. UNCHANGED <<mode, total, failures, kRestarts, fetch, feed, wire, known>> /\ key' \in {key, "revoked"}
    BY <1>7 DEF Kraken!KeyRevoked, krakenVars
  <2> QED
    BY <1>t, <1>s, <2>1 DEF Kraken!TypeOK
<1> QED
  BY <1>1, <1>2, <1>3, <1>4, <1>5, <1>6, <1>7, PagesKeepKrakenInv DEF Kraken!Next, Kraken!PollStep

(* The history and the feed keep their invariant. *)
THEOREM PagesFollowTheOffset == Spec => []KrakenInv
<1>1. Init => KrakenInv
  <2> SUFFICES ASSUME Init PROVE KrakenInv
    OBVIOUS
  <2>1. /\ mode # {} /\ mode \subseteq {"poller", "listener"}
        /\ key = "good" /\ total = 0 /\ feed = "down" /\ wire = {} /\ known = {}
        /\ failures = 0 /\ kRestarts = 0
        /\ fetch = [at |-> "none", offset |-> 0, got |-> {}, from |-> 0]
    BY DEF Init, Kraken!Init, Kraken!Built, Kraken!NoFetch
  <2>2. Kraken!TypeOK
    <3>1. mode \in (SUBSET {"poller", "listener"}) \ {{}}
      BY <2>1
    <3>2. total \in 0..MaxTrades /\ failures \in 0..MaxFailures /\ kRestarts \in 0..FeedRestarts
      BY <2>1
    <3> QED
      BY <2>1, <3>1, <3>2 DEF Kraken!TypeOK
  <2>3. fetch \in Fetches
    BY <2>1 DEF Fetches
  <2>4. PagesHold /\ Kraken!FetchMissesNoTrade
    BY <2>1 DEF PagesHold, Kraken!FetchMissesNoTrade
  <2> QED
    BY <2>2, <2>3, <2>4 DEF KrakenInv
<1>2. KrakenInv /\ [Next]_vars => KrakenInv'
  BY KrakenSteps, StepsApart
<1> QED
  BY <1>1, <1>2, PTL DEF Spec

(* fetch: every trade that was there when the fetch began is in it when it is complete,
   however many are made between two of its pages. *)
THEOREM FetchIsComplete == Spec => []FetchMissesNoTrade
<1>1. KrakenInv => FetchMissesNoTrade
  BY DEF KrakenInv, FetchMissesNoTrade
<1> QED
  BY <1>1, PagesFollowTheOffset, PTL

LEMMA KrakenTypes == Spec => []Kraken!TypeOK
<1>1. KrakenInv => Kraken!TypeOK
  BY DEF KrakenInv
<1> QED
  BY <1>1, PagesFollowTheOffset, PTL
-----------------------------------------------------------------------------
(* The Flex report (FlexReport). *)

USE FlexAssumption

\* A row of which a fill can be made.
GoodRow(row) == row.id # Flex!NoId /\ row.state # "broken"

FlexTyped ==
    /\ phase \in {"idle", "waiting", "failed", "misconfigured", "gaveUp", "parsing", "parsed"}
    /\ waits \in 0..4 /\ readyAt \in 0..MaxReady
    /\ phase \in {"idle", "waiting"} => waits < 4
    /\ report \in Seq(Flex!Rows) /\ seen \subseteq ExecIds
    /\ toDo \subseteq DOMAIN report /\ fills \in Seq(DOMAIN report) /\ badRows \subseteq DOMAIN report
    /\ phase \notin {"parsing", "parsed"} => report = <<>> /\ seen = {} /\ fills = <<>> /\ badRows = {}
    /\ phase # "parsing" => toDo = {}

(* seen has the executions of the fills, and no execution has two. *)
SeenIsFilled ==
    /\ \A k \in 1..Len(fills) : GoodRow(report[fills[k]]) /\ report[fills[k]].id \in seen
    /\ \A k, l \in 1..Len(fills) : report[fills[k]].id = report[fills[l]].id => k = l
    /\ \A id \in seen : \E k \in 1..Len(fills) : report[fills[k]].id = id

(* A row that was looked at is bad and reported, or its execution was seen. *)
EachRowShows ==
    \A i \in (DOMAIN report) \ toDo :
        IF GoodRow(report[i]) THEN report[i].id \in seen ELSE i \in badRows

FlexInv == FlexTyped /\ SeenIsFilled /\ EachRowShows

LEMMA FourWaits == Len(Flex!Waits) = 4
BY DEF Flex!Waits

LEMMA FlexCardinality == ASSUME NEW S PROVE Flex!Cardinality(S) = Cardinality(S)
BY DEF Flex!Cardinality, Cardinality, Flex!IsFiniteSet, IsFiniteSet

(* Before there is a report, and when the next poll starts from nothing. *)
LEMMA NoReportYet ==
    ASSUME phase' \in {"idle", "waiting", "failed", "misconfigured", "gaveUp"}, waits' \in 0..4,
           phase' \in {"idle", "waiting"} => waits' < 4, readyAt' \in 0..MaxReady,
           report' = <<>>, toDo' = {}, seen' = {}, fills' = <<>>, badRows' = {}
    PROVE  FlexInv'
BY DEF FlexInv, FlexTyped, SeenIsFilled, EachRowShows, Flex!Rows

LEMMA FlexSteps ==
    ASSUME FlexInv, Flex!Next \/ UNCHANGED flexVars
    PROVE  FlexInv'
<1>t. FlexTyped
  BY DEF FlexInv
<1>1. CASE \/ \E r \in 0..MaxReady : Flex!SendRequest(r)
           \/ Flex!Refused \/ Flex!StillGenerating
  <2>1. /\ phase \in {"idle", "waiting"} /\ UNCHANGED <<report, toDo, seen, fills, badRows>>
        /\ phase' \in {"waiting", "failed", "misconfigured", "gaveUp"}
    BY <1>1 DEF Flex!SendRequest, Flex!Refused, Flex!StillGenerating
  <2>2. readyAt' \in 0..MaxReady
    BY <1>1, <1>t DEF Flex!SendRequest, Flex!Refused, Flex!StillGenerating, FlexTyped
  <2>3. waits' \in 0..4 /\ (phase' \in {"idle", "waiting"} => waits' < 4)
    <3>1. waits \in 0..4 /\ waits < 4
      BY <1>t, <2>1 DEF FlexTyped
    <3>2. CASE (\E r \in 0..MaxReady : Flex!SendRequest(r)) \/ Flex!Refused
      <4>1. UNCHANGED waits
        BY <3>2 DEF Flex!SendRequest, Flex!Refused
      <4> QED
        BY <3>1, <4>1
    <3>3. CASE Flex!StillGenerating
      <4>1. waits' = waits + 1 /\ phase' = IF waits' = 4 THEN "gaveUp" ELSE "waiting"
        BY <3>3, FourWaits DEF Flex!StillGenerating, Flex!LastAttempt
      <4> QED
        BY <3>1, <4>1
    <3> QED
      BY <1>1, <3>2, <3>3
  <2>4. report' = <<>> /\ toDo' = {} /\ seen' = {} /\ fills' = <<>> /\ badRows' = {}
    BY <1>t, <2>1 DEF FlexTyped
  <2> QED
    BY <2>1, <2>2, <2>3, <2>4, NoReportYet
<1>2. ASSUME NEW rows \in Flex!Reports, Flex!GetStatement(rows) PROVE FlexInv'
  <2>1. /\ phase = "waiting" /\ report' = rows /\ toDo' = DOMAIN rows /\ phase' = "parsing"
        /\ waits' = 0 /\ readyAt' = 0 /\ UNCHANGED <<seen, fills, badRows>>
    BY <1>2 DEF Flex!GetStatement
  <2>2. seen = {} /\ fills = <<>> /\ badRows = {}
    BY <1>t, <2>1 DEF FlexTyped
  <2>3. rows \in Seq(Flex!Rows)
    <3>1. PICK n \in 0..MaxRows : rows \in [1..n -> Flex!Rows]
      BY DEF Flex!Reports
    <3> QED
      BY <3>1, FlexAssumption
  <2>4. FlexTyped'
    <3>1. 0 \in 0..MaxReady
      BY FlexAssumption
    <3> QED
      BY <2>1, <2>2, <2>3, <3>1 DEF FlexTyped
  <2> QED
    BY <2>1, <2>2, <2>4 DEF FlexInv, SeenIsFilled, EachRowShows
\* The parser looks at row i.
<1>3. ASSUME NEW i \in toDo, Flex!Skip(i) \/ Flex!SkipDuplicate(i) \/ Flex!MakeFill(i) PROVE FlexInv'
  <2>1. /\ phase = "parsing" /\ toDo' = toDo \ {i} /\ UNCHANGED <<phase, waits, readyAt, report>>
        /\ \/ ~GoodRow(report[i]) /\ badRows' = badRows \cup {i} /\ UNCHANGED <<seen, fills>>
           \/ GoodRow(report[i]) /\ report[i].id \in seen /\ UNCHANGED <<seen, fills, badRows>>
           \/ /\ GoodRow(report[i]) /\ report[i].id \notin seen /\ seen' = seen \cup {report[i].id}
              /\ fills' = Append(fills, i) /\ badRows' \in {badRows, badRows \cup {i}}
    BY <1>3 DEF Flex!Skip, Flex!SkipDuplicate, Flex!MakeFill, Flex!Takes, Flex!Unusable, Flex!SeenAfterSkip, GoodRow
  <2>2. i \in DOMAIN report /\ report[i] \in Flex!Rows /\ fills \in Seq(DOMAIN report)
    BY <1>t DEF FlexTyped
  <2>3. FlexTyped'
    <3>1. GoodRow(report[i]) => report[i].id \in ExecIds
      BY <2>2 DEF GoodRow, Flex!Rows
    <3>2. seen' \subseteq ExecIds /\ badRows' \subseteq DOMAIN report' /\ toDo' \subseteq DOMAIN report'
      BY <1>t, <2>1, <2>2, <3>1 DEF FlexTyped
    <3>3. fills' \in Seq(DOMAIN report')
      BY <2>1, <2>2
    <3> QED
      BY <1>t, <2>1, <3>2, <3>3 DEF FlexTyped
  <2>4. UNCHANGED report
    BY <2>1
  <2>5. SeenIsFilled'
    <3>1. CASE UNCHANGED <<seen, fills>>
      BY <2>1, <2>4, <3>1 DEF FlexInv, SeenIsFilled
    <3>2. CASE /\ GoodRow(report[i]) /\ report[i].id \notin seen /\ seen' = seen \cup {report[i].id}
               /\ fills' = Append(fills, i)
      <4>1. /\ Len(fills) \in Nat /\ Len(fills') = Len(fills) + 1 /\ fills'[Len(fills) + 1] = i
            /\ \A k \in 1..Len(fills) : fills'[k] = fills[k]
        BY <2>2, <3>2
      <4>2. \A k \in 1..Len(fills') : k \in 1..Len(fills) \/ k = Len(fills) + 1
        BY <4>1
      <4>3. \A k \in 1..Len(fills') : GoodRow(report'[fills'[k]]) /\ report'[fills'[k]].id \in seen'
        <5>1. \A k \in 1..Len(fills) : GoodRow(report[fills[k]]) /\ report[fills[k]].id \in seen
          BY DEF FlexInv, SeenIsFilled
        <5> QED
          BY <2>1, <2>4, <3>2, <4>1, <4>2, <5>1
      <4>4. \A k, l \in 1..Len(fills') : report'[fills'[k]].id = report'[fills'[l]].id => k = l
        BY <2>1, <3>2, <4>1, <4>2 DEF FlexInv, SeenIsFilled
      <4>5. ASSUME NEW id \in seen' PROVE \E k \in 1..Len(fills') : report'[fills'[k]].id = id
        <5>1. CASE id \in seen
          <6>1. PICK k \in 1..Len(fills) : report[fills[k]].id = id
            BY <5>1 DEF FlexInv, SeenIsFilled
          <6>2. k \in 1..Len(fills')
            BY <4>1
          <6> QED
            BY <2>1, <4>1, <6>1, <6>2
        <5>2. CASE id = report[i].id
          <6>1. Len(fills) + 1 \in 1..Len(fills')
            BY <4>1
          <6> QED
            BY <2>1, <4>1, <5>2, <6>1
        <5> QED
          BY <3>2, <4>5, <5>1, <5>2
      <4> QED
        BY <4>3, <4>4, <4>5 DEF SeenIsFilled
    <3> QED
      BY <2>1, <3>1, <3>2
  <2>6. ASSUME NEW j \in (DOMAIN report') \ toDo'
        PROVE  IF GoodRow(report'[j]) THEN report'[j].id \in seen' ELSE j \in badRows'
    <3>1. CASE j = i
      BY <2>1, <2>4, <3>1
    <3>2. CASE j # i
      <4>1. j \in (DOMAIN report) \ toDo
        BY <2>1, <2>6, <3>2
      <4>2. IF GoodRow(report[j]) THEN report[j].id \in seen ELSE j \in badRows
        BY <4>1 DEF FlexInv, EachRowShows
      <4>3. seen \subseteq seen' /\ badRows \subseteq badRows' /\ UNCHANGED report
        BY <2>1
      <4> QED
        BY <2>4, <4>2, <4>3
    <3> QED
      BY <3>1, <3>2
  <2> QED
    BY <2>3, <2>5, <2>6 DEF FlexInv, EachRowShows
<1>4. CASE Flex!Parsed
  <2>1. phase = "parsing" /\ toDo = {} /\ phase' = "parsed"
        /\ UNCHANGED <<waits, readyAt, report, toDo, seen, fills, badRows>>
    BY <1>4 DEF Flex!Parsed
  <2>2. FlexTyped'
    BY <1>t, <2>1 DEF FlexTyped
  <2> QED
    BY <2>1, <2>2 DEF FlexInv, SeenIsFilled, EachRowShows, GoodRow
<1>5. CASE Flex!NextPoll
  <2>1. /\ phase' = "idle" /\ waits' = 0 /\ readyAt' = 0
        /\ report' = <<>> /\ toDo' = {} /\ seen' = {} /\ fills' = <<>> /\ badRows' = {}
    BY <1>5 DEF Flex!NextPoll
  <2> QED
    BY <2>1, FlexAssumption, NoReportYet
<1>6. CASE UNCHANGED flexVars
  BY <1>6 DEF flexVars, FlexInv, FlexTyped, SeenIsFilled, EachRowShows, GoodRow
<1> QED
  BY <1>1, <1>2, <1>3, <1>4, <1>5, <1>6 DEF Flex!Next

(* While a document is parsed, `seen` has the executions of the fills made so far. *)
THEOREM SeenFollowsTheFills == Spec => []FlexInv
<1>1. Init => FlexInv
  <2> SUFFICES ASSUME Init PROVE FlexInv
    OBVIOUS
  <2>1. /\ phase = "idle" /\ waits = 0 /\ readyAt = 0
        /\ report = <<>> /\ toDo = {} /\ seen = {} /\ fills = <<>> /\ badRows = {}
    BY DEF Init, Flex!Init
  <2> QED
    BY <2>1, FlexAssumption DEF FlexInv, FlexTyped, SeenIsFilled, EachRowShows
<1>2. FlexInv /\ [Next]_vars => FlexInv'
  BY FlexSteps, StepsApart
<1> QED
  BY <1>1, <1>2, PTL DEF Spec

(* parse_fills: an execution of which a row is usable has exactly one fill when the document
   is parsed, whichever of its rows come first; a row that is not usable was reported. *)
THEOREM OneFillForEachExecution == Spec => []EachExecutionOnce
<1>1. FlexInv => EachExecutionOnce
  <2> SUFFICES ASSUME FlexInv, phase = "parsed"
               PROVE  /\ \A id \in {report[i].id : i \in {j \in DOMAIN report : Flex!Usable(j)}} :
                            Flex!Cardinality({k \in DOMAIN fills : report[fills[k]].id = id}) = 1
                      /\ \A k \in DOMAIN fills : Flex!Usable(fills[k])
                      /\ \A i \in DOMAIN report : Flex!Usable(i) \/ i \in badRows
    BY DEF EachExecutionOnce, Flex!EachExecutionOnce
  <2>1. \A i : Flex!Usable(i) <=> GoodRow(report[i])
    BY DEF Flex!Usable, GoodRow
  <2>2. toDo = {} /\ DOMAIN fills = 1..Len(fills)
    BY DEF FlexInv, FlexTyped
  <2>3. ASSUME NEW i \in DOMAIN report, Flex!Usable(i)
        PROVE  Flex!Cardinality({k \in DOMAIN fills : report[fills[k]].id = report[i].id}) = 1
    <3>1. report[i].id \in seen
      BY <2>1, <2>2, <2>3 DEF FlexInv, EachRowShows
    <3>2. PICK k \in 1..Len(fills) : report[fills[k]].id = report[i].id
      BY <3>1 DEF FlexInv, SeenIsFilled
    <3>3. {l \in DOMAIN fills : report[fills[l]].id = report[i].id} = {k}
      BY <2>2, <3>2 DEF FlexInv, SeenIsFilled
    <3> QED
      BY <3>3, FlexCardinality, FS_Singleton
  <2>4. \A k \in DOMAIN fills : Flex!Usable(fills[k])
    BY <2>1, <2>2 DEF FlexInv, SeenIsFilled
  <2>5. \A i \in DOMAIN report : Flex!Usable(i) \/ i \in badRows
    BY <2>1, <2>2 DEF FlexInv, EachRowShows
  <2> QED
    BY <2>3, <2>4, <2>5
<1> QED
  BY <1>1, SeenFollowsTheFills, PTL

LEMMA FlexTypes == Spec => []Flex!TypeOK
<1>1. FlexInv => Flex!TypeOK
  BY FourWaits DEF FlexInv, FlexTyped, Flex!TypeOK
<1> QED
  BY <1>1, SeenFollowsTheFills, PTL
-----------------------------------------------------------------------------
(* Sums over finite sets (SumFunction), of what a function assigns to their elements: they
   can be taken in any order, in parts and under other names. *)

(* A set of natural numbers has a least element. *)
LEMMA LeastOf ==
    ASSUME NEW S \in SUBSET Nat, S # {}
    PROVE  \E x \in S : \A y \in S : x <= y
<1> DEFINE R == OpToRel(<, Nat)
<1>1. IsWellFoundedOn(R, Nat)
  BY NatLessThanWellFounded
<1>2. \A x, y \in Nat : x < y => <<x, y>> \in R
  BY DEF OpToRel
<1> HIDE DEF R
<1>3. PICK x \in S : \A y \in S : ~ (<<y, x>> \in R)
  BY <1>1, WFMin
<1>4. ASSUME NEW y \in S PROVE x <= y
  <2>1. x \in Nat /\ y \in Nat /\ ~(y < x)
    BY <1>2, <1>3
  <2> QED
    BY <2>1
<1> QED
  BY <1>4

(* Induction over the subsets of a finite set, of a set of subsets instead of a predicate: a
   smallest subset outside would have all those that lack one of its elements inside. *)
LEMMA AllSubsetsReached ==
    ASSUME NEW D, IsFiniteSet(D), NEW good,
           {} \in good,
           \A S \in SUBSET D : S # {} /\ (\A x \in S : S \ {x} \in good) => S \in good
    PROVE  SUBSET D \subseteq good
<1> DEFINE sizes == {Cardinality(S) : S \in {S \in SUBSET D : S \notin good}}
<1> SUFFICES ASSUME NEW A \in SUBSET D, A \notin good PROVE FALSE
  OBVIOUS
<1>1. sizes \subseteq Nat /\ sizes # {}
  BY FS_Subset, FS_CardinalityType
<1>2. PICK n \in sizes : \A m \in sizes : n <= m
  BY <1>1, LeastOf
<1>3. PICK S \in SUBSET D : S \notin good /\ n = Cardinality(S)
  BY <1>2
<1>4. S # {} /\ IsFiniteSet(S) /\ n \in Nat
  BY <1>1, <1>3, FS_Subset
<1>5. ASSUME NEW x \in S PROVE S \ {x} \in good
  <2>1. Cardinality(S \ {x}) = n - 1
    BY <1>3, <1>4, FS_RemoveElement
  <2>2. ASSUME S \ {x} \notin good PROVE FALSE
    <3>1. Cardinality(S \ {x}) \in sizes
      BY <2>2
    <3> HIDE DEF sizes
    <3> QED
      BY <1>2, <1>4, <2>1, <3>1
  <2> QED
    BY <2>2
<1> QED
  BY <1>3, <1>4, <1>5

(* What SumFunctionOnSet calls itself on, without the element it takes first. *)
Pick(S) == CHOOSE x \in S : TRUE
Adds(f, S, g) ==
    g = [T \in SUBSET S |-> IF T = {} THEN 0 ELSE f[Pick(T)] + g[T \ {Pick(T)}]]

LEMMA SumIsAFold ==
    ASSUME NEW f, NEW S
    PROVE  SumFunctionOnSet(f, S) = (CHOOSE g : Adds(f, S, g))[S]
BY DEF SumFunctionOnSet, FoldFunctionOnSet, MapThenFoldSet, Adds, Pick

LEMMA PickType == ASSUME NEW S, S # {} PROVE Pick(S) \in S
BY DEF Pick

(* The recursion has a solution: one for all subsets up to some size extends to the next size. *)
LEMMA AdderExists ==
    ASSUME NEW f, NEW S, IsFiniteSet(S)
    PROVE  \E g : Adds(f, S, g)
<1> DEFINE Eq(g, T) == g[T] = IF T = {} THEN 0 ELSE f[Pick(T)] + g[T \ {Pick(T)}]
           Upto(n) == \E g : \A T \in SUBSET S : Cardinality(T) <= n => Eq(g, T)
           short == {n \in Nat : ~Upto(n)}
<1>1. \A T \in SUBSET S : IsFiniteSet(T) /\ Cardinality(T) \in Nat
                            /\ (Cardinality(T) = 0 <=> T = {})
  BY FS_Subset, FS_CardinalityType, FS_EmptySet
<1>2. \A T \in SUBSET S : T # {} => /\ T \ {Pick(T)} \in SUBSET S
                                     /\ Cardinality(T \ {Pick(T)}) = Cardinality(T) - 1
  BY <1>1, PickType, FS_RemoveElement
<1>3. Upto(0)
  <2> DEFINE g == [T \in SUBSET S |-> 0]
  <2>1. \A T \in SUBSET S : Cardinality(T) <= 0 => Eq(g, T)
    BY <1>1
  <2> QED
    BY <2>1
<1>4. ASSUME NEW n \in Nat, Upto(n) PROVE Upto(n + 1)
  <2>1. PICK g : \A T \in SUBSET S : Cardinality(T) <= n => Eq(g, T)
    BY <1>4
  <2> DEFINE h == [T \in SUBSET S |-> IF Cardinality(T) <= n THEN g[T]
                                      ELSE f[Pick(T)] + g[T \ {Pick(T)}]]
  <2>2. ASSUME NEW T \in SUBSET S, Cardinality(T) <= n + 1 PROVE Eq(h, T)
    <3>1. CASE T = {}
      <4>1. Cardinality(T) <= n /\ Cardinality(T) \in Nat
        BY <1>1, <3>1
      <4>2. Eq(g, T)
        BY <2>1, <4>1
      <4>3. h[T] = g[T]
        BY <4>1
      <4> QED
        BY <3>1, <4>2, <4>3
    <3>2. CASE T # {}
      <4>1. Cardinality(T) \in Nat /\ T \ {Pick(T)} \in SUBSET S
            /\ Cardinality(T \ {Pick(T)}) = Cardinality(T) - 1
        BY <1>1, <1>2, <3>2
      <4>2. Cardinality(T \ {Pick(T)}) <= n
        BY <2>2, <4>1
      <4>3. h[T \ {Pick(T)}] = g[T \ {Pick(T)}]
        BY <4>1, <4>2
      <4>4. h[T] = f[Pick(T)] + g[T \ {Pick(T)}]
        <5>1. CASE Cardinality(T) <= n
          BY <2>1, <3>2, <5>1
        <5>2. CASE ~(Cardinality(T) <= n)
          BY <5>2
        <5> QED
          BY <5>1, <5>2
      <4> QED
        BY <3>2, <4>3, <4>4
    <3> QED
      BY <3>1, <3>2
  <2> QED
    BY <2>2
<1> HIDE DEF Upto
<1>5. short = {}
  <2> SUFFICES ASSUME short # {} PROVE FALSE
    OBVIOUS
  <2>1. PICK n \in short : \A m \in short : n <= m
    BY LeastOf
  <2>2. n \in Nat /\ n # 0
    BY <2>1, <1>3
  <2>3. n - 1 \in Nat /\ ~(n <= n - 1) /\ (n - 1) + 1 = n
    BY <2>2
  <2>4. Upto(n - 1)
    BY <2>1, <2>3
  <2>5. Upto(n)
    BY <1>4, <2>3, <2>4
  <2> QED
    BY <2>1, <2>5
<1>6. Upto(Cardinality(S))
  BY <1>1, <1>5
<1>7. PICK g : \A T \in SUBSET S : Cardinality(T) <= Cardinality(S) => Eq(g, T)
  BY <1>6 DEF Upto
<1>8. \A T \in SUBSET S : Eq(g, T)
  BY <1>7, FS_Subset
<1> DEFINE k == [T \in SUBSET S |-> g[T]]
<1>9. k = [T \in SUBSET S |-> IF T = {} THEN 0 ELSE f[Pick(T)] + k[T \ {Pick(T)}]]
  BY <1>2, <1>8
<1> QED
  BY <1>9 DEF Adds

LEMMA AddersAgree ==
    ASSUME NEW f, NEW S, NEW T, NEW g, NEW h, Adds(f, S, g), Adds(f, T, h),
           NEW D, D \subseteq S, D \subseteq T, IsFiniteSet(D)
    PROVE  g[D] = h[D]
<1> DEFINE good == {U \in SUBSET D : g[U] = h[U]}
<1>1. \A U \in SUBSET D :
          /\ g[U] = (IF U = {} THEN 0 ELSE f[Pick(U)] + g[U \ {Pick(U)}])
          /\ h[U] = (IF U = {} THEN 0 ELSE f[Pick(U)] + h[U \ {Pick(U)}])
  BY DEF Adds
<1>2. {} \in good
  BY <1>1
<1>3. ASSUME NEW U \in SUBSET D, U # {}, \A x \in U : U \ {x} \in good
      PROVE  U \in good
  BY <1>1, <1>3, PickType
<1> HIDE DEF good
<1>4. SUBSET D \subseteq good
  BY <1>2, <1>3, AllSubsetsReached
<1> QED
  BY <1>4 DEF good

(* A sum is zero, or the first element and the sum of the rest. *)
LEMMA SumOneByOne ==
    ASSUME NEW f, NEW S, IsFiniteSet(S)
    PROVE  SumFunctionOnSet(f, S) =
               IF S = {} THEN 0 ELSE f[Pick(S)] + SumFunctionOnSet(f, S \ {Pick(S)})
<1> DEFINE R == S \ {Pick(S)}
           g == CHOOSE x : Adds(f, S, x)
           h == CHOOSE x : Adds(f, R, x)
<1>1. IsFiniteSet(R) /\ R \in SUBSET S
  BY FS_Subset
<1>2. Adds(f, S, g)
  BY AdderExists
<1>3. Adds(f, R, h)
  BY <1>1, AdderExists
<1>4. SumFunctionOnSet(f, S) = g[S] /\ SumFunctionOnSet(f, R) = h[R]
  BY SumIsAFold
<1> HIDE DEF g, h
<1>5. g[R] = h[R]
  <2>1. R \subseteq S /\ R \subseteq R
    OBVIOUS
  <2> HIDE DEF R
  <2> QED
    BY <1>1, <1>2, <1>3, <2>1, AddersAgree
<1>6. g[S] = IF S = {} THEN 0 ELSE f[Pick(S)] + g[R]
  BY <1>2 DEF Adds
<1> QED
  BY <1>4, <1>5, <1>6

LEMMA SumType ==
    ASSUME NEW f, NEW S, IsFiniteSet(S), \A x \in S : f[x] \in Int
    PROVE  SumFunctionOnSet(f, S) \in Int
<1> DEFINE good == {T \in SUBSET S : SumFunctionOnSet(f, T) \in Int}
<1>1. {} \in good
  <2>1. SumFunctionOnSet(f, {}) = 0
    BY SumOneByOne, FS_EmptySet
  <2> QED
    BY <2>1
<1>2. ASSUME NEW T \in SUBSET S, T # {}, \A x \in T : T \ {x} \in good PROVE T \in good
  <2>1. Pick(T) \in T /\ IsFiniteSet(T)
    BY <1>2, PickType, FS_Subset
  <2>2. SumFunctionOnSet(f, T) = f[Pick(T)] + SumFunctionOnSet(f, T \ {Pick(T)})
    BY <1>2, <2>1, SumOneByOne
  <2> QED
    BY <1>2, <2>1, <2>2
<1> HIDE DEF good
<1>3. SUBSET S \subseteq good
  BY <1>1, <1>2, AllSubsetsReached
<1> QED
  BY <1>3 DEF good

(* Numbers of one sign have a sum of this sign. *)
LEMMA SumSign ==
    ASSUME NEW f, NEW S, IsFiniteSet(S), \A x \in S : f[x] \in Int
    PROVE  /\ (\A x \in S : f[x] >= 0) => SumFunctionOnSet(f, S) >= 0
           /\ (\A x \in S : f[x] <= 0) => SumFunctionOnSet(f, S) <= 0
<1> DEFINE Sum(T) == SumFunctionOnSet(f, T)
           Signs(T) == /\ (\A x \in T : f[x] >= 0) => Sum(T) >= 0
                       /\ (\A x \in T : f[x] <= 0) => Sum(T) <= 0
           good == {T \in SUBSET S : Signs(T)}
<1>1. {} \in good
  <2>1. Sum({}) = 0
    BY SumOneByOne, FS_EmptySet
  <2> QED
    BY <2>1
<1>2. ASSUME NEW T \in SUBSET S, T # {}, \A x \in T : T \ {x} \in good PROVE T \in good
  <2> DEFINE p == Pick(T)
             R == T \ {p}
  <2>1. p \in T /\ IsFiniteSet(T) /\ IsFiniteSet(R) /\ R \subseteq T /\ f[p] \in Int
    BY <1>2, PickType, FS_Subset
  <2>2. Sum(T) = f[p] + Sum(R) /\ Sum(R) \in Int
    BY <1>2, <2>1, SumOneByOne, SumType
  <2>3. Signs(R)
    BY <1>2, <2>1
  <2> HIDE DEF p, R, Sum
  <2> QED
    BY <2>1, <2>2, <2>3
<1> HIDE DEF good
<1>3. SUBSET S \subseteq good
  BY <1>1, <1>2, AllSubsetsReached
<1> QED
  BY <1>3 DEF good

(* Any element may be taken out first. *)
LEMMA SumAnyOrder ==
    ASSUME NEW f, NEW S, IsFiniteSet(S), \A x \in S : f[x] \in Int
    PROVE  \A x \in S : SumFunctionOnSet(f, S) = f[x] + SumFunctionOnSet(f, S \ {x})
<1> DEFINE Sum(T) == SumFunctionOnSet(f, T)
           good == {T \in SUBSET S : \A x \in T : Sum(T) = f[x] + Sum(T \ {x})}
<1>1. {} \in good
  OBVIOUS
<1>2. ASSUME NEW T \in SUBSET S, T # {}, \A x \in T : T \ {x} \in good PROVE T \in good
  <2> DEFINE p == Pick(T)
  <2>1. p \in T /\ IsFiniteSet(T) /\ Sum(T) = f[p] + Sum(T \ {p})
    BY <1>2, PickType, FS_Subset, SumOneByOne
  <2> HIDE DEF p
  <2>2. ASSUME NEW x \in T, x # p PROVE Sum(T) = f[x] + Sum(T \ {x})
    <3>1. Sum(T \ {p}) = f[x] + Sum((T \ {p}) \ {x})
      BY <1>2, <2>1, <2>2
    <3>2. Sum(T \ {x}) = f[p] + Sum((T \ {x}) \ {p})
      BY <1>2, <2>1, <2>2
    <3>3. (T \ {p}) \ {x} = (T \ {x}) \ {p}
      OBVIOUS
    <3>4. f[x] \in Int /\ f[p] \in Int /\ Sum((T \ {x}) \ {p}) \in Int
      <4>1. IsFiniteSet((T \ {x}) \ {p})
        BY <2>1, FS_Subset
      <4> QED
        BY <2>1, <4>1, SumType
    <3> DEFINE rest == Sum((T \ {x}) \ {p})
    <3>5. Sum(T) = f[p] + (f[x] + rest) /\ Sum(T \ {x}) = f[p] + rest /\ rest \in Int
      BY <2>1, <3>1, <3>2, <3>3, <3>4
    <3> HIDE DEF Sum, rest
    <3> QED
      BY <3>4, <3>5
  <2>3. \A x \in T : Sum(T) = f[x] + Sum(T \ {x})
    BY <2>1, <2>2
  <2> QED
    BY <2>3
<1> HIDE DEF good
<1>3. SUBSET S \subseteq good
  BY <1>1, <1>2, AllSubsetsReached
<1> QED
  BY <1>3 DEF good

(* A sum along a one-to-one correspondence: the same numbers under other names. *)
LEMMA SumRenamed ==
    ASSUME NEW S, IsFiniteSet(S), NEW f, NEW g, NEW h,
           \A x \in S : f[x] \in Int /\ g[h[x]] = f[x],
           \A x, y \in S : h[x] = h[y] => x = y
    PROVE  SumFunctionOnSet(g, {h[x] : x \in S}) = SumFunctionOnSet(f, S)
<1> DEFINE Image(T) == {h[x] : x \in T}
           good == {T \in SUBSET S : IsFiniteSet(Image(T))
                       /\ SumFunctionOnSet(g, Image(T)) = SumFunctionOnSet(f, T)}
<1>1. {} \in good
  <2>1. Image({}) = {}
    OBVIOUS
  <2> QED
    BY <2>1, SumOneByOne, FS_EmptySet
<1>2. ASSUME NEW T \in SUBSET S, T # {}, \A x \in T : T \ {x} \in good PROVE T \in good
  <2> DEFINE p == Pick(T)
  <2>1. p \in T /\ IsFiniteSet(T)
    BY <1>2, PickType, FS_Subset
  <2> HIDE DEF p
  <2>2. /\ IsFiniteSet(Image(T \ {p}))
        /\ SumFunctionOnSet(g, Image(T \ {p})) = SumFunctionOnSet(f, T \ {p})
    BY <1>2, <2>1
  <2>3. Image(T) = Image(T \ {p}) \cup {h[p]} /\ Image(T) \ {h[p]} = Image(T \ {p})
    BY <2>1
  <2>4. IsFiniteSet(Image(T))
    <3>1. IsFiniteSet(Image(T \ {p}) \cup {h[p]})
      BY <2>2, FS_AddElement
    <3> QED
      BY <2>3, <3>1
  <2>5. SumFunctionOnSet(g, Image(T)) = g[h[p]] + SumFunctionOnSet(g, Image(T) \ {h[p]})
    <3>1. \A y \in Image(T) : g[y] \in Int
      OBVIOUS
    <3>2. h[p] \in Image(T)
      BY <2>1
    <3> HIDE DEF Image
    <3> QED
      BY <2>4, <3>1, <3>2, SumAnyOrder
  <2>6. SumFunctionOnSet(f, T) = f[p] + SumFunctionOnSet(f, T \ {p})
    BY <2>1, SumAnyOrder
  <2> QED
    BY <2>1, <2>2, <2>3, <2>4, <2>5, <2>6
<1> HIDE DEF good
<1>3. SUBSET S \subseteq good
  BY <1>1, <1>2, AllSubsetsReached
<1> QED
  BY <1>3 DEF good

(* A sum asks of a function only its values. *)
LEMMA SumSame ==
    ASSUME NEW S, IsFiniteSet(S), NEW f, NEW g, \A x \in S : f[x] = g[x] /\ g[x] \in Int
    PROVE  SumFunctionOnSet(f, S) = SumFunctionOnSet(g, S)
<1> DEFINE h == [x \in S |-> x]
<1>1. {h[x] : x \in S} = S
  OBVIOUS
<1>2. \A x \in S : f[x] \in Int /\ g[h[x]] = f[x]
  OBVIOUS
<1>3. \A x, y \in S : h[x] = h[y] => x = y
  OBVIOUS
<1> HIDE DEF h
<1> QED
  BY <1>1, <1>2, <1>3, SumRenamed

LEMMA SumTogether ==
    ASSUME NEW f, NEW S, NEW T, IsFiniteSet(S), IsFiniteSet(T), S \cap T = {},
           \A x \in S \cup T : f[x] \in Int
    PROVE  SumFunctionOnSet(f, S \cup T) = SumFunctionOnSet(f, S) + SumFunctionOnSet(f, T)
<1> DEFINE Sum(U) == SumFunctionOnSet(f, U)
           good == {U \in SUBSET T : Sum(S \cup U) = Sum(S) + Sum(U)}
<1>1. {} \in good
  <2>1. Sum({}) = 0 /\ Sum(S) \in Int /\ S \cup {} = S
    BY SumOneByOne, SumType, FS_EmptySet
  <2> HIDE DEF Sum
  <2> QED
    BY <2>1
<1>2. ASSUME NEW U \in SUBSET T, U # {}, \A x \in U : U \ {x} \in good PROVE U \in good
  <2> DEFINE p == Pick(U)
  <2>1. p \in U /\ IsFiniteSet(U) /\ IsFiniteSet(S \cup U) /\ IsFiniteSet(U \ {p})
    BY <1>2, PickType, FS_Subset, FS_Union
  <2> HIDE DEF p
  <2>2. Sum(S \cup U) = f[p] + Sum((S \cup U) \ {p})
    BY <2>1, SumAnyOrder
  <2>3. Sum(U) = f[p] + Sum(U \ {p})
    BY <2>1, SumAnyOrder
  <2>4. (S \cup U) \ {p} = S \cup (U \ {p})
    BY <2>1
  <2>5. Sum(S \cup (U \ {p})) = Sum(S) + Sum(U \ {p})
    BY <1>2, <2>1
  <2>6. f[p] \in Int /\ Sum(S) \in Int /\ Sum(U \ {p}) \in Int
    BY <2>1, SumType
  <2>7. Sum(S \cup U) = f[p] + (Sum(S) + Sum(U \ {p}))
    BY <2>2, <2>4, <2>5
  <2> HIDE DEF Sum
  <2>8. Sum(S \cup U) = Sum(S) + Sum(U)
    BY <2>3, <2>6, <2>7
  <2> QED
    BY <2>8
<1> HIDE DEF good
<1>3. SUBSET T \subseteq good
  BY <1>1, <1>2, AllSubsetsReached
<1> QED
  BY <1>3 DEF good
-----------------------------------------------------------------------------
(* From executions to trades (Executions). *)

(* What is buffered and what is in the dedup table are executions that were reported and that
   the adapter takes. *)
Taken == {e \in reported : ~Trading!Rejected(e)}

TradingInv ==
    /\ execEvents \in BOOLEAN /\ reported \subseteq Account
    /\ errors \subseteq {e \in Account : Trading!Rejected(e)}
    /\ buffer \subseteq {Trading!FillOf(e, "commissionReportEvent") : e \in Taken}
    /\ marked \subseteq {e.id : e \in Taken}

LEMMA TradingSteps ==
    ASSUME TradingInv, Trading!Next \/ UNCHANGED tradeVars
    PROVE  TradingInv'
<1>1. ASSUME NEW e \in Account, Trading!ExecDetails(e) PROVE TradingInv'
  <2>1. UNCHANGED <<execEvents, marked, reported, buffer>>
        /\ (UNCHANGED errors \/ (Trading!Rejected(e) /\ errors' = errors \cup {e}))
    BY <1>1 DEF Trading!ExecDetails, Trading!SaysWhyNot
  <2>2. errors' \subseteq {x \in Account : Trading!Rejected(x)}
    BY <2>1 DEF TradingInv
  <2>3. UNCHANGED Taken
    BY <2>1 DEF Taken
  <2> QED
    BY <2>1, <2>2, <2>3 DEF TradingInv
<1>2. ASSUME NEW e \in Account, Trading!CommissionReport(e) PROVE TradingInv'
  <2>1. /\ reported' = reported \cup {e} /\ UNCHANGED <<execEvents, marked>>
        /\ \/ Trading!Rejected(e) /\ errors' = errors \cup {e} /\ UNCHANGED buffer
           \/ /\ ~Trading!Rejected(e) /\ UNCHANGED errors
              /\ buffer' = buffer \cup {Trading!FillOf(e, "commissionReportEvent")}
    BY <1>2 DEF Trading!CommissionReport, Trading!SaysWhyNot
  <2>2. Taken \subseteq Taken' /\ (~Trading!Rejected(e) => e \in Taken')
    BY <2>1 DEF Taken
  <2>3. errors' \subseteq {x \in Account : Trading!Rejected(x)} /\ reported' \subseteq Account
    BY <2>1 DEF TradingInv
  <2>4. marked' \subseteq {x.id : x \in Taken'}
    BY <2>1, <2>2 DEF TradingInv
  <2>5. buffer' \subseteq {Trading!FillOf(x, "commissionReportEvent") : x \in Taken'}
    BY <2>1, <2>2 DEF TradingInv
  <2> QED
    BY <2>1, <2>3, <2>4, <2>5 DEF TradingInv
<1>3. ASSUME NEW order, Trading!Flush(order) PROVE TradingInv'
  <2> DEFINE bucket == {fill \in buffer : fill.orderId = order}
             fresh  == {fill \in bucket : fill.execId \notin marked}
  <2>1. /\ buffer' = buffer \ bucket /\ UNCHANGED <<execEvents, reported, errors>>
        /\ marked' = marked \cup UNION {trade.execIds : trade \in Trading!Trades(fresh)}
    BY <1>3 DEF Trading!Flush
  <2>2. ASSUME NEW group PROVE Trading!TradeOf(group).execIds = {fill.execId : fill \in group}
    BY DEF Trading!TradeOf
  <2>3. ASSUME NEW trade \in Trading!Trades(fresh) PROVE trade.execIds \subseteq {fill.execId : fill \in fresh}
    <3>1. PICK group \in SUBSET fresh : trade = Trading!TradeOf(group)
      BY DEF Trading!Trades
    <3> QED
      BY <3>1, <2>2
  <2>4. \A fill \in buffer : fill.execId \in {e.id : e \in Taken}
    <3>1. ASSUME NEW e PROVE Trading!FillOf(e, "commissionReportEvent").execId = e.id
      BY DEF Trading!FillOf
    <3> QED
      BY <3>1 DEF TradingInv
  <2>5. UNCHANGED Taken
    BY <2>1 DEF Taken
  <2>6. marked' \subseteq {e.id : e \in Taken}
    <3>1. ASSUME NEW trade \in Trading!Trades(fresh), NEW id \in trade.execIds PROVE id \in {e.id : e \in Taken}
      <4>1. PICK fill \in fresh : id = fill.execId
        BY <2>3, <3>1
      <4> QED
        BY <2>4, <4>1
    <3> HIDE DEF fresh
    <3>2. marked \subseteq {e.id : e \in Taken}
      BY DEF TradingInv
    <3> QED
      BY <2>1, <3>1, <3>2
  <2> QED
    BY <2>1, <2>5, <2>6 DEF TradingInv
<1>4. CASE UNCHANGED tradeVars
  BY <1>4 DEF tradeVars, TradingInv, Taken
<1> QED
  BY <1>1, <1>2, <1>3, <1>4 DEF Trading!Next

(* No row of the dedup table and no fill of the buffer without an execution that was reported
   and that _map_fill takes. *)
THEOREM OnlyTakenExecutions == Spec => []TradingInv
<1>1. Init => TradingInv
  BY DEF Init, Trading!Init, TradingInv
<1>2. TradingInv /\ [Next]_vars => TradingInv'
  BY TradingSteps, StepsApart
<1> QED
  BY <1>1, <1>2, PTL DEF Spec

LEMMA TradingTypes == Spec => []Trading!TypeOK
<1>1. TradingInv => Trading!TypeOK
  <2> SUFFICES ASSUME TradingInv PROVE Trading!TypeOK
    OBVIOUS
  <2>1. Taken \subseteq Account \ errors /\ Taken \subseteq reported \ errors
    BY DEF Taken, TradingInv
  <2> QED
    BY <2>1 DEF TradingInv, Trading!TypeOK
<1> QED
  BY <1>1, OnlyTakenExecutions, PTL

-----------------------------------------------------------------------------
(* What a consumer adds up (aggregate_fills). *)

Volume(e) == IF e.side = "buy" THEN e.shares ELSE -e.shares
Filled(e) == Trading!FillOf(e, "commissionReportEvent")

\* A set of executions: their fills, the part of it that is of one symbol, its sum.
Fillings(E) == {Filled(e) : e \in E}
Legs(E, symbol) == {e \in E : Trading!Instrument(e) = symbol}
Bought(E) == SumFunction([e \in E |-> Volume(e)])

\* The same of trades.
OfSymbol(trades, symbol) == {trade \in trades : trade.symbol = symbol}
Told(trades) == SumFunction([trade \in trades |-> trade.volume])

\* The trades a consumer adds up, and the executions of which it has one.
Commissioned(symbol) ==
    {trade \in xSent : trade.source = "commissionReportEvent" /\ trade.symbol = symbol}
Held(symbol) == {e \in Taken : e.id \in marked /\ Trading!Instrument(e) = symbol}

Balanced(symbol) ==
    /\ IsFiniteSet(Commissioned(symbol))
    /\ \A trade \in Commissioned(symbol) : trade.volume \in Int
    /\ Told(Commissioned(symbol)) = Bought(Held(symbol))

(* An execution that was reported waits or is on record.  A trade the consumer has is of
   executions on record, so that no later trade is the same; and what it has of a symbol adds
   up to the executions on record. *)
PositionInv ==
    /\ \A e \in Taken : e.id \in marked \/ Filled(e) \in buffer
    /\ \A trade \in xSent : trade.source = "commissionReportEvent" =>
           trade.execIds # {} /\ trade.execIds \subseteq marked
    /\ \A symbol \in {Trading!Instrument(e) : e \in Account} : Balanced(symbol)

LEMMA FilledFields ==
    ASSUME NEW e \in Account
    PROVE  /\ Filled(e).execId = e.id /\ Filled(e).orderId = e.order
           /\ Filled(e).symbol = Trading!Instrument(e) /\ Filled(e).source = "commissionReportEvent"
           /\ Filled(e).volume = Volume(e) /\ Volume(e) \in Int
           /\ Filled(e).side = e.side /\ Filled(e).time = e.time
BY AccountAssumption
   DEF Filled, Volume, Trading!FillOf, Trading!Signed, Trading!SymbolOf, Trading!Instrument

LEMMA TakenIsNamed ==
    ASSUME reported \subseteq Account, NEW d \in Taken, NEW e \in Taken, d.id = e.id
    PROVE  d = e
BY AccountAssumption DEF Taken, Trading!Rejected

LEMMA TakenIsFinite ==
    ASSUME reported \subseteq Account, NEW E \in SUBSET Taken
    PROVE  IsFiniteSet(E)
BY AccountAssumption, FS_Subset DEF Taken

(* Executions takes SumFunction from the same module as this one. *)
LEMMA TradingSums == ASSUME NEW f PROVE Trading!SumFunction(f) = SumFunction(f)
BY DEF Trading!SumFunction, Trading!SumFunctionOnSet, Trading!FoldFunctionOnSet,
       Trading!MapThenFoldSet, SumFunction, SumFunctionOnSet, FoldFunctionOnSet, MapThenFoldSet

(* Some fill of a group is the last. *)
Last(group) == CHOOSE fill \in group : \A other \in group : other.time <= fill.time

LEMMA LastOfGroup ==
    ASSUME reported \subseteq Account, NEW E \in SUBSET Taken, E # {}
    PROVE  Last(Fillings(E)) \in Fillings(E)
<1> DEFINE Latest(T, e) == e \in T /\ \A d \in T : d.time <= e.time
           good == {T \in SUBSET E : T # {} => \E e \in T : Latest(T, e)}
<1>0. E \subseteq Account /\ IsFiniteSet(E) /\ \A e \in E : e.time \in Nat
  BY TakenIsFinite, AccountAssumption DEF Taken
<1>1. {} \in good
  OBVIOUS
<1>2. ASSUME NEW T \in SUBSET E, T # {}, \A x \in T : T \ {x} \in good PROVE T \in good
  <2>1. PICK x \in T : TRUE
    BY <1>2
  <2>2. CASE T \ {x} = {}
    <3>1. Latest(T, x)
      BY <1>0, <2>2
    <3> QED
      BY <3>1
  <2>3. CASE T \ {x} # {}
    <3>1. PICK e \in T \ {x} : Latest(T \ {x}, e)
      BY <1>2, <2>3
    <3>2. x.time \in Nat /\ \A d \in T : d.time \in Nat
      BY <1>0
    <3>3. Latest(T, e) \/ Latest(T, x)
      BY <3>1, <3>2
    <3> QED
      BY <3>3
  <2> QED
    BY <2>2, <2>3
<1> HIDE DEF good
<1>3. SUBSET E \subseteq good
  BY <1>0, <1>1, <1>2, AllSubsetsReached
<1>4. PICK e \in E : \A d \in E : d.time <= e.time
  BY <1>3 DEF good
<1>5. \A other \in Fillings(E) : other.time <= Filled(e).time
  BY <1>0, <1>4, FilledFields DEF Fillings
<1> QED
  BY <1>4, <1>5 DEF Last, Fillings

(* The trade of a group of fills of one order and symbol.  Its volume is the group's if all of
   it has one side. *)
LEMMA TradeOfGroup ==
    ASSUME reported \subseteq Account, NEW E \in SUBSET Taken, E # {}, NEW symbol,
           \A e \in E : Trading!Instrument(e) = symbol
    PROVE  LET trade == Trading!TradeOf(Fillings(E))
           IN  /\ trade.symbol = symbol /\ trade.source = "commissionReportEvent"
               /\ trade.execIds = {e.id : e \in E}
               /\ (\A d, e \in E : d.side = e.side) =>
                      trade.volume = Bought(E) /\ trade.volume \in Int
<1> DEFINE group == {Filled(e) : e \in E}
           last == Last(group)
           trade == Trading!TradeOf(group)
           vol == [fill \in group |-> fill.volume]
           own == [e \in E |-> Volume(e)]
           name == [e \in E |-> Filled(e)]
<1>0. E \subseteq Account
  BY DEF Taken
<1>1. last \in group
  BY LastOfGroup DEF Fillings
<1>2. trade.symbol = symbol /\ trade.source = "commissionReportEvent"
  <2>1. \A fill \in group : fill.symbol = symbol /\ fill.source = "commissionReportEvent"
    BY <1>0, FilledFields
  <2>2. trade.symbol = last.symbol /\ trade.source = last.source
    BY DEF Trading!TradeOf, Last
  <2> HIDE DEF group, last, trade
  <2> QED
    BY <1>1, <2>1, <2>2
<1>3. trade.execIds = {e.id : e \in E}
  <2>1. trade.execIds = {fill.execId : fill \in group}
    BY DEF Trading!TradeOf
  <2> QED
    BY <1>0, <2>1, FilledFields
<1>4. trade.volume = Trading!Signed(last.side, SumFunctionOnSet(vol, group))
  BY TradingSums DEF Trading!TradeOf, SumFunction, Last
<1>5. IsFiniteSet(E) /\ \A e \in E : own[e] \in Int /\ vol[name[e]] = own[e]
  BY <1>0, TakenIsFinite, FilledFields
<1>6. \A d, e \in E : name[d] = name[e] => d = e
  BY <1>0, FilledFields, TakenIsNamed
<1>7. group = {name[e] : e \in E}
  OBVIOUS
<1>8. PICK f \in E : last.side = f.side
  BY <1>0, <1>1, FilledFields
<1>9. \A e \in E : own[e] = (IF e.side = "buy" THEN e.shares ELSE -e.shares) /\ e.shares \in Nat
  BY <1>0, AccountAssumption DEF Volume
<1> HIDE DEF vol, own, name, group, last
<1>10. SumFunctionOnSet(vol, group) = SumFunctionOnSet(own, E) /\ SumFunctionOnSet(own, E) \in Int
  BY <1>5, <1>6, <1>7, SumRenamed, SumType
<1>11. SumFunction(own) = SumFunctionOnSet(own, E)
  BY DEF SumFunction, own
<1>12. ASSUME \A d, e \in E : d.side = e.side
       PROVE  trade.volume = SumFunctionOnSet(own, E)
  <2>1. CASE f.side = "buy"
    <3>1. \A e \in E : own[e] >= 0
      BY <1>8, <1>9, <1>12, <2>1
    <3>2. SumFunctionOnSet(own, E) >= 0
      BY <1>5, <3>1, SumSign
    <3> QED
      BY <1>4, <1>8, <1>10, <2>1, <3>2 DEF Trading!Signed
  <2>2. CASE f.side # "buy"
    <3>1. \A e \in E : own[e] <= 0
      BY <1>8, <1>9, <1>12, <2>2
    <3>2. SumFunctionOnSet(own, E) <= 0
      BY <1>5, <3>1, SumSign
    <3> QED
      BY <1>4, <1>8, <1>10, <2>2, <3>2 DEF Trading!Signed
  <2> QED
    BY <2>1, <2>2
<1> QED
  BY <1>2, <1>3, <1>10, <1>11, <1>12 DEF own, group, Fillings, Bought

(* A step that leaves the trades of a symbol and its executions on record as they are. *)
LEMMA BalanceKept ==
    ASSUME NEW symbol, Balanced(symbol), Commissioned(symbol)' = Commissioned(symbol),
           Held(symbol)' = Held(symbol)
    PROVE  Balanced(symbol)'
BY DEF Balanced, Told, Bought, Volume

LEMMA ReportsKeepPosition ==
    ASSUME TradingInv, PositionInv, NEW e \in Account,
           Trading!ExecDetails(e) \/ Trading!CommissionReport(e)
    PROVE  PositionInv'
<1>1. CASE Trading!ExecDetails(e)
  <2> DEFINE early == Trading!FillOf(e, "execDetailsEvent")
  <2>1. UNCHANGED <<marked, reported, buffer>>
        /\ (xSent' = xSent \/ xSent' = xSent \cup Trading!Trades({early}))
    BY <1>1 DEF Trading!ExecDetails, Trading!SaysWhyNot
  <2>2. ASSUME NEW trade \in Trading!Trades({early}) PROVE trade.source = "execDetailsEvent"
    <3>1. early.source = "execDetailsEvent"
      BY DEF Trading!FillOf
    <3> HIDE DEF early
    <3>2. PICK group \in SUBSET {early} : group # {} /\ trade = Trading!TradeOf(group)
      BY DEF Trading!Trades
    <3>3. Last(group) = early
      <4>1. group = {early}
        BY <3>2
      <4>2. early.time \in Nat
        BY AccountAssumption DEF early, Trading!FillOf
      <4>3. early.time <= early.time
        BY <4>2
      <4> QED
        BY <4>1, <4>3 DEF Last
    <3> QED
      BY <3>1, <3>2, <3>3 DEF Trading!TradeOf, Last
  <2>3. \A trade \in xSent' : trade.source = "commissionReportEvent" => trade \in xSent
    BY <2>1, <2>2
  <2>4. UNCHANGED Taken /\ xSent \subseteq xSent'
    BY <2>1 DEF Taken
  <2>5. ASSUME NEW symbol PROVE UNCHANGED <<Commissioned(symbol), Held(symbol)>>
    BY <2>1, <2>3, <2>4 DEF Commissioned, Held
  <2> QED
    BY <2>1, <2>3, <2>4, <2>5, BalanceKept DEF PositionInv, Filled
<1>2. CASE Trading!CommissionReport(e)
  <2>1. /\ reported' = reported \cup {e} /\ UNCHANGED <<marked, xSent>>
        /\ \/ Trading!Rejected(e) /\ UNCHANGED buffer
           \/ ~Trading!Rejected(e) /\ buffer' = buffer \cup {Filled(e)}
    BY <1>2 DEF Trading!CommissionReport, Trading!SaysWhyNot, Filled
  <2>2. Taken \subseteq Taken' /\ Taken' \subseteq Taken \cup {e}
        /\ (e \in Taken' => ~Trading!Rejected(e)) /\ reported' \subseteq Account
    BY <2>1 DEF Taken, TradingInv
  <2>3. \A d \in Taken' : d.id \in marked' \/ Filled(d) \in buffer'
    BY <2>1, <2>2 DEF PositionInv
  <2>4. ASSUME e \in Taken', e.id \in marked PROVE e \in Taken
    <3>1. PICK d \in Taken : d.id = e.id
      BY <2>4 DEF TradingInv
    <3>2. d \in Account /\ "execId" \notin d.defects /\ "execId" \notin e.defects
      BY <2>2, <2>4 DEF Taken, TradingInv, Trading!Rejected
    <3> QED
      BY <3>1, <3>2, AccountAssumption
  <2>5. ASSUME NEW symbol PROVE UNCHANGED <<Commissioned(symbol), Held(symbol)>>
    BY <2>1, <2>2, <2>4 DEF Commissioned, Held
  <2> QED
    BY <2>1, <2>3, <2>5, BalanceKept DEF PositionInv
<1> QED
  BY <1>1, <1>2

(* What a flush sends of a symbol: nothing, or the trade of the executions that waited. *)
LEMMA FlushedTrades ==
    ASSUME reported \subseteq Account, NEW order, NEW symbol, NEW E \in SUBSET Taken,
           \A e \in E : e.order = order
    PROVE  OfSymbol(Trading!Trades(Fillings(E)), symbol) =
               IF Legs(E, symbol) = {} THEN {} ELSE {Trading!TradeOf(Fillings(Legs(E, symbol)))}
<1> DEFINE fresh == Fillings(E)
           ofKey(k) == {fill \in fresh : Trading!GroupKey(fill) = k}
           of(s) == Legs(E, s)
<1>0. E \subseteq Account
  BY DEF Taken
<1>1. ASSUME NEW e \in E PROVE Trading!GroupKey(Filled(e)) = <<order, Trading!Instrument(e)>>
  BY <1>0, FilledFields DEF Trading!GroupKey
<1>2. ASSUME NEW s PROVE ofKey(<<order, s>>) = Fillings(of(s))
  BY <1>1 DEF Fillings, Legs
<1>3. ASSUME NEW trade \in Trading!Trades(fresh)
      PROVE  \E s : /\ of(s) # {} /\ trade = Trading!TradeOf(Fillings(of(s)))
                    /\ trade.symbol = s
  <2>1. PICK k \in {Trading!GroupKey(fill) : fill \in fresh} : trade = Trading!TradeOf(ofKey(k))
    BY DEF Trading!Trades
  <2>2. PICK e \in E : k = <<order, Trading!Instrument(e)>>
    BY <1>1, <2>1 DEF Fillings
  <2> DEFINE s == Trading!Instrument(e)
  <2>3. of(s) # {} /\ of(s) \in SUBSET Taken /\ \A x \in of(s) : Trading!Instrument(x) = s
    BY DEF Legs
  <2>4. ofKey(k) = Fillings(of(s))
    BY <1>2, <2>2
  <2> HIDE DEF ofKey, of, s
  <2>5. Trading!TradeOf(Fillings(of(s))).symbol = s
    BY <2>3, TradeOfGroup
  <2> QED
    BY <2>1, <2>3, <2>4, <2>5
<1>4. ASSUME NEW e \in E
      PROVE  Trading!TradeOf(Fillings(of(Trading!Instrument(e)))) \in Trading!Trades(fresh)
  <2> DEFINE k == Trading!GroupKey(Filled(e))
  <2>1. k \in {Trading!GroupKey(fill) : fill \in fresh}
    BY DEF Fillings
  <2>2. Trading!TradeOf(ofKey(k)) \in Trading!Trades(fresh)
    BY <2>1 DEF Trading!Trades
  <2>3. ofKey(k) = Fillings(of(Trading!Instrument(e)))
    BY <1>1, <1>2
  <2> QED
    BY <2>2, <2>3
<1>5. ASSUME of(symbol) # {}
      PROVE  /\ Trading!TradeOf(Fillings(of(symbol))) \in Trading!Trades(fresh)
             /\ Trading!TradeOf(Fillings(of(symbol))).symbol = symbol
  <2>1. PICK e \in E : Trading!Instrument(e) = symbol
    BY <1>5 DEF Legs
  <2>2. of(symbol) \in SUBSET Taken /\ \A x \in of(symbol) : Trading!Instrument(x) = symbol
    BY DEF Legs
  <2>3. Trading!TradeOf(Fillings(of(symbol))).symbol = symbol
    BY <1>5, <2>2, TradeOfGroup
  <2> QED
    BY <1>4, <2>1, <2>3
<1> HIDE DEF fresh, of
<1>6. {trade \in Trading!Trades(fresh) : trade.symbol = symbol} =
      IF of(symbol) = {} THEN {} ELSE {Trading!TradeOf(Fillings(of(symbol)))}
  BY <1>3, <1>5
<1> QED
  BY <1>6 DEF fresh, of, OfSymbol

(* A trade joins those a consumer has, its executions join those on record. *)
LEMMA TradeBalances ==
    ASSUME NEW C, IsFiniteSet(C), NEW t, t \notin C, \A trade \in C \cup {t} : trade.volume \in Int,
           NEW H, NEW F, IsFiniteSet(H), IsFiniteSet(F), H \cap F = {}, H \cup F \subseteq Account,
           Told(C) = Bought(H), t.volume = Bought(F)
    PROVE  Told(C \cup {t}) = Bought(H \cup F)
<1> DEFINE before == [trade \in C |-> trade.volume]
           after  == [trade \in C \cup {t} |-> trade.volume]
           held   == [e \in H |-> Volume(e)]
           new    == [e \in F |-> Volume(e)]
           all    == [e \in H \cup F |-> Volume(e)]
<1>1. \A e \in H \cup F : Volume(e) \in Int
  BY FilledFields
<1>2. SumFunctionOnSet(after, C \cup {t}) = t.volume + SumFunctionOnSet(after, C)
  <2>1. IsFiniteSet(C \cup {t}) /\ t \in C \cup {t} /\ (C \cup {t}) \ {t} = C
    BY FS_AddElement
  <2>2. \A trade \in C \cup {t} : after[trade] \in Int
    OBVIOUS
  <2>3. after[t] = t.volume
    OBVIOUS
  <2> HIDE DEF after
  <2> QED
    BY <2>1, <2>2, <2>3, SumAnyOrder
<1>3. SumFunctionOnSet(after, C) = SumFunctionOnSet(before, C)
  <2>1. \A trade \in C : after[trade] = before[trade] /\ before[trade] \in Int
    OBVIOUS
  <2> HIDE DEF after, before
  <2> QED
    BY <2>1, SumSame
<1>4. SumFunctionOnSet(all, H \cup F) = SumFunctionOnSet(all, H) + SumFunctionOnSet(all, F)
  <2>1. \A e \in H \cup F : all[e] \in Int
    BY <1>1
  <2> HIDE DEF all
  <2> QED
    BY <2>1, SumTogether
<1>5. SumFunctionOnSet(all, H) = SumFunctionOnSet(held, H)
      /\ SumFunctionOnSet(all, F) = SumFunctionOnSet(new, F)
  <2>1. /\ \A e \in H : all[e] = held[e] /\ held[e] \in Int
        /\ \A e \in F : all[e] = new[e] /\ new[e] \in Int
    BY <1>1
  <2> HIDE DEF all, held, new
  <2> QED
    BY <2>1, SumSame
<1>6. SumFunctionOnSet(held, H) \in Int /\ SumFunctionOnSet(new, F) \in Int
  <2>1. (\A e \in H : held[e] \in Int) /\ (\A e \in F : new[e] \in Int)
    BY <1>1
  <2> HIDE DEF held, new
  <2> QED
    BY <2>1, SumType
<1>7. /\ SumFunction(before) = SumFunctionOnSet(before, C)
      /\ SumFunction(after) = SumFunctionOnSet(after, C \cup {t})
      /\ SumFunction(held) = SumFunctionOnSet(held, H)
      /\ SumFunction(new) = SumFunctionOnSet(new, F)
      /\ SumFunction(all) = SumFunctionOnSet(all, H \cup F)
  BY DEF SumFunction
<1>8. SumFunction(before) = SumFunction(held) /\ t.volume = SumFunction(new)
  BY DEF Told, Bought
<1> HIDE DEF before, after, held, new, all
<1>9. SumFunction(after) = SumFunction(all)
  BY <1>2, <1>3, <1>4, <1>5, <1>6, <1>7, <1>8
<1> QED
  BY <1>9 DEF after, all, Told, Bought

LEMMA TradesRecord ==
    ASSUME NEW fresh
    PROVE  /\ UNION {trade.execIds : trade \in Trading!Trades(fresh)} = {fill.execId : fill \in fresh}
           /\ \A trade \in Trading!Trades(fresh) : trade.execIds # {}
<1> DEFINE ofKey(k) == {fill \in fresh : Trading!GroupKey(fill) = k}
<1>1. \A group : Trading!TradeOf(group).execIds = {fill.execId : fill \in group}
  BY DEF Trading!TradeOf
<1>2. Trading!Trades(fresh) = {Trading!TradeOf(ofKey(k)) : k \in {Trading!GroupKey(fill) : fill \in fresh}}
  BY DEF Trading!Trades
<1>3. ASSUME NEW fill \in fresh
      PROVE  \E trade \in Trading!Trades(fresh) : fill.execId \in trade.execIds
  <2>1. fill \in ofKey(Trading!GroupKey(fill))
    OBVIOUS
  <2>2. Trading!TradeOf(ofKey(Trading!GroupKey(fill))) \in Trading!Trades(fresh)
    BY <1>2
  <2>3. fill.execId \in Trading!TradeOf(ofKey(Trading!GroupKey(fill))).execIds
    BY <1>1, <2>1
  <2> QED
    BY <2>2, <2>3
<1>4. ASSUME NEW trade \in Trading!Trades(fresh)
      PROVE  trade.execIds # {} /\ trade.execIds \subseteq {fill.execId : fill \in fresh}
  <2>1. PICK k \in {Trading!GroupKey(fill) : fill \in fresh} : trade = Trading!TradeOf(ofKey(k))
    BY <1>2
  <2>2. trade.execIds = {fill.execId : fill \in ofKey(k)}
    BY <1>1, <2>1
  <2> QED
    BY <2>2
<1> QED
  BY <1>3, <1>4

LEMMA FlushKeepsPosition ==
    ASSUME Trading!OneSided, TradingInv, PositionInv, NEW order, Trading!Flush(order)
    PROVE  PositionInv'
<1> DEFINE E == {e \in Taken : e.order = order /\ e.id \notin marked /\ Filled(e) \in buffer}
           bucket == {fill \in buffer : fill.orderId = order}
           fresh  == {fill \in bucket : fill.execId \notin marked}
<1>0. reported \subseteq Account /\ Taken \subseteq Account
  BY DEF TradingInv, Taken
<1>1. /\ buffer' = buffer \ bucket /\ reported' = reported
      /\ marked' = marked \cup UNION {trade.execIds : trade \in Trading!Trades(fresh)}
      /\ xSent' = xSent \cup Trading!Trades(fresh)
  BY DEF Trading!Flush
<1>2. fresh = Fillings(E)
  <2>1. \A fill \in buffer : \E e \in Taken : fill = Filled(e)
    BY DEF TradingInv, Filled
  <2>2. \A e \in Taken : Filled(e).orderId = e.order /\ Filled(e).execId = e.id
    BY <1>0, FilledFields
  <2> QED
    BY <2>1, <2>2 DEF Fillings
<1> HIDE DEF fresh
<1>3. UNION {trade.execIds : trade \in Trading!Trades(fresh)} = {e.id : e \in E}
  <2>1. {fill.execId : fill \in fresh} = {e.id : e \in E}
    BY <1>0, <1>2, FilledFields DEF Fillings
  <2> QED
    BY <2>1, TradesRecord
<1>4. marked' = marked \cup {e.id : e \in E} /\ Taken' = Taken
  BY <1>1, <1>3 DEF Taken
<1>5. \A e \in Taken' : e.id \in marked' \/ Filled(e) \in buffer'
  <2> SUFFICES ASSUME NEW e \in Taken, e.id \notin marked'
               PROVE  Filled(e) \in buffer'
    BY <1>4
  <2>1. Filled(e) \in buffer /\ e \notin E /\ e.id \notin marked
    BY <1>4 DEF PositionInv
  <2>2. Filled(e).orderId = e.order
    BY <1>0, FilledFields
  <2> QED
    BY <1>1, <2>1, <2>2
<1>6. \A trade \in xSent' : trade.source = "commissionReportEvent" =>
          trade.execIds # {} /\ trade.execIds \subseteq marked'
  <2>1. \A trade \in Trading!Trades(fresh) : trade.execIds # {} /\ trade.execIds \subseteq marked'
    BY <1>1, TradesRecord
  <2> QED
    BY <1>1, <2>1 DEF PositionInv
<1>7. ASSUME NEW symbol \in {Trading!Instrument(e) : e \in Account} PROVE Balanced(symbol)'
  <2> DEFINE F == Legs(E, symbol)
             t == Trading!TradeOf(Fillings(F))
  <2>1. Balanced(symbol)
    BY DEF PositionInv
  <2>2. OfSymbol(Trading!Trades(fresh), symbol) = IF F = {} THEN {} ELSE {t}
    <3>1. E \in SUBSET Taken /\ \A e \in E : e.order = order
      OBVIOUS
    <3> HIDE DEF E
    <3> QED
      BY <1>0, <1>2, <3>1, FlushedTrades
  <2>3. Held(symbol)' = Held(symbol) \cup F /\ Held(symbol) \cap F = {}
    <3>1. \A d \in Taken : d.id \in {e.id : e \in E} => d \in E
      BY <1>0, TakenIsNamed
    <3> QED
      BY <1>4, <3>1 DEF Held, Legs
  <2> HIDE DEF E
  <2>4. CASE F = {}
    <3>1. Commissioned(symbol)' = Commissioned(symbol)
      BY <1>1, <2>2, <2>4 DEF Commissioned, OfSymbol
    <3> QED
      BY <2>1, <2>3, <2>4, <3>1, BalanceKept
  <2>5. CASE F # {}
    <3>1. /\ t.symbol = symbol /\ t.source = "commissionReportEvent" /\ t.volume \in Int
          /\ t.execIds = {e.id : e \in F} /\ t.volume = Bought(F)
      <4>1. F \in SUBSET Taken /\ \A e \in F : Trading!Instrument(e) = symbol /\ e.order = order
        BY DEF E, Legs
      <4>2. \A d, e \in F : d.side = e.side
        BY <1>0, <4>1 DEF Taken, Trading!OneSided, Trading!SymbolOf, Trading!Instrument
      <4> HIDE DEF F
      <4> QED
        BY <1>0, <2>5, <4>1, <4>2, TradeOfGroup
    <3> HIDE DEF t
    <3>2. Commissioned(symbol)' = Commissioned(symbol) \cup {t}
      BY <1>1, <2>2, <2>5, <3>1 DEF Commissioned, OfSymbol
    <3>3. t \notin Commissioned(symbol)
      <4>1. \A trade \in Commissioned(symbol) : trade.execIds \subseteq marked
        BY DEF Commissioned, PositionInv
      <4>2. PICK e \in F : TRUE
        BY <2>5
      <4>3. e.id \in t.execIds /\ e.id \notin marked
        BY <3>1, <4>2 DEF E, Legs
      <4> QED
        BY <4>1, <4>3
    <3>4. IsFiniteSet(Held(symbol)) /\ IsFiniteSet(F) /\ Held(symbol) \cup F \subseteq Account
      <4>1. Held(symbol) \in SUBSET Taken /\ F \in SUBSET Taken
        BY DEF Held, E, Legs
      <4> QED
        BY <1>0, <4>1, TakenIsFinite
    <3> HIDE DEF F
    <3>5. IsFiniteSet(Commissioned(symbol) \cup {t})
          /\ \A trade \in Commissioned(symbol) \cup {t} : trade.volume \in Int
      BY <2>1, <3>1, FS_AddElement DEF Balanced
    <3>6. Told(Commissioned(symbol) \cup {t}) = Bought(Held(symbol) \cup F)
      BY <2>1, <2>3, <3>1, <3>3, <3>4, <3>5, TradeBalances DEF Balanced
    <3> QED
      BY <2>3, <3>2, <3>5, <3>6 DEF Balanced, Told, Bought, Volume
  <2> QED
    BY <2>4, <2>5
<1> QED
  BY <1>5, <1>6, <1>7 DEF PositionInv, Filled

LEMMA PositionStep ==
    Trading!OneSided /\ TradingInv /\ PositionInv /\ (Trading!Next \/ UNCHANGED tradeVars) => PositionInv'
<1> SUFFICES ASSUME TradingInv, PositionInv, UNCHANGED tradeVars PROVE PositionInv'
  BY ReportsKeepPosition, FlushKeepsPosition DEF Trading!Next
<1>1. UNCHANGED <<buffer, marked, reported, xSent>>
  BY DEF tradeVars
<1>2. UNCHANGED Taken
  BY <1>1 DEF Taken
<1>3. ASSUME NEW symbol PROVE UNCHANGED <<Commissioned(symbol), Held(symbol)>>
  BY <1>1, <1>2 DEF Commissioned, Held
<1> QED
  BY <1>1, <1>2, <1>3, BalanceKept DEF PositionInv, Filled

(* Every execution that was reported waits or is on record, no trade is told twice, and what
   was told of a symbol is the sum of what is on record, when no order both buys and sells a
   symbol (_map_fill, aggregate_fills, Trade). *)
THEOREM TradesAddUp == Trading!OneSided => (Spec => []PositionInv)
<1> SUFFICES ASSUME Trading!OneSided PROVE Spec => []PositionInv
  OBVIOUS
<1>1. Init => PositionInv
  <2> SUFFICES ASSUME Init PROVE PositionInv
    OBVIOUS
  <2>1. xSent = {} /\ marked = {} /\ reported = {}
    BY DEF Init, Trading!Init
  <2>2. Taken = {}
    BY <2>1 DEF Taken
  <2>3. ASSUME NEW symbol PROVE Balanced(symbol)
    <3>1. Commissioned(symbol) = {} /\ Held(symbol) = {}
      BY <2>1, <2>2 DEF Commissioned, Held
    <3>2. [trade \in {} |-> trade.volume] = [e \in {} |-> Volume(e)]
      OBVIOUS
    <3> QED
      BY <3>1, <3>2, FS_EmptySet DEF Balanced, Told, Bought
  <2> QED
    BY <2>1, <2>2, <2>3 DEF PositionInv
<1>2. TradingInv /\ PositionInv /\ [Next]_vars => PositionInv'
  BY PositionStep, StepsApart
<1> QED
  BY <1>1, <1>2, OnlyTakenExecutions, PTL DEF Spec

(* "Consumers can fold a stream of trades into a position with a plain SUM" (Fill): whatever
   the reports come in, first or second, early or late, combos and their legs, and however the
   quiet windows fall, for every account in which no order both buys and sells a symbol. *)
THEOREM ConsumersHoldThePosition == Trading!OneSided => (Spec => []ConsumerHoldsThePosition)
<1>1. TradingInv /\ PositionInv => ConsumerHoldsThePosition
  <2> SUFFICES ASSUME TradingInv, PositionInv, NEW symbol \in {Trading!Instrument(e) : e \in Account}
               PROVE  LET trades == {trade \in xSent : /\ trade.source = "commissionReportEvent"
                                                       /\ trade.symbol = symbol}
                          executions == {e \in reported \ Trading!Waiting :
                                            /\ Trading!Instrument(e) = symbol /\ e.secType # "BAG"
                                            /\ e.defects = {}}
                      IN  SumFunction([trade \in trades |-> trade.volume]) =
                          SumFunction([e \in executions |->
                                          IF e.side = "buy" THEN e.shares ELSE -e.shares])
    BY TradingSums DEF ConsumerHoldsThePosition, Trading!ConsumerHoldsThePosition
  <2>1. {e \in reported \ Trading!Waiting : /\ Trading!Instrument(e) = symbol /\ e.secType # "BAG"
                                            /\ e.defects = {}} = Held(symbol)
    <3>1. \A e \in reported : e.secType # "BAG" /\ e.defects = {} <=> ~Trading!Rejected(e)
      BY AccountAssumption DEF Trading!Rejected, TradingInv
    <3>2. \A e \in Taken : e.id \in marked <=> e \notin Trading!Waiting
      <4>1. \A e \in Taken : e \in Account /\ e \in reported /\ Filled(e).execId = e.id
        BY FilledFields DEF Taken, TradingInv
      <4> QED
        BY <4>1 DEF PositionInv, Trading!Waiting
    <3> QED
      BY <3>1, <3>2 DEF Held, Taken
  <2> QED
    BY <2>1 DEF PositionInv, Balanced, Told, Bought, Commissioned, Volume
<1> QED
  BY <1>1, OnlyTakenExecutions, TradesAddUp, PTL
==============================================================================
