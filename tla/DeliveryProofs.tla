---------------------------- MODULE DeliveryProofs ----------------------------
(***************************************************************************)
(* Theorems about the in-flight registry and the dedup table as listener   *)
(* sends and poll cycles use them, for any number of threads, fills,       *)
(* orders and restarts, and for every way the two feeds may identify       *)
(* executions.                                                             *)
(***************************************************************************)
EXTENDS Delivery, FiniteSetTheorems, WellFoundedInduction, TLAPS

USE IdentityAssumption, ThreadsAssumption

-----------------------------------------------------------------------------
(* The times of a poll cycle. *)

(* A set of natural numbers has a least element.  The well-founded order of the naturals
   stands for induction: a counterexample of least size is refuted. *)
LEMMA LeastOf ==
    ASSUME NEW S \in SUBSET Nat, S # {}
    PROVE  \E x \in S : \A y \in S : x <= y
<1> DEFINE R == OpToRel(<, Nat)
<1>1. IsWellFoundedOn(R, Nat)
  BY NatLessThanWellFounded
<1>2. \A x, y \in Nat : x < y => <<x, y>> \in R
  BY DEF OpToRel
<1> HIDE DEF R
<1>3. PICK x \in S : \A y \in S : ~ (<<y, x>> \in R)
  BY <1>1, WFMin
<1>4. ASSUME NEW y \in S PROVE x <= y
  <2>1. x \in Nat /\ y \in Nat /\ ~(y < x)
    BY <1>2, <1>3
  <2> QED
    BY <2>1
<1> QED
  BY <1>4

LEMMA MinIsLeast ==
    ASSUME NEW S \in SUBSET Nat, S # {}
    PROVE  Min(S) \in S /\ \A y \in S : Min(S) <= y
BY LeastOf DEF Min

(* A finite one has a greatest: a least set without one would lose an element and have
   one. *)
LEMMA MaxIsGreatest ==
    ASSUME NEW S \in SUBSET Nat, S # {}, IsFiniteSet(S)
    PROVE  Max(S) \in S /\ \A y \in S : Max(S) >= y
<1> DEFINE Bounded(T) == \E x \in T : \A y \in T : x >= y
           bad == {Cardinality(T) : T \in {T \in SUBSET S : T # {} /\ ~Bounded(T)}}
<1> SUFFICES ASSUME ~Bounded(S) PROVE FALSE
  BY DEF Max
<1>1. bad \subseteq Nat
  BY FS_Subset, FS_CardinalityType
<1>2. bad # {}
  OBVIOUS
<1>3. PICK n \in bad : \A m \in bad : n <= m
  BY <1>1, <1>2, LeastOf
<1>4. PICK T \in SUBSET S : T # {} /\ ~Bounded(T) /\ n = Cardinality(T)
  BY <1>3
<1>5. PICK x \in T : TRUE
  BY <1>4
<1>6. Cardinality(T \ {x}) = n - 1 /\ n \in Nat
  BY <1>4, <1>5, FS_Subset, FS_RemoveElement, FS_CardinalityType
<1>7. CASE T \ {x} = {}
  BY <1>4, <1>5, <1>7
<1>8. CASE T \ {x} # {}
  <2>1. Bounded(T \ {x})
    <3>1. ASSUME ~Bounded(T \ {x}) PROVE FALSE
      <4>1. Cardinality(T \ {x}) \in bad
        BY <1>8, <3>1
      <4> HIDE DEF bad
      <4>2. n <= Cardinality(T \ {x})
        BY <1>3, <4>1
      <4> QED
        BY <1>6, <4>2
    <3> QED
      BY <3>1
  <2>2. PICK z \in T \ {x} : \A y \in T \ {x} : z >= y
    BY <2>1
  <2>3. x \in Nat /\ z \in Nat
    BY <1>4, <1>5
  <2>4. \A y \in T : y \in Nat /\ (y = x \/ z >= y)
    BY <2>2
  <2>5. IF x >= z THEN \A y \in T : x >= y ELSE \A y \in T : z >= y
    BY <2>3, <2>4
  <2> QED
    BY <1>4, <1>5, <2>2, <2>5
<1> QED
  BY <1>7, <1>8

LEMMA TimesType ==
    ASSUME NEW S \in SUBSET Trades
    PROVE  Times(S) \in SUBSET Nat /\ IsFiniteSet(Times(S)) /\ (S # {} => Times(S) # {})
<1>1. IsFiniteSet(S)
  BY FS_Subset
<1>2. [r \in S |-> TradeTime[r]] \in Surjection(S, Times(S))
  BY DEF Times, Surjection
<1>3. IsFiniteSet(Times(S))
  BY <1>1, <1>2, FS_Surjection
<1> QED
  BY <1>3 DEF Times

(* The new watermark is the time of a trade that was sent or deferred; it passes no
   deferred trade, and no trade later than all that were sent. *)
LEMMA NewWatermarkIsBounded ==
    ASSUME fresh \in SUBSET Trades, deferred \in SUBSET Trades, fresh # {}
    PROVE  /\ NewWatermark \in Nat
           /\ \A r \in deferred : NewWatermark <= TradeTime[r]
           /\ \E r \in fresh : NewWatermark <= TradeTime[r]
           /\ \E r \in fresh \cup deferred : NewWatermark = TradeTime[r]
<1> DEFINE S == {Max(Times(fresh))} \cup Times(deferred)
<1>1. Max(Times(fresh)) \in Times(fresh) /\ Times(fresh) \in SUBSET Nat
  BY TimesType, MaxIsGreatest
<1>2. S \in SUBSET Nat /\ S # {}
  BY <1>1, TimesType
<1>3. Min(S) \in S /\ \A y \in S : Min(S) <= y
  BY <1>2, MinIsLeast
<1>4. \A r \in deferred : TradeTime[r] \in S
  BY DEF Times
<1>5. PICK r \in fresh : TradeTime[r] = Max(Times(fresh))
  BY <1>1 DEF Times
<1>6. \E q \in fresh \cup deferred : Min(S) = TradeTime[q]
  BY <1>3, <1>5 DEF Times
<1> QED
  BY <1>2, <1>3, <1>4, <1>5, <1>6 DEF NewWatermark

-----------------------------------------------------------------------------
(* Type correctness.  A cycle under way has something to send, or the watermark of an
   empty set would be taken. *)
CycleShape ==
    /\ ppc = "idle" <=> fresh = {}
    /\ ppc \notin {"notify", "mark", "watermark"} => deferred = {}

TypeInv == TypeOK /\ CycleShape

(* A table that takes new rows remains one. *)
LEMMA MarkedType ==
    ASSUME TypeOK, NEW ids, NEW order, \A id \in Ids \cap ids : order[id] \in Orders \cup {NoOrder}
    PROVE  Marked(ids, order) \in [Ids -> Rows]
BY DEF TypeOK, Marked, Rows

(* Writing ids of fills with their orders. *)
LEMMA ListenerStepType ==
    ASSUME TypeInv, NEW t \in Threads, ListenerStep(t)
    PROVE  TypeInv'
<1> USE DEF TypeInv
<1>1. CASE Register(t)
  <2>1. inflight' \in [Orders -> Nat]
    BY <1>1 DEF TypeOK, Register, Registered
  <2> QED
    BY <1>1, <2>1 DEF TypeOK, CycleShape, Register, store, poller
<1>2. CASE NotifySucceeds(t) \/ NotifyFails(t)
  <2>1. delivered' \in SUBSET Fills
    BY <1>2 DEF TypeOK, NotifySucceeds, NotifyFails, Receives, Misses
  <2> QED
    BY <1>2, <2>1 DEF TypeOK, CycleShape, NotifySucceeds, NotifyFails, store, poller
<1>3. CASE Mark(t)
  <2> DEFINE ids == UNION {KeysOf(f) : f \in batch[t]}
             order == [id \in ids |-> WsOrder[CHOOSE f \in batch[t] : id \in KeysOf(f)]]
  <2>1. ASSUME NEW id \in Ids \cap ids PROVE order[id] \in Orders
    <3>1. (CHOOSE f \in batch[t] : id \in KeysOf(f)) \in batch[t]
      OBVIOUS
    <3> QED
      BY <3>1 DEF TypeOK
  <2>2. row' = Marked(ids, order)
    BY <1>3 DEF Mark
  <2> HIDE DEF ids, order
  <2>3. row' \in [Ids -> Rows]
    BY <2>1, <2>2, MarkedType
  <2> QED
    BY <1>3, <2>3 DEF TypeOK, CycleShape, Mark, poller
<1>4. CASE Release(t)
  <2>1. inflight' \in [Orders -> Nat]
    BY <1>4 DEF TypeOK, Release, Released
  <2> QED
    BY <1>4, <2>1 DEF TypeOK, CycleShape, Release, store, poller
<1> QED
  BY <1>1, <1>2, <1>3, <1>4 DEF ListenerStep

LEMMA PollStepType == ASSUME TypeInv, PollStep PROVE TypeInv'
<1> USE DEF TypeInv
<1>1. CASE Fetch
  BY <1>1 DEF TypeOK, CycleShape, Fetch, Candidates, store, listener
<1>2. CASE ExecDedup
  <2>1. fresh' \in SUBSET Trades /\ (ppc' = "idle" <=> fresh' = {})
        /\ ppc' \in {"idle", "order_dedup"}
    BY <1>2 DEF TypeOK, ExecDedup, GoOn
  <2>2. seen' \in [Threads \cup {Poller} -> SUBSET Fills]
    BY <1>2 DEF TypeOK, ExecDedup
  <2> QED
    BY <1>2, <2>1, <2>2 DEF TypeOK, CycleShape, ExecDedup, store, listener
<1>3. CASE OrderDedup
  <2>1. fresh' \in SUBSET Trades /\ (ppc' = "idle" <=> fresh' = {})
        /\ ppc' \in {"idle", "defer"}
    BY <1>3 DEF TypeOK, OrderDedup, GoOn
  <2> QED
    BY <1>3, <2>1 DEF TypeOK, CycleShape, OrderDedup, store, listener
<1>4. CASE Defer
  <2> DEFINE held == {r \in fresh : inflight[RestOrder[r]] > 0}
  <2>1. fresh' = fresh \ held /\ ppc' = (IF fresh \ held = {} THEN "idle" ELSE "notify")
        /\ deferred' = (IF fresh = held THEN {} ELSE held)
        /\ held \subseteq fresh
    BY <1>4 DEF Defer, GoOn
  <2> HIDE DEF held
  <2>2. fresh' \in SUBSET Trades /\ deferred' \in SUBSET Trades /\ ppc' \in {"idle", "notify"}
    BY <2>1 DEF TypeOK
  <2>3. CASE fresh = held
    BY <1>4, <2>1, <2>2, <2>3 DEF TypeOK, CycleShape, Defer, store, listener
  <2>4. CASE fresh # held
    <3>1. fresh \ held # {}
      BY <2>1, <2>4
    <3> QED
      BY <1>4, <2>1, <2>2, <3>1 DEF TypeOK, CycleShape, Defer, store, listener
  <2> QED
    BY <2>3, <2>4
<1>5. CASE PollNotifySucceeds
  <2>1. delivered' \in SUBSET Fills
    BY <1>5 DEF TypeOK, PollNotifySucceeds, Receives, FillsOf
  <2> QED
    BY <1>5, <2>1 DEF TypeOK, CycleShape, PollNotifySucceeds, store, listener
<1>6. CASE PollNotifyFails
  <2>1. delivered' \in SUBSET Fills
    BY <1>6 DEF TypeOK, PollNotifyFails, Receives, Misses, FillsOf
  <2> QED
    BY <1>6, <2>1 DEF TypeOK, CycleShape, PollNotifyFails, store, listener
<1>7. CASE PollMark
  <2>1. row' \in [Ids -> Rows]
    BY <1>7, MarkedType DEF PollMark
  <2>2. marked' \in SUBSET Fills
    BY <1>7 DEF TypeOK, PollMark, FillsOf
  <2> QED
    BY <1>7, <2>1, <2>2 DEF TypeOK, CycleShape, PollMark, listener
<1>8. CASE AdvanceWatermark
  <2>1. watermark' \in Nat
    BY <1>8, NewWatermarkIsBounded DEF TypeOK, CycleShape, AdvanceWatermark
  <2> QED
    BY <1>8, <2>1 DEF TypeOK, CycleShape, AdvanceWatermark, listener
<1> QED
  BY <1>1, <1>2, <1>3, <1>4, <1>5, <1>6, <1>7, <1>8 DEF PollStep

LEMMA TypeStep == TypeInv /\ [Next]_vars => TypeInv'
<1> SUFFICES ASSUME TypeInv, [Next]_vars PROVE TypeInv'
  OBVIOUS
<1> USE DEF TypeInv
<1>1. ASSUME NEW r \in Trades, Publish(r) PROVE TypeInv'
  BY <1>1 DEF TypeOK, CycleShape, Publish, store, listener, poller
<1>2. CASE Tick
  BY <1>2, BoundAssumption DEF TypeOK, CycleShape, Tick, store, listener, poller
<1>3. ASSUME NEW t \in Threads, NEW fills \in SUBSET Fills, Lookup(t, fills) PROVE TypeInv'
  <2>1. sends' \in [Fills -> Nat]
    BY <1>3 DEF TypeOK, Lookup
  <2>2. batch' \in [Threads -> SUBSET Fills] /\ seen' \in [Threads \cup {Poller} -> SUBSET Fills]
        /\ lpc' \in [Threads -> {"idle", "register", "notify", "mark", "release"}]
    BY <1>3 DEF TypeOK, Lookup
  <2> QED
    BY <1>3, <2>1, <2>2 DEF TypeOK, CycleShape, Lookup, store, poller
<1>4. CASE Crash
  BY <1>4, BoundAssumption DEF TypeOK, CycleShape, Crash, store
<1>5. CASE UNCHANGED vars
  BY <1>5 DEF TypeOK, CycleShape, vars, store, listener, poller
<1> HIDE DEF TypeInv
<1> QED
  BY <1>1, <1>2, <1>3, <1>4, <1>5, ListenerStepType, PollStepType DEF Next

LEMMA WellTyped == SafetySpec => []TypeInv
<1>1. Init => TypeInv
  <2>1. Init => row \in [Ids -> Rows] /\ clock \in 0..MaxClock /\ crashes \in 0..MaxCrashes
    BY BoundAssumption DEF Init, Rows
  <2> QED
    BY <2>1 DEF Init, TypeInv, TypeOK, CycleShape
<1> QED
  BY <1>1, TypeStep, PTL DEF SafetySpec

(* Table, registry, watermark, threads and cycle keep their types through every interleaving of
   _send_and_mark, poll_once and a restart. *)
THEOREM TypeCorrect == SafetySpec => []TypeOK
<1>1. TypeInv => TypeOK
  BY DEF TypeInv
<1> QED
  BY <1>1, WellTyped, PTL

-----------------------------------------------------------------------------
(* The sends of an order that are between register and release. *)
Sending(o) ==
    {t \in Threads : lpc[t] \in {"notify", "mark", "release"} /\ o \in OrdersOf(batch[t])}

(* The registry counts them. *)
RegistryCountsSends == \A o \in Orders : inflight[o] = Cardinality(Sending(o))

LEMMA SendingIsFinite ==
    ASSUME NEW o
    PROVE  IsFiniteSet(Sending(o)) /\ Cardinality(Sending(o)) \in Nat
<1>1. Sending(o) \in SUBSET Threads
  BY DEF Sending
<1> QED
  BY <1>1, FS_Subset, FS_CardinalityType

(* A step of a thread that is inside the registered part of a send, or outside it,
   before and after, and keeps its batch while inside, changes no order's sends. *)
LEMMA SendingUnchanged ==
    ASSUME TypeOK, TypeOK', NEW t \in Threads, NEW o,
           \A u \in Threads \ {t} : lpc'[u] = lpc[u] /\ batch'[u] = batch[u],
           \/ /\ lpc[t] \in {"notify", "mark"} /\ lpc'[t] \in {"mark", "release"}
              /\ batch'[t] = batch[t]
           \/ lpc[t] = "idle" /\ lpc'[t] = "register"
    PROVE  Sending(o)' = Sending(o)
BY DEF Sending, OrdersOf, TypeOK

(* Every step keeps the count. *)
LEMMA StepsKeepTheCount ==
    ASSUME TypeInv, RegistryCountsSends, [Next]_vars
    PROVE  RegistryCountsSends'
<1>1. TypeOK /\ TypeOK'
  BY TypeStep DEF TypeInv
<1> SUFFICES ASSUME NEW o \in Orders PROVE inflight'[o] = Cardinality(Sending(o)')
  BY DEF RegistryCountsSends
<1>2. inflight[o] = Cardinality(Sending(o)) /\ inflight[o] \in Nat
  BY <1>1 DEF RegistryCountsSends, TypeOK
<1>3. ASSUME inflight'[o] = inflight[o], Sending(o)' = Sending(o)
      PROVE  inflight'[o] = Cardinality(Sending(o)')
  BY <1>2, <1>3
<1>4. ASSUME NEW t \in Threads, NEW fills \in SUBSET Fills, Lookup(t, fills)
      PROVE  inflight'[o] = inflight[o] /\ Sending(o)' = Sending(o)
  BY <1>1, <1>4, SendingUnchanged DEF Lookup, TypeOK
<1>5. ASSUME NEW t \in Threads, Register(t)
      PROVE  inflight'[o] = Cardinality(Sending(o)')
  <2>1. /\ lpc[t] = "register" /\ lpc' = [lpc EXCEPT ![t] = "notify"] /\ batch' = batch
        /\ inflight' = Registered(OrdersOf(batch[t]))
    BY <1>5 DEF Register
  <2>2. t \notin Sending(o)
    BY <2>1 DEF Sending
  <2>3. CASE o \in OrdersOf(batch[t])
    <3>1. Sending(o)' = Sending(o) \cup {t}
      BY <1>1, <2>1, <2>3 DEF Sending, OrdersOf, TypeOK
    <3>2. Cardinality(Sending(o) \cup {t}) = Cardinality(Sending(o)) + 1
      BY <2>2, SendingIsFinite, FS_AddElement
    <3> QED
      BY <1>2, <2>1, <2>3, <3>1, <3>2 DEF Registered
  <2>4. CASE o \notin OrdersOf(batch[t])
    <3>1. Sending(o)' = Sending(o)
      BY <1>1, <2>1, <2>4 DEF Sending, OrdersOf, TypeOK
    <3> QED
      BY <1>2, <2>1, <2>4, <3>1 DEF Registered
  <2> QED
    BY <2>3, <2>4
<1>6. ASSUME NEW t \in Threads, NotifySucceeds(t) \/ NotifyFails(t) \/ Mark(t)
      PROVE  inflight'[o] = inflight[o] /\ Sending(o)' = Sending(o)
  BY <1>1, <1>6, SendingUnchanged DEF NotifySucceeds, NotifyFails, Mark, TypeOK
<1>7. ASSUME NEW t \in Threads, Release(t)
      PROVE  inflight'[o] = Cardinality(Sending(o)')
  <2>1. /\ lpc[t] = "release" /\ lpc' = [lpc EXCEPT ![t] = "idle"]
        /\ batch' = [batch EXCEPT ![t] = {}]
        /\ inflight' = Released(OrdersOf(batch[t]))
    BY <1>7 DEF Release
  <2>2. Sending(o)' = Sending(o) \ {t}
    BY <1>1, <2>1 DEF Sending, OrdersOf, TypeOK
  <2>3. CASE o \in OrdersOf(batch[t])
    <3>1. t \in Sending(o)
      BY <2>1, <2>3 DEF Sending
    <3>2. Cardinality(Sending(o) \ {t}) = Cardinality(Sending(o)) - 1
      BY <3>1, SendingIsFinite, FS_RemoveElement
    <3>3. inflight[o] > 0
      BY <1>2, <3>1, SendingIsFinite, FS_EmptySet
    <3> QED
      BY <1>2, <2>1, <2>2, <2>3, <3>2, <3>3 DEF Released
  <2>4. CASE o \notin OrdersOf(batch[t])
    <3>1. t \notin Sending(o)
      BY <2>4 DEF Sending
    <3>2. Sending(o)' = Sending(o)
      BY <2>2, <3>1
    <3> QED
      BY <1>2, <2>1, <2>4, <3>2 DEF Released
  <2> QED
    BY <2>3, <2>4
<1>8. CASE PollStep
  <2>1. UNCHANGED <<inflight, lpc, batch>>
    BY <1>8 DEF PollStep, Fetch, ExecDedup, OrderDedup, Defer, PollNotifySucceeds,
                PollNotifyFails, PollMark, AdvanceWatermark, listener
  <2> QED
    BY <1>3, <2>1 DEF Sending
<1>9. CASE Crash
  <2>1. Sending(o)' = {}
    BY <1>9 DEF Crash, Sending
  <2> QED
    BY <1>9, <2>1, FS_EmptySet DEF Crash
<1>10. CASE Tick \/ (\E r \in Trades : Publish(r)) \/ UNCHANGED vars
  <2>1. UNCHANGED <<inflight, lpc, batch>>
    BY <1>10 DEF Tick, Publish, vars, listener
  <2> QED
    BY <1>3, <2>1 DEF Sending
<1> QED
  BY <1>3, <1>4, <1>5, <1>6, <1>7, <1>8, <1>9, <1>10 DEF Next, ListenerStep

(* The registry is neither ahead of the sends nor behind them: nothing a failed notify,
   an overlapping send of the same order or a restart does leaves an order registered
   that nobody sends, which would defer its trades for ever (inflight.py). *)
THEOREM RegistryIsExact == SafetySpec => []RegistryCountsSends
<1>1. Init => RegistryCountsSends
  <2> SUFFICES ASSUME Init PROVE RegistryCountsSends
    OBVIOUS
  <2>1. \A o \in Orders : Sending(o) = {}
    BY DEF Init, Sending
  <2> QED
    BY <2>1, FS_EmptySet DEF Init, RegistryCountsSends
<1>2. TypeInv /\ RegistryCountsSends /\ [Next]_vars => RegistryCountsSends'
  BY StepsKeepTheCount
<1> QED
  BY <1>1, <1>2, WellTyped, PTL DEF SafetySpec

(* While a listener send of an order is between register and release, a poll cycle
   sees the order, however many sends of it overlap (INFLIGHT_ORDERS). *)
THEOREM SendsStayVisible == SafetySpec => []SendsAreVisible
<1>1. TypeInv /\ RegistryCountsSends => SendsAreVisible
  <2> SUFFICES ASSUME TypeInv, RegistryCountsSends, NEW t \in Threads,
                      lpc[t] \in {"notify", "mark", "release"}, NEW o \in OrdersOf(batch[t])
               PROVE  inflight[o] > 0
    BY DEF SendsAreVisible
  <2>1. o \in Orders
    BY DEF OrdersOf, TypeInv, TypeOK
  <2>2. t \in Sending(o)
    BY DEF Sending
  <2>3. Cardinality(Sending(o)) > 0
    BY <2>2, SendingIsFinite, FS_EmptySet
  <2> QED
    BY <2>1, <2>3 DEF RegistryCountsSends
<1> QED
  BY <1>1, RegistryIsExact, WellTyped, PTL

-----------------------------------------------------------------------------
(* Whoever is about to mark has sent what it is going to mark. *)
SentBeforeMarked ==
    /\ \A t \in Threads : lpc[t] = "mark" => batch[t] \subseteq delivered
    /\ ppc = "mark" => FillsOf(fresh) \subseteq delivered

WrittenByListener(id) ==
    \E f \in Fills : /\ f \in delivered /\ id \in KeysOf(f)
                     /\ row[id].order = WsOrder[f] /\ Present(WsId[f])

WrittenByPoller(id) ==
    row[id].order = NoOrder /\ \E r \in Trades : RestId[r] = id /\ FillsOf({r}) \subseteq delivered

(* A row shows which path wrote it, and what it was written for has been delivered: the
   listener records a fill under all its ids at once, with the order it belongs to. *)
RowsRecordDeliveries ==
    \A id \in Ids : Present(id) => WrittenByListener(id) \/ WrittenByPoller(id)

RecordInv == SentBeforeMarked /\ RowsRecordDeliveries

(* Deliveries are never taken back, so steps that leave the table alone keep its rows
   honest. *)
LEMMA TableUntouched ==
    ASSUME RowsRecordDeliveries, row' = row, delivered \subseteq delivered'
    PROVE  RowsRecordDeliveries'
BY DEF RowsRecordDeliveries, Present, WrittenByListener, WrittenByPoller

(* INSERT OR IGNORE: what was in the table stays as it was, what was written is in it. *)
LEMMA RowsAreKept ==
    ASSUME NEW ids, NEW order, NEW id \in Ids
    PROVE  /\ Present(id) => Marked(ids, order)[id] = row[id]
           /\ clock \in 0..MaxClock /\ id \in ids => Marked(ids, order)[id] # NoRow
           /\ Present(id) => Marked(ids, order)[id] # NoRow
BY BoundAssumption DEF Marked, Present, NoRow

LEMMA FillsOfTrades ==
    ASSUME NEW T, NEW r \in T PROVE FillsOf({r}) \subseteq FillsOf(T)
BY DEF FillsOf

(* A listener send. *)
LEMMA SendsRecord ==
    ASSUME TypeOK, RecordInv, NEW t \in Threads,
           (\E fills \in SUBSET Fills : Lookup(t, fills)) \/ ListenerStep(t)
    PROVE  RecordInv'
<1>1. ASSUME NEW fills \in SUBSET Fills, Lookup(t, fills) PROVE RecordInv'
  <2>1. /\ lpc' = [lpc EXCEPT ![t] = "register"] /\ row' = row /\ delivered' = delivered
        /\ UNCHANGED <<published, ppc, fresh>>
        /\ batch' = [batch EXCEPT ![t] = {f \in fills : ~AlreadyProcessed(f)}]
    BY <1>1 DEF Lookup, store, poller
  <2>2. SentBeforeMarked'
    BY <2>1 DEF RecordInv, TypeOK, SentBeforeMarked, FillsOf
  <2> QED
    BY <2>1, <2>2, TableUntouched DEF RecordInv
<1>2. CASE Register(t) \/ NotifyFails(t) \/ Release(t)
  <2>1. /\ lpc' \in {[lpc EXCEPT ![t] = "notify"], [lpc EXCEPT ![t] = "release"],
                     [lpc EXCEPT ![t] = "idle"]}
        /\ batch' \in {batch, [batch EXCEPT ![t] = {}]}
        /\ row' = row /\ delivered \subseteq delivered'
        /\ UNCHANGED <<published, ppc, fresh>>
    BY <1>2 DEF Register, NotifyFails, Release, Receives, Misses, store, poller
  <2>2. SentBeforeMarked'
    BY <2>1 DEF RecordInv, TypeOK, SentBeforeMarked, FillsOf
  <2> QED
    BY <2>1, <2>2, TableUntouched DEF RecordInv
<1>3. CASE NotifySucceeds(t)
  <2>1. /\ lpc' = [lpc EXCEPT ![t] = "mark"] /\ batch' = batch /\ row' = row
        /\ delivered' = delivered \cup batch[t]
        /\ UNCHANGED <<published, ppc, fresh>>
    BY <1>3 DEF NotifySucceeds, Receives, store, poller
  <2>2. SentBeforeMarked'
    BY <2>1 DEF RecordInv, TypeOK, SentBeforeMarked, FillsOf
  <2> QED
    BY <2>1, <2>2, TableUntouched DEF RecordInv
<1>4. CASE Mark(t)
  <2> DEFINE ids == UNION {KeysOf(f) : f \in batch[t]}
             order == [id \in ids |-> WsOrder[CHOOSE f \in batch[t] : id \in KeysOf(f)]]
  <2>1. /\ lpc[t] = "mark" /\ lpc' = [lpc EXCEPT ![t] = "release"] /\ row' = Marked(ids, order)
        /\ UNCHANGED <<published, ppc, fresh, batch, delivered>>
    BY <1>4 DEF Mark, poller
  <2>2. SentBeforeMarked'
    BY <2>1 DEF RecordInv, TypeOK, SentBeforeMarked, FillsOf
  <2>3. ASSUME NEW id \in Ids, Present(id)' PROVE WrittenByListener(id)' \/ WrittenByPoller(id)'
    <3>1. CASE id \in ids /\ ~Present(id)
      <4>1. PICK f \in batch[t] : id \in KeysOf(f) /\ row'[id].order = WsOrder[f]
        <5>1. (CHOOSE f \in batch[t] : id \in KeysOf(f)) \in batch[t]
              /\ id \in KeysOf(CHOOSE f \in batch[t] : id \in KeysOf(f))
          BY <3>1
        <5>2. row'[id].order = WsOrder[CHOOSE f \in batch[t] : id \in KeysOf(f)]
          BY <2>1, <3>1 DEF Marked
        <5> QED
          BY <5>1, <5>2
      <4>2. f \in Fills /\ f \in delivered
        BY <2>1, <4>1 DEF RecordInv, TypeOK, SentBeforeMarked
      <4>3. WsId[f] \in ids /\ WsId[f] \in Ids /\ clock \in 0..MaxClock
        BY <4>1, <4>2 DEF KeysOf, TypeOK
      <4> HIDE DEF ids, order
      <4>4. row'[WsId[f]] # NoRow
        BY <2>1, <4>3, RowsAreKept
      <4> QED
        BY <2>1, <4>1, <4>2, <4>4 DEF WrittenByListener, Present
    <3>2. CASE ~(id \in ids /\ ~Present(id))
      <4>1. row'[id] = row[id] /\ delivered' = delivered
        BY <2>1, <3>2 DEF Marked
      <4>2. Present(id)
        BY <2>3, <4>1 DEF Present
      <4> HIDE DEF ids, order
      <4>3. \A key \in Ids : Present(key) => Present(key)'
        BY <2>1, RowsAreKept DEF Present
      <4> QED
        BY <4>1, <4>2, <4>3
           DEF RecordInv, RowsRecordDeliveries, WrittenByListener, WrittenByPoller
    <3> QED
      BY <3>1, <3>2
  <2> QED
    BY <2>2, <2>3 DEF RecordInv, RowsRecordDeliveries
<1> QED
  BY <1>1, <1>2, <1>3, <1>4 DEF ListenerStep

(* A poll cycle. *)
LEMMA CyclesRecord == ASSUME TypeOK, RecordInv, PollStep PROVE RecordInv'
<1>1. CASE Fetch \/ ExecDedup \/ OrderDedup \/ Defer \/ PollNotifyFails \/ AdvanceWatermark
  <2>1. /\ ppc' # "mark" /\ fresh' \in SUBSET Trades
        /\ row' = row /\ delivered \subseteq delivered'
        /\ UNCHANGED <<published, lpc, batch>>
    BY <1>1 DEF Fetch, ExecDedup, OrderDedup, Defer, PollNotifyFails, AdvanceWatermark, GoOn,
                Candidates, Receives, Misses, store, listener, RecordInv, TypeOK
  <2>2. SentBeforeMarked'
    BY <2>1 DEF RecordInv, TypeOK, SentBeforeMarked
  <2> QED
    BY <2>1, <2>2, TableUntouched DEF RecordInv
<1>2. CASE PollNotifySucceeds
  <2>1. /\ delivered' = delivered \cup FillsOf(fresh)
        /\ UNCHANGED <<row, fresh, published, lpc, batch>>
    BY <1>2 DEF PollNotifySucceeds, Receives, store, listener
  <2>2. SentBeforeMarked'
    BY <2>1 DEF RecordInv, TypeOK, SentBeforeMarked, FillsOf
  <2> QED
    BY <2>1, <2>2, TableUntouched DEF RecordInv
<1>3. CASE PollMark
  <2> DEFINE ids == {RestId[r] : r \in fresh}
  <2>1. /\ ppc = "mark" /\ ppc' = "watermark"
        /\ row' = Marked(ids, [id \in Ids |-> NoOrder])
        /\ UNCHANGED <<published, fresh, lpc, batch, delivered>>
    BY <1>3 DEF PollMark, listener
  <2>2. SentBeforeMarked'
    BY <2>1 DEF RecordInv, TypeOK, SentBeforeMarked
  <2>3. ASSUME NEW id \in Ids, Present(id)' PROVE WrittenByListener(id)' \/ WrittenByPoller(id)'
    <3>1. CASE id \in ids /\ ~Present(id)
      <4>1. PICK r \in fresh : RestId[r] = id
        BY <3>1
      <4>2. row'[id].order = NoOrder
        BY <2>1, <3>1 DEF Marked
      <4>3. r \in Trades /\ FillsOf({r}) \subseteq delivered
        BY <2>1, FillsOfTrades DEF RecordInv, TypeOK, SentBeforeMarked
      <4> QED
        BY <2>1, <4>1, <4>2, <4>3 DEF WrittenByPoller
    <3>2. CASE ~(id \in ids /\ ~Present(id))
      <4>1. row'[id] = row[id] /\ delivered' = delivered
        BY <2>1, <3>2 DEF Marked
      <4>2. Present(id)
        BY <2>3, <4>1 DEF Present
      <4> HIDE DEF ids
      <4>3. \A key \in Ids : Present(key) => Present(key)'
        BY <2>1, RowsAreKept DEF Present
      <4> QED
        BY <4>1, <4>2, <4>3
           DEF RecordInv, RowsRecordDeliveries, WrittenByListener, WrittenByPoller
    <3> QED
      BY <3>1, <3>2
  <2> QED
    BY <2>2, <2>3 DEF RecordInv, RowsRecordDeliveries
<1> QED
  BY <1>1, <1>2, <1>3 DEF PollStep

(* Every row of the dedup table was written for something that had been delivered, wherever a
   failure or a restart fell (_send_and_mark, poll_once): by the listener, with an order, for a
   fill that goes by its id, or by the poller, without one, for all fills of the trade that has
   it.  Siblings may share the id. *)
THEOREM TableIsHonest == SafetySpec => []RecordInv
<1>1. Init => RecordInv
  BY DEF Init, RecordInv, SentBeforeMarked, RowsRecordDeliveries, Present
<1>2. TypeInv /\ RecordInv /\ [Next]_vars => RecordInv'
  <2> SUFFICES ASSUME TypeOK, RecordInv, [Next]_vars PROVE RecordInv'
    BY DEF TypeInv
  <2>1. CASE Crash
    <3>1. /\ row' = row /\ delivered' = delivered /\ ppc' = "idle" /\ fresh' = {}
          /\ lpc' = [u \in Threads |-> "idle"] /\ batch' = [u \in Threads |-> {}]
          /\ published' = published
      BY <2>1 DEF Crash, store
    <3>2. SentBeforeMarked'
      BY <3>1 DEF RecordInv, TypeOK, SentBeforeMarked
    <3> QED
      BY <3>1, <3>2, TableUntouched DEF RecordInv
  <2>2. CASE Tick \/ (\E r \in Trades : Publish(r)) \/ UNCHANGED vars
    <3>1. UNCHANGED <<row, delivered, ppc, fresh, lpc, batch>>
      BY <2>2 DEF Tick, Publish, vars, store, listener, poller
    <3>2. SentBeforeMarked'
      BY <3>1 DEF RecordInv, TypeOK, SentBeforeMarked, FillsOf
    <3> QED
      BY <3>1, <3>2, TableUntouched DEF RecordInv
  <2> QED
    BY <2>1, <2>2, SendsRecord, CyclesRecord DEF Next
<1> QED
  BY <1>1, <1>2, WellTyped, PTL DEF SafetySpec

(* The rows say what both paths read from them. *)
LEMMA RowsMeanDelivered == RowsRecordDeliveries => MarkedIsDelivered
<1> SUFFICES ASSUME RowsRecordDeliveries PROVE MarkedIsDelivered
  OBVIOUS
<1>1. ASSUME NEW f \in Fills, AlreadyProcessed(f) PROVE f \in delivered
  <2>1. PICK id \in KeysOf(f) : Present(id) /\ (id = WsId[f] \/ row[id].order = NoOrder)
    BY <1>1 DEF AlreadyProcessed, KeysOf
  <2>2. id \in Ids
    BY DEF KeysOf
  <2>3. CASE WrittenByListener(id)
    <3>1. id = WsId[f]
      BY <2>1, <2>3 DEF WrittenByListener
    <3>2. PICK g \in Fills : g \in delivered /\ id \in KeysOf(g)
      BY <2>3 DEF WrittenByListener
    <3>3. f = g
      BY <3>1, <3>2, DistinctIdsAssumption DEF KeysOf
    <3> QED
      BY <3>2, <3>3
  <2>4. CASE WrittenByPoller(id)
    <3>1. PICK r \in Trades : RestId[r] = id /\ FillsOf({r}) \subseteq delivered
      BY <2>4 DEF WrittenByPoller
    <3>2. TradeOf[f] = r
      BY <2>1, <3>1, DistinctIdsAssumption DEF KeysOf
    <3> QED
      BY <3>1, <3>2 DEF FillsOf
  <2> QED
    BY <2>1, <2>2, <2>3, <2>4 DEF RowsRecordDeliveries
<1>2. ASSUME NEW r \in Trades, Present(RestId[r])
      PROVE  IF Alone(r) THEN FillsOf({r}) \subseteq delivered ELSE FillsOf({r}) \cap delivered # {}
  <2>1. CASE WrittenByListener(RestId[r])
    <3>1. PICK f \in Fills : f \in delivered /\ RestId[r] \in KeysOf(f)
      BY <2>1 DEF WrittenByListener
    <3>2. f \in FillsOf({r})
      BY <3>1, DistinctIdsAssumption DEF KeysOf, FillsOf
    <3>3. Alone(r) => FillsOf({r}) = {f}
      BY <3>1 DEF Alone
    <3> QED
      BY <3>1, <3>2, <3>3
  <2>2. CASE WrittenByPoller(RestId[r])
    <3>1. FillsOf({r}) \subseteq delivered
      BY <2>2, DistinctIdsAssumption DEF WrittenByPoller
    <3>2. CASE Alone(r)
      BY <3>1, <3>2
    <3>3. CASE ~Alone(r)
      <4>1. PICK f \in Fills : RestId[r] \in KeysOf(f)
        BY <3>3 DEF Alone
      <4>2. f \in FillsOf({r})
        BY <4>1, DistinctIdsAssumption DEF KeysOf, FillsOf
      <4> QED
        BY <3>1, <3>3, <4>2
    <3> QED
      BY <3>2, <3>3
  <2> QED
    BY <1>2, <2>1, <2>2 DEF RowsRecordDeliveries
<1> QED
  BY <1>1, <1>2 DEF MarkedIsDelivered

(* Mark-after-notify: what either path would recognise as already processed has reached a
   receiver (_send_and_mark and poll_once mark only after notify returned): for the listener
   whatever siblings share an alias, for the poller all of the trade, or with siblings some. *)
THEOREM MarkedWasDelivered == SafetySpec => []MarkedIsDelivered
<1>1. RecordInv => MarkedIsDelivered
  BY RowsMeanDelivered DEF RecordInv
<1> QED
  BY <1>1, TableIsHonest, PTL

-----------------------------------------------------------------------------
(* What both paths need to recognise what the other has recorded: an execution is the
   same id to both, or an alias of the listener's.  It holds of IBKR, whose combo legs
   have aliases (relays/ibkr/__init__.py, dedup_aliases), and of Kraken's orders that
   are matched once; a Kraken trade that consolidates several fills has an id of its own. *)
SharedIds == \A f \in Fills : RestId[TradeOf[f]] \in KeysOf(f)

(* What neither path can see: that a trade has more fills than the one that goes by its id.
   Combo legs that agree in the four segments Flex reports would break it. *)
OneFillPerId == \A r \in Trades : Alone(r)

(* A recorded fill is in the table under the id the poller looks for, and what a send or
   a cycle goes on with was not on record when it looked, siblings in a send excepted. *)
RepeatInv ==
    /\ \A f \in marked : Present(RestId[TradeOf[f]])
    /\ \A t \in Threads : \A f \in batch[t] \cap seen[t] : ~Alone(TradeOf[f])
    /\ ppc \notin {"idle", "exec_dedup"} => FillsOf(fresh) \cap seen[Poller] = {}

(* The listener recognises what the poller does, when no sibling shares the id: a row under the shared id is the
   poller's, or it came with one under the listener's own id. *)
LEMMA ListenerRecognises ==
    ASSUME SharedIds, RowsRecordDeliveries, NEW f \in Fills, Alone(TradeOf[f]),
           Present(RestId[TradeOf[f]])
    PROVE  AlreadyProcessed(f)
<1> DEFINE r == TradeOf[f]
           id == RestId[r]
<1>1. r \in Trades /\ id \in Ids /\ id \in KeysOf(f)
  BY DEF SharedIds
<1>2. FillsOf({r}) = {f}
  BY <1>1 DEF Alone
<1>3. CASE WrittenByListener(id)
  <2>1. PICK g \in Fills : id \in KeysOf(g) /\ Present(WsId[g])
    BY <1>3 DEF WrittenByListener
  <2>2. FillsOf({r}) = {g}
    BY <1>1, <2>1 DEF Alone
  <2>3. f = g
    BY <1>2, <2>2
  <2> QED
    BY <2>1, <2>3 DEF AlreadyProcessed
<1>4. CASE WrittenByPoller(id)
  BY <1>1, <1>4 DEF WrittenByPoller, AlreadyProcessed, KeysOf
<1> QED
  BY <1>1, <1>3, <1>4 DEF RowsRecordDeliveries

(* Rows stay in the table. *)
LEMMA TableGrows ==
    ASSUME TypeOK, [Next]_vars, NEW id \in Ids, Present(id)
    PROVE  Present(id)'
<1>1. ASSUME NEW t \in Threads, Mark(t) PROVE Present(id)'
  <2> DEFINE ids == UNION {KeysOf(f) : f \in batch[t]}
             order == [i \in ids |-> WsOrder[CHOOSE f \in batch[t] : i \in KeysOf(f)]]
  <2>1. row' = Marked(ids, order)
    BY <1>1 DEF Mark
  <2> HIDE DEF ids, order
  <2> QED
    BY <2>1, RowsAreKept DEF Present
<1>2. CASE PollMark
  <2>1. row' = Marked({RestId[r] : r \in fresh}, [i \in Ids |-> NoOrder])
    BY <1>2 DEF PollMark
  <2> QED
    BY <2>1, RowsAreKept DEF Present
<1>3. ASSUME row' = row PROVE Present(id)'
  BY <1>3 DEF Present
<1>4. ASSUME NEW t \in Threads, NEW fills \in SUBSET Fills, Lookup(t, fills) PROVE row' = row
  BY <1>4 DEF Lookup, store
<1>5. ASSUME NEW t \in Threads PROVE
         Register(t) \/ NotifySucceeds(t) \/ NotifyFails(t) \/ Release(t) => row' = row
  BY DEF Register, NotifySucceeds, NotifyFails, Release, store
<1>6. Fetch \/ ExecDedup \/ OrderDedup \/ Defer \/ PollNotifySucceeds \/ PollNotifyFails
         \/ AdvanceWatermark => row' = row
  BY DEF Fetch, ExecDedup, OrderDedup, Defer, PollNotifySucceeds, PollNotifyFails,
         AdvanceWatermark, store
<1>7. Tick \/ (\E r \in Trades : Publish(r)) \/ Crash \/ UNCHANGED vars => row' = row
  BY DEF Tick, Publish, Crash, vars, store
<1> QED
  BY <1>1, <1>2, <1>3, <1>4, <1>5, <1>6, <1>7 DEF Next, ListenerStep, PollStep

(* A step that records nothing keeps the record whole. *)
LEMMA NothingRecorded ==
    ASSUME TypeOK, [Next]_vars, \A f \in marked : Present(RestId[TradeOf[f]]), marked' = marked
    PROVE  \A f \in marked' : Present(RestId[TradeOf[f]])'
<1> SUFFICES ASSUME NEW f \in marked PROVE Present(RestId[TradeOf[f]])'
  OBVIOUS
<1>1. RestId[TradeOf[f]] \in Ids
  BY DEF TypeOK
<1> QED
  BY <1>1, TableGrows

LEMMA RepeatStep ==
    ASSUME SharedIds, TypeOK, RecordInv, RepeatInv, [Next]_vars
    PROVE  RepeatInv'
<1>1. ASSUME NEW t \in Threads, NEW fills \in SUBSET Fills, Lookup(t, fills) PROVE RepeatInv'
  <2>1. /\ batch' = [batch EXCEPT ![t] = {f \in fills : ~AlreadyProcessed(f)}]
        /\ seen' = [seen EXCEPT ![t] = marked]
        /\ UNCHANGED <<marked, ppc, fresh>>
    BY <1>1 DEF Lookup, poller
  <2>2. \A f \in {g \in fills : ~AlreadyProcessed(g)} \cap marked : ~Alone(TradeOf[f])
    BY ListenerRecognises DEF RepeatInv, RecordInv
  <2>3. \A u \in Threads : \A f \in batch'[u] \cap seen'[u] : ~Alone(TradeOf[f])
    BY <2>1, <2>2 DEF RepeatInv, TypeOK
  <2>4. seen'[Poller] = seen[Poller]
    BY <2>1, ThreadsAssumption DEF TypeOK
  <2> QED
    BY <2>1, <2>3, <2>4, NothingRecorded DEF RepeatInv, FillsOf
<1>2. ASSUME NEW t \in Threads, Mark(t) PROVE RepeatInv'
  <2> DEFINE ids == UNION {KeysOf(f) : f \in batch[t]}
             order == [id \in ids |-> WsOrder[CHOOSE f \in batch[t] : id \in KeysOf(f)]]
  <2>1. /\ row' = Marked(ids, order)
        /\ marked' = marked \cup batch[t]
        /\ UNCHANGED <<batch, seen, ppc, fresh>>
    BY <1>2 DEF Mark, poller
  <2>2. ASSUME NEW f \in marked' PROVE Present(RestId[TradeOf[f]])'
    <3>1. f \in Fills /\ RestId[TradeOf[f]] \in Ids
      BY <2>1 DEF TypeOK
    <3>2. CASE f \in marked
      BY <3>1, <3>2, TableGrows DEF RepeatInv
    <3>3. CASE f \in batch[t]
      <4>1. RestId[TradeOf[f]] \in ids /\ clock \in 0..MaxClock
        BY <3>1, <3>3 DEF SharedIds, TypeOK
      <4> HIDE DEF ids, order
      <4>2. row'[RestId[TradeOf[f]]] # NoRow
        BY <2>1, <3>1, <4>1, RowsAreKept
      <4> QED
        BY <4>2 DEF Present
    <3> QED
      BY <2>1, <3>2, <3>3
  <2> QED
    BY <2>1, <2>2 DEF RepeatInv, FillsOf
<1>3. ASSUME NEW t \in Threads,
             Register(t) \/ NotifySucceeds(t) \/ NotifyFails(t) \/ Release(t)
      PROVE  RepeatInv'
  <2>1. /\ batch' \in {batch, [batch EXCEPT ![t] = {}]}
        /\ UNCHANGED <<marked, seen, ppc, fresh>>
    BY <1>3 DEF Register, NotifySucceeds, NotifyFails, Release, poller
  <2>2. \A u \in Threads : batch'[u] \subseteq batch[u]
    BY <2>1 DEF TypeOK
  <2> QED
    BY <2>1, <2>2, NothingRecorded DEF RepeatInv, FillsOf
<1>4. CASE Fetch \/ OrderDedup \/ Defer \/ PollNotifySucceeds \/ PollNotifyFails
           \/ AdvanceWatermark
  <2>1. /\ UNCHANGED <<marked, seen, batch>>
        /\ \/ ppc' \in {"idle", "exec_dedup"}
           \/ fresh' \subseteq fresh /\ ppc \notin {"idle", "exec_dedup"}
    BY <1>4 DEF Fetch, OrderDedup, Defer, PollNotifySucceeds, PollNotifyFails,
                AdvanceWatermark, GoOn, listener
  <2> QED
    BY <2>1, NothingRecorded DEF RepeatInv, FillsOf
<1>5. CASE ExecDedup
  <2>1. /\ fresh' = {r \in fresh : ~Present(RestId[r])}
        /\ seen' = [seen EXCEPT ![Poller] = marked]
        /\ UNCHANGED <<marked, batch>>
    BY <1>5 DEF ExecDedup, GoOn, listener
  <2>2. FillsOf(fresh') \cap marked = {}
    BY <2>1 DEF RepeatInv, FillsOf
  <2>3. seen'[Poller] = marked
    BY <2>1 DEF TypeOK
  <2>4. \A u \in Threads : seen'[u] = seen[u]
    BY <2>1, ThreadsAssumption DEF TypeOK
  <2> QED
    BY <2>1, <2>2, <2>3, <2>4, NothingRecorded DEF RepeatInv, FillsOf
<1>6. CASE PollMark
  <2>1. /\ row' = Marked({RestId[r] : r \in fresh}, [id \in Ids |-> NoOrder])
        /\ marked' = marked \cup FillsOf(fresh)
        /\ UNCHANGED <<batch, seen, fresh>> /\ ppc = "mark"
    BY <1>6 DEF PollMark, listener
  <2>2. ASSUME NEW f \in marked' PROVE Present(RestId[TradeOf[f]])'
    <3>1. f \in Fills /\ RestId[TradeOf[f]] \in Ids
      BY <2>1 DEF TypeOK, FillsOf
    <3>2. CASE f \in marked
      BY <3>1, <3>2, TableGrows DEF RepeatInv
    <3>3. CASE f \in FillsOf(fresh)
      <4>1. RestId[TradeOf[f]] \in {RestId[r] : r \in fresh} /\ clock \in 0..MaxClock
        BY <3>3 DEF FillsOf, TypeOK
      <4>2. row'[RestId[TradeOf[f]]] # NoRow
        BY <2>1, <3>1, <4>1, RowsAreKept
      <4> QED
        BY <4>2 DEF Present
    <3> QED
      BY <2>1, <3>2, <3>3
  <2> QED
    BY <2>1, <2>2 DEF RepeatInv, FillsOf
<1>7. CASE Crash
  <2>1. UNCHANGED <<marked, seen>> /\ batch' = [t \in Threads |-> {}] /\ ppc' = "idle"
    BY <1>7 DEF Crash
  <2> QED
    BY <2>1, NothingRecorded DEF RepeatInv
<1>8. CASE Tick \/ (\E r \in Trades : Publish(r)) \/ UNCHANGED vars
  <2>1. UNCHANGED <<marked, seen, batch, ppc, fresh>>
    BY <1>8 DEF Tick, Publish, vars, listener, poller
  <2> QED
    BY <2>1, NothingRecorded DEF RepeatInv, FillsOf
<1> QED
  BY <1>1, <1>2, <1>3, <1>4, <1>5, <1>6, <1>7, <1>8 DEF Next, ListenerStep, PollStep

LEMMA RecordIsShared == SharedIds => (SafetySpec => []RepeatInv)
<1> SUFFICES ASSUME SharedIds PROVE SafetySpec => []RepeatInv
  OBVIOUS
<1>1. Init => RepeatInv
  BY DEF Init, RepeatInv
<1>2. TypeInv /\ RecordInv /\ RepeatInv /\ [Next]_vars => RepeatInv'
  BY RepeatStep DEF TypeInv
<1> QED
  BY <1>1, <1>2, WellTyped, TableIsHonest, PTL DEF SafetySpec

(* No fill is sent again once its delivery was on record, by either path, as long as the
   two name an execution by ids the other knows (get_processed_rows, get_processed_ids): not
   by the poller whatever else goes by them, not by the listener unless a sibling does. *)
THEOREM NeverRepeated == SharedIds => (SafetySpec => []NoRepeatAfterMark)
<1>1. RepeatInv => NoRepeatAfterMark
  BY DEF RepeatInv, NoRepeatAfterMark
<1> QED
  BY <1>1, RecordIsShared, PTL

-----------------------------------------------------------------------------
(* What the order-level dedup takes for granted: an order id that both feeds use is of
   an order that was matched once, whose trade is that fill.  It holds of IBKR, where the
   feeds share no order ids, and of Kraken's orders that are matched once; an order that
   is filled in part, then again, has the second trade dropped as processed. *)
SingleFillOrders ==
    \A f \in Fills, r \in Trades : WsOrder[f] = RestOrder[r] => FillsOf({r}) \subseteq {f}

(* The feed never publishes behind what it has published. *)
PublishedInOrder ==
    \A q \in published, r \in Trades : TradeTime[r] < TradeTime[q] => r \in published

(* A cycle handles what the feed published, and the watermark does not pass that. *)
WatermarkBehindFeed ==
    /\ fresh \subseteq published
    /\ watermark = 0 \/ \E q \in published : watermark <= TradeTime[q]

(* What is undelivered and older than something the cycle is about to send is in the
   cycle too, to be sent or deferred. *)
CycleLeavesNothing ==
    \A q \in fresh, r \in Trades :
        TradeTime[r] < TradeTime[q] /\ ~(FillsOf({r}) \subseteq delivered)
            => r \in fresh \cup deferred

SentByCycle == ppc \in {"mark", "watermark"} => FillsOf(fresh) \subseteq delivered

ReachInv ==
    /\ PublishedInOrder /\ WatermarkBehindFeed
    /\ CycleLeavesNothing /\ SentByCycle /\ UndeliveredStaysInReach

(* What the poller drops has been delivered: the row it finds was written for it. *)
LEMMA DroppedWasDelivered ==
    ASSUME RowsRecordDeliveries, OneFillPerId, NEW r \in Trades
    PROVE  /\ Present(RestId[r]) => FillsOf({r}) \subseteq delivered
           /\ SingleFillOrders /\ RecentlyProcessed(RestOrder[r]) => FillsOf({r}) \subseteq delivered
<1>1. Present(RestId[r]) => FillsOf({r}) \subseteq delivered
  BY RowsMeanDelivered DEF MarkedIsDelivered, OneFillPerId
<1>2. ASSUME SingleFillOrders, RecentlyProcessed(RestOrder[r])
      PROVE  FillsOf({r}) \subseteq delivered
  <2>1. PICK id \in Ids : Present(id) /\ row[id].order = RestOrder[r]
    BY <1>2 DEF RecentlyProcessed
  <2>2. ~WrittenByPoller(id)
    BY <2>1 DEF WrittenByPoller
  <2>3. PICK f \in Fills : f \in delivered /\ row[id].order = WsOrder[f]
    BY <2>1, <2>2 DEF RowsRecordDeliveries, WrittenByListener
  <2> QED
    BY <1>2, <2>1, <2>3 DEF SingleFillOrders
<1> QED
  BY <1>1, <1>2

(* Steps that only add to what is delivered, and leave cycle and watermark alone. *)
LEMMA ReachKept ==
    ASSUME ReachInv, delivered \subseteq delivered',
           UNCHANGED <<published, watermark, ppc, fresh, deferred>>
    PROVE  ReachInv'
<1>1. PublishedInOrder' /\ WatermarkBehindFeed' /\ SentByCycle'
  BY DEF ReachInv, PublishedInOrder, WatermarkBehindFeed, SentByCycle, FillsOf
<1>2. CycleLeavesNothing' /\ UndeliveredStaysInReach'
  BY DEF ReachInv, CycleLeavesNothing, UndeliveredStaysInReach, Candidates, FillsOf
<1> QED
  BY <1>1, <1>2 DEF ReachInv

(* A step of the cycle before its watermark: it may leave out what has been delivered. *)
LEMMA ReachCycle ==
    ASSUME ReachInv, delivered' = delivered, UNCHANGED <<published, watermark>>,
           fresh' \subseteq fresh, ppc' \notin {"mark", "watermark"},
           fresh' # {} => \A r \in fresh \cup deferred :
               r \in fresh' \cup deferred' \/ FillsOf({r}) \subseteq delivered
    PROVE  ReachInv'
<1>1. PublishedInOrder' /\ WatermarkBehindFeed' /\ SentByCycle' /\ UndeliveredStaysInReach'
  BY DEF ReachInv, PublishedInOrder, WatermarkBehindFeed, SentByCycle,
         UndeliveredStaysInReach, Candidates, FillsOf
<1>2. CycleLeavesNothing'
  BY DEF ReachInv, CycleLeavesNothing, FillsOf
<1> QED
  BY <1>1, <1>2 DEF ReachInv

LEMMA ReachPollStep ==
    ASSUME SingleFillOrders, OneFillPerId, TypeInv, RowsRecordDeliveries, ReachInv, PollStep
    PROVE  ReachInv'
<1>a. TypeOK /\ CycleShape
  BY DEF TypeInv
<1>1. CASE Fetch
  <2>1. /\ fresh' = Candidates /\ deferred' = deferred /\ ppc' = "exec_dedup"
        /\ UNCHANGED <<published, watermark, delivered>>
    BY <1>1 DEF Fetch, store
  <2>2. PublishedInOrder' /\ WatermarkBehindFeed' /\ SentByCycle' /\ UndeliveredStaysInReach'
    BY <2>1 DEF ReachInv, PublishedInOrder, WatermarkBehindFeed, SentByCycle,
                UndeliveredStaysInReach, Candidates, FillsOf
  <2>3. CycleLeavesNothing'
    <3> SUFFICES ASSUME NEW q \in Candidates, NEW r \in Trades, TradeTime[r] < TradeTime[q],
                        ~(FillsOf({r}) \subseteq delivered)
                 PROVE  r \in Candidates
      BY <2>1 DEF CycleLeavesNothing, FillsOf
    <3>1. r \in published
      BY DEF Candidates, ReachInv, PublishedInOrder
    <3> QED
      BY <3>1 DEF ReachInv, UndeliveredStaysInReach
  <2> QED
    BY <2>2, <2>3 DEF ReachInv
<1>2. CASE ExecDedup
  <2>1. /\ fresh' = {r \in fresh : ~Present(RestId[r])} /\ deferred' = deferred
        /\ UNCHANGED <<published, watermark, delivered>>
        /\ ppc' \in {"idle", "order_dedup"}
    BY <1>2 DEF ExecDedup, GoOn, store
  <2>2. \A r \in fresh : r \in fresh' \/ FillsOf({r}) \subseteq delivered
    BY <1>a, <2>1, DroppedWasDelivered DEF TypeOK
  <2> QED
    BY <2>1, <2>2, ReachCycle
<1>3. CASE OrderDedup
  <2>1. /\ fresh' = {r \in fresh : ~RecentlyProcessed(RestOrder[r])} /\ deferred' = deferred
        /\ UNCHANGED <<published, watermark, delivered>>
        /\ ppc' \in {"idle", "defer"}
    BY <1>3 DEF OrderDedup, GoOn, store
  <2>2. \A r \in fresh : r \in fresh' \/ FillsOf({r}) \subseteq delivered
    BY <1>a, <2>1, DroppedWasDelivered DEF TypeOK
  <2> QED
    BY <2>1, <2>2, ReachCycle
<1>4. CASE Defer
  <2> DEFINE held == {r \in fresh : inflight[RestOrder[r]] > 0}
  <2>1. /\ fresh' = fresh \ held /\ deferred' = (IF fresh = held THEN {} ELSE held)
        /\ UNCHANGED <<published, watermark, delivered>>
        /\ ppc = "defer" /\ ppc' \in {"idle", "notify"}
        /\ held \subseteq fresh
    BY <1>4 DEF Defer, GoOn, store
  <2>2. deferred = {}
    BY <1>a, <2>1 DEF CycleShape
  <2> HIDE DEF held
  <2>3. fresh' # {} => \A r \in fresh \cup deferred : r \in fresh' \cup deferred'
    BY <2>1, <2>2
  <2> QED
    BY <2>1, <2>3, ReachCycle
<1>5. CASE PollNotifySucceeds
  <2>1. /\ delivered' = delivered \cup FillsOf(fresh)
        /\ UNCHANGED <<published, watermark, fresh, deferred>>
    BY <1>5 DEF PollNotifySucceeds, Receives, store
  <2>2. PublishedInOrder' /\ WatermarkBehindFeed' /\ SentByCycle'
    BY <2>1 DEF ReachInv, PublishedInOrder, WatermarkBehindFeed, SentByCycle, FillsOf
  <2>3. CycleLeavesNothing' /\ UndeliveredStaysInReach'
    BY <2>1 DEF ReachInv, CycleLeavesNothing, UndeliveredStaysInReach, Candidates, FillsOf
  <2> QED
    BY <2>2, <2>3 DEF ReachInv
<1>6. CASE PollNotifyFails
  <2>1. /\ delivered \subseteq delivered' /\ UNCHANGED <<published, watermark>>
        /\ fresh' = {} /\ ppc' = "idle"
    BY <1>6 DEF PollNotifyFails, Receives, Misses, store
  <2> QED
    BY <2>1 DEF ReachInv, PublishedInOrder, WatermarkBehindFeed, CycleLeavesNothing,
                SentByCycle, UndeliveredStaysInReach, Candidates, FillsOf
<1>7. CASE PollMark
  <2>1. /\ ppc = "mark" /\ UNCHANGED <<published, watermark, fresh, deferred, delivered>>
    BY <1>7 DEF PollMark
  <2> QED
    BY <2>1 DEF ReachInv, PublishedInOrder, WatermarkBehindFeed, CycleLeavesNothing,
                SentByCycle, UndeliveredStaysInReach, Candidates, FillsOf
<1>8. CASE AdvanceWatermark
  <2>1. /\ ppc = "watermark" /\ watermark' = NewWatermark /\ fresh' = {} /\ ppc' = "idle"
        /\ UNCHANGED <<published, delivered>>
    BY <1>8 DEF AdvanceWatermark
  <2>2. /\ NewWatermark \in Nat
        /\ \A r \in deferred : NewWatermark <= TradeTime[r]
        /\ \E r \in fresh : NewWatermark <= TradeTime[r]
    BY <1>a, <2>1, NewWatermarkIsBounded DEF TypeOK, CycleShape
  <2>3. ASSUME NEW r \in published, ~(FillsOf({r}) \subseteq delivered)
        PROVE  TradeTime[r] >= NewWatermark
    <3>1. PICK q \in fresh : NewWatermark <= TradeTime[q]
      BY <2>2
    <3>2. r \in Trades /\ q \in Trades /\ TradeTime[r] \in Nat /\ TradeTime[q] \in Nat
      BY <1>a DEF TypeOK
    <3>3. CASE TradeTime[r] < TradeTime[q]
      <4>1. r \in fresh \cup deferred
        BY <2>3, <3>2, <3>3 DEF ReachInv, CycleLeavesNothing
      <4>2. r \notin fresh
        BY <2>1, <2>3, FillsOfTrades DEF ReachInv, SentByCycle
      <4> QED
        BY <2>2, <3>2, <4>1, <4>2
    <3>4. CASE ~(TradeTime[r] < TradeTime[q])
      BY <2>2, <3>1, <3>2, <3>4
    <3> QED
      BY <3>3, <3>4
  <2>4. UndeliveredStaysInReach'
    BY <2>1, <2>3 DEF UndeliveredStaysInReach, Candidates, FillsOf
  <2>5. WatermarkBehindFeed'
    BY <2>1, <2>2 DEF ReachInv, WatermarkBehindFeed
  <2> QED
    BY <2>1, <2>4, <2>5 DEF ReachInv, PublishedInOrder, CycleLeavesNothing, SentByCycle
<1> QED
  BY <1>1, <1>2, <1>3, <1>4, <1>5, <1>6, <1>7, <1>8 DEF PollStep

LEMMA ReachStep ==
    ASSUME SingleFillOrders, OneFillPerId, TypeInv, RowsRecordDeliveries, ReachInv, [Next]_vars
    PROVE  ReachInv'
<1>1. ASSUME NEW t \in Threads, (\E fills \in SUBSET Fills : Lookup(t, fills)) \/ ListenerStep(t)
      PROVE  ReachInv'
  <2>1. delivered \subseteq delivered' /\ UNCHANGED <<published, watermark, ppc, fresh, deferred>>
    BY <1>1 DEF Lookup, ListenerStep, Register, NotifySucceeds, NotifyFails, Mark, Release,
                Receives, Misses, store, poller
  <2> QED
    BY <2>1, ReachKept
<1>2. ASSUME NEW r \in Trades, Publish(r) PROVE ReachInv'
  <2>1. /\ published' = published \cup {r} /\ r \notin published
        /\ \A q \in Trades : TradeTime[q] < TradeTime[r] => q \in published
        /\ UNCHANGED <<watermark, ppc, fresh, deferred, delivered>>
    BY <1>2 DEF Publish, store, poller
  <2>2. PublishedInOrder' /\ WatermarkBehindFeed' /\ CycleLeavesNothing' /\ SentByCycle'
    BY <2>1 DEF ReachInv, PublishedInOrder, WatermarkBehindFeed, CycleLeavesNothing,
                SentByCycle, FillsOf
  <2>3. TradeTime[r] >= watermark
    <3>1. TradeTime[r] \in Nat /\ watermark \in Nat /\ \A q \in published : TradeTime[q] \in Nat
      BY DEF TypeInv, TypeOK
    <3>2. \A q \in published : ~(TradeTime[r] < TradeTime[q])
      BY <2>1 DEF ReachInv, PublishedInOrder
    <3> QED
      BY <3>1, <3>2 DEF ReachInv, WatermarkBehindFeed
  <2> QED
    BY <2>1, <2>2, <2>3 DEF ReachInv, UndeliveredStaysInReach, Candidates, FillsOf
<1>3. CASE Crash
  <2>1. /\ fresh' = {} /\ ppc' = "idle" /\ UNCHANGED <<published, watermark, delivered>>
    BY <1>3 DEF Crash, store
  <2> QED
    BY <2>1 DEF ReachInv, PublishedInOrder, WatermarkBehindFeed, CycleLeavesNothing,
                SentByCycle, UndeliveredStaysInReach, Candidates, FillsOf
<1>4. CASE Tick \/ UNCHANGED vars
  <2>1. delivered \subseteq delivered' /\ UNCHANGED <<published, watermark, ppc, fresh, deferred>>
    BY <1>4 DEF Tick, vars, store, poller
  <2> QED
    BY <2>1, ReachKept
<1> QED
  BY <1>1, <1>2, <1>3, <1>4, ReachPollStep DEF Next

LEMMA CyclesLeaveNothing == SingleFillOrders /\ OneFillPerId => (SafetySpec => []ReachInv)
<1> SUFFICES ASSUME SingleFillOrders, OneFillPerId PROVE SafetySpec => []ReachInv
  OBVIOUS
<1>1. Init => ReachInv
  BY DEF Init, ReachInv, PublishedInOrder, WatermarkBehindFeed, CycleLeavesNothing,
         SentByCycle, UndeliveredStaysInReach
<1>2. TypeInv /\ RecordInv /\ ReachInv /\ [Next]_vars => ReachInv'
  BY ReachStep DEF RecordInv
<1> QED
  BY <1>1, <1>2, WellTyped, TableIsHonest, PTL DEF SafetySpec

(* A fill no receiver has stays ahead of the watermark, whatever was deferred, failed or
   crashed (poll_once), as long as an order id the two feeds share is of an order that
   was matched once, and an execution id of one fill. *)
THEOREM StaysInReach == SingleFillOrders /\ OneFillPerId => (SafetySpec => []UndeliveredStaysInReach)
<1>1. ReachInv => UndeliveredStaysInReach
  BY DEF ReachInv
<1> QED
  BY <1>1, CyclesLeaveNothing, PTL
-----------------------------------------------------------------------------
(* What RelayPromise says of the relay.  A cycle looks only at trades the watermark lets
   through, and drops some on its way. *)
CycleAtWatermark == \A r \in fresh \cup deferred : TradeTime[r] >= watermark

(* The watermark never goes back, and never past a trade the cycle leaves for the next. *)
LEMMA WatermarkMovesOn ==
    ASSUME TypeInv, CycleAtWatermark, ppc = "watermark"
    PROVE  NewWatermark \in Nat /\ NewWatermark >= watermark
BY NewWatermarkIsBounded DEF TypeInv, TypeOK, CycleShape, CycleAtWatermark

LEMMA CycleStep == TypeInv /\ CycleAtWatermark /\ [Next]_vars => CycleAtWatermark'
<1> SUFFICES ASSUME TypeInv, CycleAtWatermark, [Next]_vars PROVE CycleAtWatermark'
  OBVIOUS
<1>1. ASSUME NEW t \in Threads, (\E fills \in SUBSET Fills : Lookup(t, fills)) \/ ListenerStep(t)
      PROVE  UNCHANGED <<fresh, deferred, watermark>>
  BY <1>1 DEF Lookup, ListenerStep, Register, NotifySucceeds, NotifyFails, Mark, Release,
              store, poller
<1>2. Tick \/ (\E r \in Trades : Publish(r)) \/ UNCHANGED vars
         => UNCHANGED <<fresh, deferred, watermark>>
  BY DEF Tick, Publish, vars, store, poller
<1>3. Crash \/ PollNotifyFails \/ AdvanceWatermark => fresh' \cup deferred' = {}
  BY DEF Crash, PollNotifyFails, AdvanceWatermark
<1>4. ExecDedup \/ OrderDedup \/ Defer \/ PollNotifySucceeds \/ PollMark
         => fresh' \cup deferred' \subseteq fresh \cup deferred /\ watermark' = watermark
  BY DEF ExecDedup, OrderDedup, Defer, PollNotifySucceeds, PollMark, GoOn, store
<1>5. CASE Fetch
  <2>1. fresh' = Candidates /\ deferred' = deferred /\ watermark' = watermark
    BY <1>5 DEF Fetch, store
  <2> QED
    BY <2>1 DEF CycleAtWatermark, Candidates
<1> QED
  BY <1>1, <1>2, <1>3, <1>4, <1>5 DEF CycleAtWatermark, Next, PollStep

LEMMA CyclesStartAtWatermark == SafetySpec => []CycleAtWatermark
<1>1. Init => CycleAtWatermark
  BY DEF Init, CycleAtWatermark
<1> QED
  BY <1>1, CycleStep, WellTyped, PTL DEF SafetySpec

(* The watermark only moves forward, whatever a cycle sent, deferred or failed to send, and
   wherever a restart fell (poll_once, set_last_poll_ts). *)
THEOREM WatermarkNeverGoesBack == SafetySpec => [][watermark' >= watermark]_vars
<1>1. TypeInv /\ CycleAtWatermark /\ [Next]_vars => [watermark' >= watermark]_vars
  <2> SUFFICES ASSUME TypeInv, CycleAtWatermark, [Next]_vars PROVE watermark' >= watermark
    OBVIOUS
  <2>1. watermark \in Nat
    BY DEF TypeInv, TypeOK
  <2>2. CASE AdvanceWatermark
    BY <2>2, WatermarkMovesOn DEF AdvanceWatermark
  <2>3. CASE ~AdvanceWatermark
    <3>1. watermark' = watermark
      BY <2>3 DEF Next, PollStep, Publish, Tick, Lookup, ListenerStep, Register, NotifySucceeds,
                  NotifyFails, Mark, Release, Fetch, ExecDedup, OrderDedup, Defer,
                  PollNotifySucceeds, PollNotifyFails, PollMark, Crash, vars, store
    <3> QED
      BY <2>1, <3>1
  <2> QED
    BY <2>2, <2>3
<1> QED
  BY <1>1, WellTyped, CyclesStartAtWatermark, PTL DEF SafetySpec

LEMMA InHandType ==
    ASSUME TypeOK
    PROVE  /\ InHand \in [Threads \cup {Poller} -> SUBSET Fills]
           /\ InHand[Poller] = (IF ppc \in {"order_dedup", "defer", "notify"}
                                THEN FillsOf(fresh) ELSE {})
           /\ \A t \in Threads :
                  InHand[t] = IF lpc[t] \in {"register", "notify"} THEN batch[t] ELSE {}
BY ThreadsAssumption DEF InHand, TypeOK, FillsOf

LEMMA InHandTypeNext ==
    ASSUME TypeOK'
    PROVE  /\ InHand' \in [Threads \cup {Poller} -> SUBSET Fills]
           /\ InHand'[Poller] = (IF ppc' \in {"order_dedup", "defer", "notify"}
                                 THEN FillsOf(fresh') ELSE {})
           /\ \A t \in Threads :
                  InHand'[t] = IF lpc'[t] \in {"register", "notify"} THEN batch'[t] ELSE {}
BY ThreadsAssumption DEF InHand, TypeOK, FillsOf

(* A step after which everybody has in hand what they had, but one sender s. *)
LEMMA OneHandMoves ==
    ASSUME TypeOK, TypeOK', NEW s \in Threads \cup {Poller},
           \A u \in (Threads \cup {Poller}) \ {s} : InHand'[u] = InHand[u]
    PROVE  InHand' = [InHand EXCEPT ![s] = InHand'[s]]
<1>1. /\ InHand \in [Threads \cup {Poller} -> SUBSET Fills]
      /\ InHand' \in [Threads \cup {Poller} -> SUBSET Fills]
  BY InHandType, InHandTypeNext
<1> HIDE DEF InHand
<1> QED
  BY <1>1

LEMMA PollerHands ==
    ASSUME TypeOK, TypeOK', UNCHANGED <<lpc, batch>>
    PROVE  \A t \in Threads : InHand'[t] = InHand[t]
<1>1. \A t \in Threads :
          /\ InHand[t] = (IF lpc[t] \in {"register", "notify"} THEN batch[t] ELSE {})
          /\ InHand'[t] = (IF lpc'[t] \in {"register", "notify"} THEN batch'[t] ELSE {})
  BY InHandType, InHandTypeNext
<1> QED
  BY <1>1

LEMMA ListenerHands ==
    ASSUME TypeOK, TypeOK', UNCHANGED <<ppc, fresh>>, NEW t \in Threads,
           \A u \in Threads \ {t} : lpc'[u] = lpc[u] /\ batch'[u] = batch[u]
    PROVE  \A u \in (Threads \cup {Poller}) \ {t} : InHand'[u] = InHand[u]
<1>1. \A u \in Threads :
          /\ InHand[u] = (IF lpc[u] \in {"register", "notify"} THEN batch[u] ELSE {})
          /\ InHand'[u] = (IF lpc'[u] \in {"register", "notify"} THEN batch'[u] ELSE {})
  BY InHandType, InHandTypeNext
<1>2. InHand[Poller] = (IF ppc \in {"order_dedup", "defer", "notify"} THEN FillsOf(fresh) ELSE {})
      /\ InHand'[Poller] = (IF ppc' \in {"order_dedup", "defer", "notify"}
                            THEN FillsOf(fresh') ELSE {})
  BY InHandType, InHandTypeNext
<1>3. InHand'[Poller] = InHand[Poller]
  BY <1>2 DEF FillsOf
<1> QED
  BY <1>1, <1>3

(* Steps of a listener send. *)
LEMMA SendKeepsPromise ==
    ASSUME SharedIds, OneFillPerId, TypeInv, TypeInv', RecordInv, RepeatInv, NEW t \in Threads,
           (\E fills \in SUBSET Fills : Lookup(t, fills)) \/ ListenerStep(t)
    PROVE  Relay!PromiseNext \/ UNCHANGED Relay!promiseVars
<1>a. TypeOK /\ TypeOK'
  BY DEF TypeInv
<1>b. /\ InHand[t] = (IF lpc[t] \in {"register", "notify"} THEN batch[t] ELSE {})
      /\ InHand'[t] = (IF lpc'[t] \in {"register", "notify"} THEN batch'[t] ELSE {})
      /\ InHand \in [Threads \cup {Poller} -> SUBSET Fills]
      /\ InHand' \in [Threads \cup {Poller} -> SUBSET Fills]
  BY <1>a, InHandType, InHandTypeNext
<1>c. /\ UNCHANGED <<published, watermark, ppc, fresh>> /\ Candidates' = Candidates
      /\ \A u \in Threads \ {t} : lpc'[u] = lpc[u] /\ batch'[u] = batch[u]
  BY <1>a DEF Lookup, ListenerStep, Register, NotifySucceeds, NotifyFails, Mark, Release,
              Candidates, TypeOK, store, poller
<1>d. InHand' = [InHand EXCEPT ![t] = InHand'[t]]
  BY <1>a, <1>c, ListenerHands, OneHandMoves
<1> HIDE DEF InHand, Candidates
<1>e. ASSUME InHand'[t] = InHand[t] PROVE InHand' = InHand
  BY <1>b, <1>d, <1>e
<1>1. ASSUME NEW fills \in SUBSET Fills, Lookup(t, fills) PROVE Relay!TakeUp(t)
  <2>1. /\ lpc[t] = "idle" /\ lpc'[t] = "register"
        /\ batch'[t] = {f \in fills : ~AlreadyProcessed(f)}
        /\ UNCHANGED <<delivered, marked>>
    BY <1>1, <1>a DEF Lookup, TypeOK
  <2>2. \A f \in marked : AlreadyProcessed(f)
    BY <1>a, ListenerRecognises DEF RecordInv, RepeatInv, TypeOK, OneFillPerId
  <2>3. InHand[t] = {} /\ InHand'[t] \in SUBSET (Fills \ marked)
    BY <1>b, <2>1, <2>2
  <2> QED
    BY <1>c, <1>d, <2>1, <2>3 DEF Relay!TakeUp
<1>2. CASE Register(t)
  <2>1. InHand'[t] = InHand[t] /\ UNCHANGED <<delivered, marked>>
    BY <1>2, <1>a, <1>b DEF Register, TypeOK
  <2> QED
    BY <1>c, <1>e, <2>1 DEF Relay!promiseVars
<1>3. CASE NotifySucceeds(t) \/ NotifyFails(t)
  <2>1. /\ lpc[t] = "notify" /\ lpc'[t] \in {"mark", "release"}
        /\ delivered' \in {delivered, delivered \cup batch[t]} /\ marked' = marked
    BY <1>3, <1>a DEF NotifySucceeds, NotifyFails, Receives, Misses, TypeOK
  <2>2. InHand[t] = batch[t] /\ InHand'[t] = {}
    BY <1>b, <2>1
  <2>3. Relay!Send(t)
    BY <1>c, <1>d, <2>1, <2>2 DEF Relay!Send
  <2> QED
    BY <2>3 DEF Relay!PromiseNext
<1>4. CASE Mark(t)
  <2>1. /\ lpc[t] = "mark" /\ lpc'[t] = "release"
        /\ delivered' = delivered /\ marked' = marked \cup batch[t]
    BY <1>4, <1>a DEF Mark, TypeOK
  <2>2. InHand'[t] = InHand[t] /\ batch[t] \in SUBSET delivered
    BY <1>b, <2>1 DEF RecordInv, SentBeforeMarked
  <2>3. Relay!Record
    BY <1>c, <1>e, <2>1, <2>2 DEF Relay!Record
  <2> QED
    BY <2>3 DEF Relay!PromiseNext
<1>5. CASE Release(t)
  <2>1. InHand'[t] = InHand[t] /\ UNCHANGED <<delivered, marked>>
    BY <1>5, <1>a, <1>b DEF Release, TypeOK
  <2> QED
    BY <1>c, <1>e, <2>1 DEF Relay!promiseVars
<1> QED
  BY <1>1, <1>2, <1>3, <1>4, <1>5 DEF ListenerStep, Relay!PromiseNext

(* Steps of a poll cycle. *)
LEMMA CycleKeepsPromise ==
    ASSUME TypeInv, TypeInv', RecordInv, RepeatInv, ReachInv, ReachInv', CycleAtWatermark,
           PollStep
    PROVE  Relay!PromiseNext \/ UNCHANGED Relay!promiseVars
<1>a. TypeOK /\ TypeOK' /\ CycleShape
  BY DEF TypeInv
<1>b. /\ InHand[Poller] = (IF ppc \in {"order_dedup", "defer", "notify"}
                           THEN FillsOf(fresh) ELSE {})
      /\ InHand'[Poller] = (IF ppc' \in {"order_dedup", "defer", "notify"}
                            THEN FillsOf(fresh') ELSE {})
      /\ InHand \in [Threads \cup {Poller} -> SUBSET Fills]
      /\ InHand' \in [Threads \cup {Poller} -> SUBSET Fills]
  BY <1>a, InHandType, InHandTypeNext
<1>c. UNCHANGED <<published, lpc, batch>>
  BY DEF PollStep, Fetch, ExecDedup, OrderDedup, Defer, PollNotifySucceeds, PollNotifyFails,
         PollMark, AdvanceWatermark, listener
<1>d. InHand' = [InHand EXCEPT ![Poller] = InHand'[Poller]]
      /\ \A t \in Threads : InHand'[t] = InHand[t]
  BY <1>a, <1>c, PollerHands, OneHandMoves
<1>e. ASSUME watermark' = watermark PROVE Candidates' = Candidates
  BY <1>c, <1>e DEF Candidates
<1> HIDE DEF InHand, Candidates
<1>f. ASSUME InHand'[Poller] = InHand[Poller] PROVE InHand' = InHand
  BY <1>b, <1>d, <1>f
<1>g. FillsOf({}) = {}
  BY DEF FillsOf
<1>1. CASE Fetch
  <2>1. ppc = "idle" /\ ppc' = "exec_dedup" /\ UNCHANGED <<watermark, delivered, marked>>
    BY <1>1 DEF Fetch, store
  <2> QED
    BY <1>b, <1>c, <1>e, <1>f, <2>1 DEF Relay!promiseVars
<1>2. CASE ExecDedup
  <2>1. /\ ppc = "exec_dedup" /\ UNCHANGED <<watermark, delivered, marked>>
        /\ fresh' = {r \in fresh : ~Present(RestId[r])}
    BY <1>2 DEF ExecDedup, GoOn, store
  <2>2. FillsOf(fresh') \in SUBSET (Fills \ marked)
    BY <2>1 DEF RepeatInv, FillsOf
  <2>3. InHand[Poller] = {} /\ InHand'[Poller] \in SUBSET (Fills \ marked)
    BY <1>b, <2>1, <2>2
  <2>4. Relay!TakeUp(Poller)
    BY <1>c, <1>d, <1>e, <2>1, <2>3 DEF Relay!TakeUp
  <2> QED
    BY <2>4 DEF Relay!PromiseNext
<1>3. CASE OrderDedup \/ Defer
  <2>1. /\ ppc \in {"order_dedup", "defer"} /\ UNCHANGED <<watermark, delivered, marked>>
        /\ fresh' \subseteq fresh
    BY <1>3 DEF OrderDedup, Defer, GoOn, store
  <2>2. FillsOf(fresh') \subseteq FillsOf(fresh)
    BY <2>1 DEF FillsOf
  <2>3. InHand'[Poller] \subseteq InHand[Poller]
    BY <1>b, <2>1, <2>2
  <2>4. Relay!LetGo
    BY <1>b, <1>c, <1>d, <1>e, <2>1, <2>3 DEF Relay!LetGo
  <2> QED
    BY <2>4 DEF Relay!PromiseNext
<1>4. CASE PollNotifySucceeds \/ PollNotifyFails
  <2>1. /\ ppc = "notify" /\ ppc' \in {"mark", "idle"} /\ UNCHANGED <<watermark, marked>>
        /\ delivered' \in {delivered, delivered \cup FillsOf(fresh)}
    BY <1>4 DEF PollNotifySucceeds, PollNotifyFails, Receives, Misses, store
  <2>2. InHand[Poller] = FillsOf(fresh) /\ InHand'[Poller] = {}
    BY <1>b, <2>1
  <2>3. Relay!Send(Poller)
    BY <1>c, <1>d, <1>e, <2>1, <2>2 DEF Relay!Send
  <2> QED
    BY <2>3 DEF Relay!PromiseNext
<1>5. CASE PollMark
  <2>1. /\ ppc = "mark" /\ ppc' = "watermark" /\ UNCHANGED <<watermark, delivered>>
        /\ marked' = marked \cup FillsOf(fresh)
    BY <1>5 DEF PollMark
  <2>2. InHand'[Poller] = InHand[Poller] /\ FillsOf(fresh) \in SUBSET delivered
    BY <1>b, <2>1 DEF RecordInv, SentBeforeMarked
  <2>3. Relay!Record
    BY <1>c, <1>e, <1>f, <2>1, <2>2 DEF Relay!Record
  <2> QED
    BY <2>3 DEF Relay!PromiseNext
<1>6. CASE AdvanceWatermark
  <2>1. /\ ppc = "watermark" /\ ppc' = "idle" /\ watermark' = NewWatermark
        /\ UNCHANGED <<delivered, marked>>
    BY <1>6 DEF AdvanceWatermark
  <2>2. InHand' = InHand
    BY <1>b, <1>f, <2>1
  <2> DEFINE passed == Candidates \ Candidates'
  <2>3. Candidates' \subseteq Candidates
    <3>1. watermark' \in Nat /\ watermark' >= watermark /\ watermark \in Nat
      BY <1>a, <2>1, WatermarkMovesOn DEF TypeOK
    <3>2. \A r \in published : TradeTime[r] \in Nat
      BY <1>a DEF TypeOK
    <3> QED
      BY <1>c, <3>1, <3>2 DEF Candidates
  <2>4. passed \in SUBSET Candidates /\ Candidates' = Candidates \ passed
    BY <2>3
  <2>5. Relay!Delivered(passed)
    <3> SUFFICES ASSUME NEW f \in Fills, TradeOf[f] \in passed PROVE f \in delivered
      BY DEF Relay!Delivered
    <3>1. TradeOf[f] \in published' /\ TradeOf[f] \notin Candidates'
      BY <1>c DEF Candidates
    <3>2. FillsOf({TradeOf[f]}) \subseteq delivered
      BY <2>1, <3>1 DEF ReachInv, UndeliveredStaysInReach, FillsOf
    <3> QED
      BY <3>2 DEF FillsOf
  <2>6. Relay!PassBy
    BY <1>c, <2>1, <2>2, <2>4, <2>5 DEF Relay!PassBy
  <2> QED
    BY <2>6 DEF Relay!PromiseNext
<1> QED
  BY <1>1, <1>2, <1>3, <1>4, <1>5, <1>6 DEF PollStep

LEMMA PromiseStep ==
    ASSUME SharedIds, OneFillPerId, TypeInv, TypeInv', RecordInv, RepeatInv, ReachInv, ReachInv',
           CycleAtWatermark, [Next]_vars
    PROVE  Relay!PromiseNext \/ UNCHANGED Relay!promiseVars
<1>a. TypeOK /\ TypeOK'
  BY DEF TypeInv
<1>b. /\ InHand \in [Threads \cup {Poller} -> SUBSET Fills]
      /\ InHand' \in [Threads \cup {Poller} -> SUBSET Fills]
  BY <1>a, InHandType, InHandTypeNext
<1>1. ASSUME NEW r \in Trades, Publish(r) PROVE Relay!Report(r)
  <2>1. /\ published' = published \cup {r} /\ r \notin published
        /\ \A q \in Trades : TradeTime[q] < TradeTime[r] => q \in published
        /\ UNCHANGED <<watermark, ppc, fresh, lpc, batch, delivered, marked>>
    BY <1>1 DEF Publish, store, poller, listener
  <2>2. TradeTime[r] >= watermark
    <3>1. TradeTime[r] \in Nat /\ watermark \in Nat /\ \A q \in published : TradeTime[q] \in Nat
      BY <1>a DEF TypeOK
    <3>2. \A q \in published : ~(TradeTime[r] < TradeTime[q])
      BY <2>1 DEF ReachInv, PublishedInOrder
    <3> QED
      BY <3>1, <3>2 DEF ReachInv, WatermarkBehindFeed
  <2>3. Candidates' = Candidates \cup {r}
    BY <2>1, <2>2 DEF Candidates
  <2>4. InHand' = InHand
    BY <2>1 DEF InHand, FillsOf
  <2> QED
    BY <2>1, <2>3, <2>4 DEF Relay!Report
<1>2. CASE Crash
  <2>1. /\ lpc' = [u \in Threads |-> "idle"] /\ ppc' = "idle"
        /\ UNCHANGED <<published, watermark, delivered, marked>>
    BY <1>2 DEF Crash, store
  <2>2. \A s \in Threads \cup {Poller} : InHand'[s] = {}
    BY <2>1 DEF InHand
  <2>3. Candidates' = Candidates
    BY <2>1 DEF Candidates
  <2> HIDE DEF InHand
  <2>4. Relay!LetGo
    BY <1>b, <2>1, <2>2, <2>3 DEF Relay!LetGo
  <2> QED
    BY <2>4 DEF Relay!PromiseNext
<1>3. CASE Tick \/ UNCHANGED vars
  <2>1. UNCHANGED <<published, watermark, ppc, fresh, lpc, batch, delivered, marked>>
    BY <1>3 DEF Tick, vars, store, poller, listener
  <2> QED
    BY <2>1 DEF Relay!promiseVars, InHand, Candidates, FillsOf
<1> QED
  BY <1>1, <1>2, <1>3, SendKeepsPromise, CycleKeepsPromise DEF Next, Relay!PromiseNext

(* "At-least-once, never at-most-once" (README.md, architecture): the two paths, every
   retry and every restart together implement RelayPromise.  A trade is looked at no more
   only once all of it is delivered, a fill is recorded only once it is delivered, and
   neither path takes up a fill that is on record; for feeds that name executions, and
   each alone, by ids the other knows, and share order ids only of orders that were matched once. *)
THEOREM ImplementsPromise ==
    SharedIds /\ OneFillPerId /\ SingleFillOrders => (SafetySpec => KeepsItsPromise)
<1> SUFFICES ASSUME SharedIds, OneFillPerId, SingleFillOrders PROVE SafetySpec => KeepsItsPromise
  OBVIOUS
<1>1. Init => Relay!PromiseInit
  BY DEF Init, Relay!PromiseInit, Candidates, InHand
<1>2. TypeInv /\ TypeInv' /\ RecordInv /\ RepeatInv /\ ReachInv /\ ReachInv' /\ CycleAtWatermark
        /\ [Next]_vars => [Relay!PromiseNext]_(Relay!promiseVars)
  BY PromiseStep
<1> QED
  BY <1>1, <1>2, WellTyped, TableIsHonest, RecordIsShared, CyclesLeaveNothing,
     CyclesStartAtWatermark, PTL DEF SafetySpec, KeepsItsPromise, Relay!Promise
===============================================================================
