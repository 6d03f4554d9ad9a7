---------------------------- MODULE BookTradeProofs ----------------------------
(***************************************************************************)
(* Theorems about the matching of book trades, for any number of events,   *)
(* keys, nights, workers and restarts.                                     *)
(***************************************************************************)
EXTENDS BookTrade, FiniteSetTheorems, TLAPS

USE BookTradeAssumption

-----------------------------------------------------------------------------
(* How many reports of one key a worker is about to notify: a number, and not 0
   when there is one. *)
LEMMA CountOfReports ==
    ASSUME TypeOK, NEW w \in Workers, NEW k \in Keys
    PROVE  /\ CountOf(w, k) \in Nat
           /\ OfKey(kept[w], k) # {} => CountOf(w, k) >= 1
<1>1. OfKey(kept[w], k) \in SUBSET Events
  BY DEF TypeOK, OfKey
<1>2. IsFiniteSet(OfKey(kept[w], k))
  BY <1>1, FS_Subset
<1> QED
  BY <1>2, FS_CardinalityType, FS_EmptySet DEF CountOf

(* The other path is a path. *)
LEMMA OtherIsAPath == ASSUME NEW p \in Paths PROVE Other(p) \in Paths
BY DEF Other, Paths

(* A receiver getting a batch adds to its path's counts, whatever becomes of the call. *)
LEMMA ReceivesCounts ==
    ASSUME TypeOK, NEW w \in Workers, Receives(w)
    PROVE  /\ notified' \in [Paths -> [Keys -> Nat]]
           /\ told' \in SUBSET Events
           /\ \A p \in Paths, k \in Keys :
                  notified'[p][k] = notified[p][k] + IF p = PathOf[w] THEN CountOf(w, k) ELSE 0
<1> DEFINE more == [k \in Keys |-> notified[PathOf[w]][k] + CountOf(w, k)]
<1>1. notified' = [notified EXCEPT ![PathOf[w]] = more]
  BY DEF Receives
<1>2. more \in [Keys -> Nat]
  <2>1. \A k \in Keys : CountOf(w, k) \in Nat
    BY CountOfReports
  <2>2. PathOf[w] \in Paths
    OBVIOUS
  <2> QED
    BY <2>1, <2>2 DEF TypeOK
<1>3. told' \in SUBSET Events
  BY DEF TypeOK, Receives
<1>4. \A p \in Paths, k \in Keys :
          notified'[p][k] = notified[p][k] + IF p = PathOf[w] THEN CountOf(w, k) ELSE 0
  BY <1>1, <1>2 DEF TypeOK
<1> QED
  BY <1>1, <1>2, <1>3, <1>4 DEF TypeOK

(* Type correctness. *)
THEOREM TypeCorrect == Spec => []TypeOK
<1>1. Init => TypeOK
  BY DEF Init, TypeOK
<1>2. TypeOK /\ [Next]_vars => TypeOK'
  <2> SUFFICES ASSUME TypeOK, [Next]_vars PROVE TypeOK'
    OBVIOUS
  <2>1. ASSUME NEW w \in Workers, NEW events \in SUBSET Events, Start(w, events) PROVE TypeOK'
    BY <2>1 DEF TypeOK, Start
  <2>2. ASSUME NEW w \in Workers, NEW e \in Events, ConsumeHit(w, e) PROVE TypeOK'
    BY <2>2, OtherIsAPath DEF TypeOK, ConsumeHit, DeletedRow
  <2>3. ASSUME NEW w \in Workers, NEW e \in Events, ConsumeMiss(w, e) PROVE TypeOK'
    BY <2>3 DEF TypeOK, ConsumeMiss
  <2>4. ASSUME NEW w \in Workers, NothingNew(w) PROVE TypeOK'
    BY <2>4 DEF TypeOK, NothingNew
  <2>5. ASSUME NEW w \in Workers, NotifySucceeds(w) PROVE TypeOK'
    <3>1. Receives(w)
      BY <2>5 DEF NotifySucceeds
    <3> QED
      BY <2>5, <3>1, ReceivesCounts DEF TypeOK, NotifySucceeds
  <2>6. ASSUME NEW w \in Workers, NotifyFails(w) PROVE TypeOK'
    <3>1. notified' \in [Paths -> [Keys -> Nat]] /\ told' \in SUBSET Events
      BY <2>6, ReceivesCounts DEF NotifyFails, TypeOK
    <3> QED
      BY <2>6, <3>1 DEF TypeOK, NotifyFails
  <2>7. ASSUME NEW w \in Workers, MarkExecIds(w) PROVE TypeOK'
    BY <2>7 DEF TypeOK, MarkExecIds, ReportsOf
  <2>8. ASSUME NEW w \in Workers, MarkKeys(w) PROVE TypeOK'
    BY <2>8 DEF TypeOK, MarkKeys
  <2>9. ASSUME NEW p \in Paths, NEW k \in Keys, Outlive(p, k) PROVE TypeOK'
    BY <2>9 DEF TypeOK, Outlive
  <2>10. CASE NextNight
    BY <2>10 DEF TypeOK, NextNight
  <2>11. CASE Crash
    BY <2>11 DEF TypeOK, Crash
  <2>12. CASE UNCHANGED vars
    BY <2>12 DEF TypeOK, vars
  <2> QED
    BY <2>1, <2>2, <2>3, <2>4, <2>5, <2>6, <2>7, <2>8, <2>9, <2>10, <2>11, <2>12
       DEF Next, Step
<1> QED
  BY <1>1, <1>2, PTL DEF Spec

-----------------------------------------------------------------------------
(* Workers that have notified a report of the key and have yet to write its row. *)
Owing(p, k) ==
    {w \in Workers : /\ PathOf[w] = p
                     /\ wpc[w] \in {"mark", "keys"}
                     /\ OfKey(kept[w], k) # {}}

RowCount(p, k) == IF keyRow[p][k] = "none" THEN 0 ELSE 1

(* Suppressions, the row and the rows to come are covered by notifications. *)
EveryRowIsPaidFor ==
    \A p \in Paths, k \in Keys :
        consumed[p][k] + RowCount(p, k) + Cardinality(Owing(p, k)) <= notified[p][k]

LEMMA OwingIsFinite ==
    ASSUME NEW p, NEW k
    PROVE  IsFiniteSet(Owing(p, k)) /\ Cardinality(Owing(p, k)) \in Nat
<1>1. Owing(p, k) \in SUBSET Workers
  BY DEF Owing
<1> QED
  BY <1>1, FS_Subset, FS_CardinalityType

(* A worker that is not about to write a row, and is not afterwards, changes nothing
   in who owes one. *)
LEMMA OwingUnchanged ==
    ASSUME NEW w \in Workers, NEW p, NEW k,
           wpc' \in [Workers -> {"idle", "consume", "mark", "keys"}],
           wpc[w] \notin {"mark", "keys"}, wpc'[w] \notin {"mark", "keys"},
           \A v \in Workers \ {w} : wpc'[v] = wpc[v] /\ kept'[v] = kept[v]
    PROVE  Owing(p, k)' = Owing(p, k)
BY DEF Owing

(* A successful notification: the worker owes a row for every key it has notified. *)
LEMMA NotifyingOwes ==
    ASSUME TypeOK, NEW w \in Workers, NotifySucceeds(w), NEW p \in Paths, NEW k \in Keys
    PROVE  Owing(p, k)' = IF p = PathOf[w] /\ OfKey(kept[w], k) # {}
                          THEN Owing(p, k) \cup {w} ELSE Owing(p, k)
<1>1. /\ kept' = kept
      /\ wpc' = [wpc EXCEPT ![w] = "mark"]
      /\ wpc[w] = "consume"
  BY DEF NotifySucceeds, Ready
<1>2. w \notin Owing(p, k)
  BY <1>1 DEF Owing
<1>3. \A v \in Workers \ {w} : v \in Owing(p, k)' <=> v \in Owing(p, k)
  BY <1>1 DEF Owing, TypeOK
<1>4. w \in Owing(p, k)' <=> p = PathOf[w] /\ OfKey(kept[w], k) # {}
  BY <1>1 DEF Owing, TypeOK
<1> QED
  BY <1>2, <1>3, <1>4 DEF Owing

(* Writing the rows: the worker owes none any more. *)
LEMMA WritingPays ==
    ASSUME TypeOK, NEW w \in Workers, MarkKeys(w), NEW p \in Paths, NEW k \in Keys
    PROVE  /\ Owing(p, k)' = Owing(p, k) \ {w}
           /\ w \in Owing(p, k) <=> p = PathOf[w] /\ OfKey(kept[w], k) # {}
           /\ keyRow'[p][k] = IF w \in Owing(p, k) THEN "live" ELSE keyRow[p][k]
<1>1. /\ kept' = [kept EXCEPT ![w] = {}]
      /\ wpc' = [wpc EXCEPT ![w] = "idle"]
      /\ wpc[w] = "keys"
  BY DEF MarkKeys
<1>2. w \in Owing(p, k) <=> p = PathOf[w] /\ OfKey(kept[w], k) # {}
  BY <1>1 DEF Owing
<1>3. w \notin Owing(p, k)'
  BY <1>1 DEF Owing, TypeOK
<1>4. \A v \in Workers \ {w} : v \in Owing(p, k)' <=> v \in Owing(p, k)
  BY <1>1 DEF Owing, TypeOK
<1>5. keyRow' = [keyRow EXCEPT ![PathOf[w]] =
                    [j \in Keys |-> IF OfKey(kept[w], j) # {} THEN "live"
                                    ELSE keyRow[PathOf[w]][j]]]
  BY DEF MarkKeys, TypeOK
<1>6. keyRow'[p][k] = IF p = PathOf[w] /\ OfKey(kept[w], k) # {} THEN "live"
                      ELSE keyRow[p][k]
  BY <1>5 DEF TypeOK
<1> QED
  BY <1>2, <1>3, <1>4, <1>6 DEF Owing

(* Every step keeps the account in balance. *)
LEMMA StepsKeepTheAccount ==
    ASSUME TypeOK, EveryRowIsPaidFor, [Next]_vars
    PROVE  EveryRowIsPaidFor'
<1> SUFFICES ASSUME NEW p \in Paths, NEW k \in Keys
             PROVE  consumed'[p][k] + RowCount(p, k)' + Cardinality(Owing(p, k)')
                        <= notified'[p][k]
  BY DEF EveryRowIsPaidFor
<1>a. consumed[p][k] + RowCount(p, k) + Cardinality(Owing(p, k)) <= notified[p][k]
  BY DEF EveryRowIsPaidFor
<1>b. consumed[p][k] \in Nat /\ notified[p][k] \in Nat /\ RowCount(p, k) \in {0, 1}
  BY DEF TypeOK, RowCount
<1>c. Cardinality(Owing(p, k)) \in Nat
  BY OwingIsFinite
<1>1. ASSUME NEW w \in Workers, NEW events \in SUBSET Events, Start(w, events)
      PROVE  /\ UNCHANGED <<consumed, keyRow, notified>>
             /\ Owing(p, k)' = Owing(p, k)
  BY <1>1, OwingUnchanged DEF Start, TypeOK
<1>2. ASSUME NEW w \in Workers, NEW e \in Events, ConsumeHit(w, e)
      PROVE  consumed'[p][k] + RowCount(p, k)' + Cardinality(Owing(p, k)') <= notified'[p][k]
  <2> DEFINE q == Other(PathOf[w])
  <2>1. q \in Paths /\ KeyOf[e] \in Keys
    BY OtherIsAPath
  <2>2. Owing(p, k)' = Owing(p, k) /\ notified' = notified
    BY <1>2 DEF ConsumeHit, Owing
  <2>3. CASE p = q /\ k = KeyOf[e]
    <3>1. consumed'[p][k] = consumed[p][k] + 1
      BY <1>2, <2>1, <2>3 DEF ConsumeHit, TypeOK
    <3>2. RowCount(p, k) = 1 /\ RowCount(p, k)' = 0
      BY <1>2, <2>1, <2>3 DEF ConsumeHit, KeyConsumable, DeletedRow, RowCount, TypeOK
    <3> QED
      BY <3>1, <3>2, <2>2, <1>a, <1>b, <1>c
  <2>4. CASE ~(p = q /\ k = KeyOf[e])
    <3>1. consumed'[p][k] = consumed[p][k]
      BY <1>2, <2>1, <2>4 DEF ConsumeHit, TypeOK
    <3>2. keyRow'[p][k] = keyRow[p][k]
      BY <1>2, <2>1, <2>4 DEF ConsumeHit, DeletedRow, TypeOK
    <3> QED
      BY <3>1, <3>2, <2>2, <1>a DEF RowCount
  <2> QED
    BY <2>3, <2>4
<1>3. ASSUME NEW w \in Workers, NEW e \in Events, ConsumeMiss(w, e)
      PROVE  /\ UNCHANGED <<consumed, keyRow, notified>>
             /\ Owing(p, k)' = Owing(p, k)
  BY <1>3, OwingUnchanged DEF ConsumeMiss, TypeOK
<1>4. ASSUME NEW w \in Workers, NothingNew(w)
      PROVE  /\ UNCHANGED <<consumed, keyRow, notified>>
             /\ Owing(p, k)' = Owing(p, k)
  BY <1>4, OwingUnchanged DEF NothingNew, TypeOK
<1>5. ASSUME NEW w \in Workers, NotifySucceeds(w)
      PROVE  consumed'[p][k] + RowCount(p, k)' + Cardinality(Owing(p, k)') <= notified'[p][k]
  <2>1. UNCHANGED <<consumed, keyRow>> /\ Receives(w)
    BY <1>5 DEF NotifySucceeds
  <2>2. notified'[p][k] = notified[p][k] + IF p = PathOf[w] THEN CountOf(w, k) ELSE 0
    BY <2>1, ReceivesCounts
  <2>3. RowCount(p, k)' = RowCount(p, k) /\ consumed'[p][k] = consumed[p][k]
    BY <2>1 DEF RowCount
  <2>4. CASE p = PathOf[w] /\ OfKey(kept[w], k) # {}
    <3>1. Owing(p, k)' = Owing(p, k) \cup {w}
      BY <1>5, <2>4, NotifyingOwes
    <3>2. CountOf(w, k) \in Nat /\ CountOf(w, k) >= 1
      BY <2>4, CountOfReports
    <3>3. IsFiniteSet(Owing(p, k))
      BY OwingIsFinite
    <3>4. Cardinality(Owing(p, k) \cup {w}) \in {Cardinality(Owing(p, k)),
                                                Cardinality(Owing(p, k)) + 1}
      BY <3>3, FS_AddElement
    <3> QED
      BY <3>1, <3>2, <3>4, <2>2, <2>3, <2>4, <1>a, <1>b, <1>c
  <2>5. CASE ~(p = PathOf[w] /\ OfKey(kept[w], k) # {})
    <3>1. Owing(p, k)' = Owing(p, k)
      BY <1>5, <2>5, NotifyingOwes
    <3>2. CountOf(w, k) \in Nat
      BY CountOfReports
    <3> QED
      BY <3>1, <3>2, <2>2, <2>3, <1>a, <1>b, <1>c
  <2> QED
    BY <2>4, <2>5
<1>6. ASSUME NEW w \in Workers, NotifyFails(w)
      PROVE  consumed'[p][k] + RowCount(p, k)' + Cardinality(Owing(p, k)') <= notified'[p][k]
  <2>1. UNCHANGED <<consumed, keyRow>> /\ (Receives(w) \/ UNCHANGED notified)
    BY <1>6 DEF NotifyFails
  <2>2. CountOf(w, k) \in Nat
    BY CountOfReports
  <2>3. notified'[p][k] \in Nat /\ notified'[p][k] >= notified[p][k]
    BY <2>1, <2>2, <1>b, ReceivesCounts
  <2>4. Owing(p, k)' = Owing(p, k)
    BY <1>6, OwingUnchanged DEF NotifyFails, Ready, TypeOK
  <2>5. RowCount(p, k)' = RowCount(p, k) /\ consumed'[p][k] = consumed[p][k]
    BY <2>1 DEF RowCount
  <2> QED
    BY <2>3, <2>4, <2>5, <1>a, <1>b, <1>c
<1>7. ASSUME NEW w \in Workers, MarkExecIds(w)
      PROVE  /\ UNCHANGED <<consumed, keyRow, notified>>
             /\ Owing(p, k)' = Owing(p, k)
  BY <1>7 DEF MarkExecIds, Owing, TypeOK
<1>8. ASSUME NEW w \in Workers, MarkKeys(w)
      PROVE  consumed'[p][k] + RowCount(p, k)' + Cardinality(Owing(p, k)') <= notified'[p][k]
  <2>1. UNCHANGED <<consumed, notified>>
    BY <1>8 DEF MarkKeys
  <2>2. CASE w \in Owing(p, k)
    <3>1. Cardinality(Owing(p, k)') = Cardinality(Owing(p, k)) - 1
      BY <1>8, <2>2, WritingPays, OwingIsFinite, FS_RemoveElement
    <3>2. RowCount(p, k)' = 1
      BY <1>8, <2>2, WritingPays DEF RowCount
    <3> QED
      BY <2>1, <3>1, <3>2, <1>a, <1>b, <1>c
  <2>3. CASE w \notin Owing(p, k)
    <3>1. Owing(p, k)' = Owing(p, k) \ {w} /\ keyRow'[p][k] = keyRow[p][k]
      BY <1>8, <2>3, WritingPays
    <3>2. Owing(p, k)' = Owing(p, k)
      BY <3>1, <2>3
    <3> QED
      BY <2>1, <3>1, <3>2, <1>a DEF RowCount
  <2> QED
    BY <2>2, <2>3
<1>9. ASSUME NEW q \in Paths, NEW j \in Keys, Outlive(q, j)
      PROVE  /\ UNCHANGED <<consumed, notified>>
             /\ RowCount(p, k)' = RowCount(p, k)
             /\ Owing(p, k)' = Owing(p, k)
  BY <1>9 DEF Outlive, RowCount, Owing, TypeOK
<1>10. ASSUME NextNight
       PROVE  /\ UNCHANGED <<consumed, keyRow, notified>>
              /\ Owing(p, k)' = Owing(p, k)
  BY <1>10 DEF NextNight, Owing
<1>11. ASSUME Crash
       PROVE  consumed'[p][k] + RowCount(p, k)' + Cardinality(Owing(p, k)') <= notified'[p][k]
  <2>1. UNCHANGED <<consumed, keyRow, notified>>
    BY <1>11 DEF Crash
  <2>2. Owing(p, k)' = {}
    BY <1>11 DEF Crash, Owing
  <2>3. Cardinality(Owing(p, k)') = 0
    BY <2>2, FS_EmptySet
  <2>4. RowCount(p, k)' = RowCount(p, k)
    BY <2>1 DEF RowCount
  <2> QED
    BY <2>1, <2>3, <2>4, <1>a, <1>b, <1>c
<1>12. ASSUME UNCHANGED vars
       PROVE  /\ UNCHANGED <<consumed, keyRow, notified>>
              /\ Owing(p, k)' = Owing(p, k)
  BY <1>12 DEF vars, Owing
<1>d. ASSUME UNCHANGED <<consumed, notified>>, RowCount(p, k)' = RowCount(p, k),
             Owing(p, k)' = Owing(p, k)
      PROVE  consumed'[p][k] + RowCount(p, k)' + Cardinality(Owing(p, k)') <= notified'[p][k]
  BY <1>d, <1>a
<1>e. ASSUME UNCHANGED keyRow PROVE RowCount(p, k)' = RowCount(p, k)
  BY <1>e DEF RowCount
<1> QED
  BY <1>1, <1>2, <1>3, <1>4, <1>5, <1>6, <1>7, <1>8, <1>9, <1>10, <1>11, <1>12, <1>d, <1>e
     DEF Next, Step

(* A row stands for a notification that no suppression has used up, and so do the rows
   still to be written: the strengthening that makes SuppressionIsPaidFor inductive. *)
THEOREM AccountBalances == Spec => []EveryRowIsPaidFor
<1>1. Init => EveryRowIsPaidFor
  <2> SUFFICES ASSUME Init, NEW p \in Paths, NEW k \in Keys
               PROVE  consumed[p][k] + RowCount(p, k) + Cardinality(Owing(p, k))
                          <= notified[p][k]
    BY DEF EveryRowIsPaidFor
  <2>1. Owing(p, k) = {}
    BY DEF Init, Owing
  <2>2. Cardinality(Owing(p, k)) = 0
    BY <2>1, FS_EmptySet
  <2> QED
    BY <2>2 DEF Init, RowCount
<1>2. TypeOK /\ EveryRowIsPaidFor /\ [Next]_vars => EveryRowIsPaidFor'
  BY StepsKeepTheAccount
<1> QED
  BY <1>1, <1>2, TypeCorrect, PTL DEF Spec

(* No report of a book trade is suppressed, on either path and whatever the order of
   workers, restarts and refreshed rows, without a notification of an equal event on the
   other path that pays for it (consume_book_trade_keys, mark_book_trade_keys). *)
THEOREM SuppressionsArePaidFor == Spec => []SuppressionIsPaidFor
<1>1. TypeOK /\ EveryRowIsPaidFor => SuppressionIsPaidFor
  <2> SUFFICES ASSUME TypeOK, EveryRowIsPaidFor, NEW p \in Paths, NEW k \in Keys
               PROVE  consumed[p][k] + RowCount(p, k) <= notified[p][k]
    BY DEF SuppressionIsPaidFor, RowCount
  <2>1. consumed[p][k] + RowCount(p, k) + Cardinality(Owing(p, k)) <= notified[p][k]
    BY DEF EveryRowIsPaidFor
  <2>2. consumed[p][k] \in Nat /\ notified[p][k] \in Nat /\ RowCount(p, k) \in {0, 1}
    BY DEF TypeOK, RowCount
  <2> QED
    BY <2>1, <2>2, OwingIsFinite
<1> QED
  BY <1>1, TypeCorrect, AccountBalances, PTL

-----------------------------------------------------------------------------
(* The events of a key that a path has on record, or has notified and is about to put on
   record. *)
Answered(p, k) ==
    {e \in OfKey(Events, k) :
        \/ <<p, e>> \in execRow
        \/ \E w \in Workers : PathOf[w] = p /\ wpc[w] = "mark" /\ e \in kept[w]}

(* Each of them was notified on the path, or took a notification of the other path. *)
EveryRecordIsPaidFor ==
    \A p \in Paths, k \in Keys :
        Cardinality(Answered(p, k)) <= notified[p][k] + consumed[Other(p)][k]

LEMMA AnsweredIsFinite ==
    ASSUME NEW p, NEW k
    PROVE  IsFiniteSet(Answered(p, k)) /\ Cardinality(Answered(p, k)) \in Nat
<1>1. Answered(p, k) \in SUBSET Events
  BY DEF Answered, OfKey
<1> QED
  BY <1>1, FS_Subset, FS_CardinalityType

(* What a step adds to them is at most what it adds to the notifications and to the
   suppressions. *)
LEMMA AnsweredGrows ==
    ASSUME NEW S, NEW T, NEW more, IsFiniteSet(S), IsFiniteSet(more), T \subseteq S \cup more
    PROVE  Cardinality(T) <= Cardinality(S) + Cardinality(more)
<1>1. /\ IsFiniteSet(S \cup more)
      /\ Cardinality(S \cup more) = Cardinality(S) + Cardinality(more)
                                         - Cardinality(S \cap more)
  BY FS_Union
<1>2. Cardinality(T) <= Cardinality(S \cup more) /\ IsFiniteSet(T) /\ IsFiniteSet(S \cap more)
  BY <1>1, FS_Subset
<1> QED
  BY <1>1, <1>2, FS_CardinalityType

LEMMA StepsKeepTheRecordPaid ==
    ASSUME TypeOK, EveryRecordIsPaidFor, [Next]_vars
    PROVE  EveryRecordIsPaidFor'
<1> SUFFICES ASSUME NEW p \in Paths, NEW k \in Keys
             PROVE  Cardinality(Answered(p, k)') <= notified'[p][k] + consumed'[Other(p)][k]
  BY DEF EveryRecordIsPaidFor
<1>a. Cardinality(Answered(p, k)) <= notified[p][k] + consumed[Other(p)][k]
  BY DEF EveryRecordIsPaidFor
<1>b. /\ notified[p][k] \in Nat /\ consumed[Other(p)][k] \in Nat
      /\ IsFiniteSet(Answered(p, k)) /\ Cardinality(Answered(p, k)) \in Nat
  BY AnsweredIsFinite, OtherIsAPath DEF TypeOK
<1>c. ASSUME Answered(p, k)' \subseteq Answered(p, k), notified'[p][k] \in Nat,
             notified'[p][k] >= notified[p][k], consumed' = consumed
      PROVE  Cardinality(Answered(p, k)') <= notified'[p][k] + consumed'[Other(p)][k]
  <2>1. Cardinality(Answered(p, k)') <= Cardinality(Answered(p, k))
        /\ Cardinality(Answered(p, k)') \in Nat
    BY <1>b, <1>c, FS_Subset, FS_CardinalityType
  <2> QED
    BY <1>a, <1>b, <1>c, <2>1
<1>d. ASSUME Answered(p, k)' \subseteq Answered(p, k), UNCHANGED <<notified, consumed>>
      PROVE  Cardinality(Answered(p, k)') <= notified'[p][k] + consumed'[Other(p)][k]
  BY <1>b, <1>c, <1>d
<1>1. ASSUME NEW w \in Workers, NEW events \in SUBSET Events, Start(w, events)
      PROVE  Answered(p, k)' \subseteq Answered(p, k) /\ UNCHANGED <<notified, consumed>>
  BY <1>1 DEF Start, Answered, TypeOK
<1>2. ASSUME NEW w \in Workers, NEW e \in Events, ConsumeHit(w, e)
      PROVE  Cardinality(Answered(p, k)') <= notified'[p][k] + consumed'[Other(p)][k]
  <2>1. /\ execRow' = execRow \cup {<<PathOf[w], e>>}
        /\ UNCHANGED <<wpc, kept, notified>>
        /\ consumed' = [consumed EXCEPT ![Other(PathOf[w])][KeyOf[e]] = @ + 1]
    BY <1>2 DEF ConsumeHit
  <2>2. PathOf[w] \in Paths /\ Other(PathOf[w]) \in Paths /\ Other(p) \in Paths /\ KeyOf[e] \in Keys
    BY OtherIsAPath
  <2>3. CASE p = PathOf[w] /\ k = KeyOf[e]
    <3>1. Answered(p, k)' \subseteq Answered(p, k) \cup {e}
      BY <2>1 DEF Answered
    <3>2. Cardinality({e}) = 1 /\ IsFiniteSet({e})
      BY FS_Singleton
    <3>3. Cardinality(Answered(p, k)') <= Cardinality(Answered(p, k)) + 1
      BY <1>b, <3>1, <3>2, AnsweredGrows
    <3>4. consumed'[Other(p)][k] = consumed[Other(p)][k] + 1
      BY <2>1, <2>2, <2>3 DEF TypeOK
    <3>5. Cardinality(Answered(p, k)') \in Nat
      BY <1>b, <3>1, <3>2, FS_Union, FS_Subset, FS_CardinalityType
    <3> QED
      BY <1>a, <1>b, <2>1, <3>3, <3>4, <3>5
  <2>4. CASE ~(p = PathOf[w] /\ k = KeyOf[e])
    <3>1. Answered(p, k)' = Answered(p, k)
      BY <2>1, <2>4 DEF Answered, OfKey
    <3>2. consumed'[Other(p)][k] = consumed[Other(p)][k]
      <4>1. Other(p) = Other(PathOf[w]) => p = PathOf[w]
        BY <2>2 DEF Other, Paths
      <4> QED
        BY <2>1, <2>2, <2>4, <4>1 DEF TypeOK
    <3> QED
      BY <1>a, <2>1, <3>1, <3>2
  <2> QED
    BY <2>3, <2>4
<1>3. ASSUME NEW w \in Workers, NEW e \in Events, ConsumeMiss(w, e)
      PROVE  Answered(p, k)' \subseteq Answered(p, k) /\ UNCHANGED <<notified, consumed>>
  BY <1>3 DEF ConsumeMiss, Answered, TypeOK
<1>4. ASSUME NEW w \in Workers, NothingNew(w)
      PROVE  Answered(p, k)' \subseteq Answered(p, k) /\ UNCHANGED <<notified, consumed>>
  BY <1>4 DEF NothingNew, Answered, TypeOK
<1>5. ASSUME NEW w \in Workers, NotifySucceeds(w)
      PROVE  Cardinality(Answered(p, k)') <= notified'[p][k] + consumed'[Other(p)][k]
  <2>1. /\ wpc' = [wpc EXCEPT ![w] = "mark"] /\ Receives(w)
        /\ UNCHANGED <<execRow, kept, consumed>>
    BY <1>5 DEF NotifySucceeds
  <2>2. notified'[p][k] = notified[p][k] + IF p = PathOf[w] THEN CountOf(w, k) ELSE 0
    BY <2>1, ReceivesCounts
  <2>3. CASE p = PathOf[w]
    <3>1. Answered(p, k)' \subseteq Answered(p, k) \cup OfKey(kept[w], k)
      BY <2>1 DEF Answered, OfKey, TypeOK
    <3>2. OfKey(kept[w], k) \in SUBSET Events
      BY DEF OfKey, TypeOK
    <3>3. IsFiniteSet(OfKey(kept[w], k))
      BY <3>2, FS_Subset
    <3>4. Cardinality(Answered(p, k)') <= Cardinality(Answered(p, k)) + CountOf(w, k)
      BY <1>b, <3>1, <3>3, AnsweredGrows DEF CountOf
    <3>5. Cardinality(Answered(p, k)') \in Nat /\ CountOf(w, k) \in Nat
      BY <1>b, <3>1, <3>3, FS_Union, FS_Subset, FS_CardinalityType DEF CountOf
    <3> QED
      BY <1>a, <1>b, <2>1, <2>2, <2>3, <3>4, <3>5
  <2>4. CASE p # PathOf[w]
    <3>1. Answered(p, k)' \subseteq Answered(p, k)
      BY <2>1, <2>4 DEF Answered, TypeOK
    <3> QED
      BY <1>b, <1>c, <2>1, <2>2, <2>4, <3>1
  <2> QED
    BY <2>3, <2>4
<1>6. ASSUME NEW w \in Workers, NotifyFails(w)
      PROVE  Cardinality(Answered(p, k)') <= notified'[p][k] + consumed'[Other(p)][k]
  <2>1. Answered(p, k)' \subseteq Answered(p, k) /\ consumed' = consumed
        /\ (Receives(w) \/ UNCHANGED notified)
    BY <1>6 DEF NotifyFails, Answered, TypeOK
  <2>2. CountOf(w, k) \in Nat
    BY CountOfReports
  <2>3. notified'[p][k] \in Nat /\ notified'[p][k] >= notified[p][k]
    BY <1>b, <2>1, <2>2, ReceivesCounts
  <2> QED
    BY <1>c, <2>1, <2>3
<1>7. ASSUME NEW w \in Workers, MarkExecIds(w)
      PROVE  Answered(p, k)' \subseteq Answered(p, k) /\ UNCHANGED <<notified, consumed>>
  <2>1. /\ wpc[w] = "mark" /\ wpc' = [wpc EXCEPT ![w] = "keys"]
        /\ execRow' = execRow \cup {<<PathOf[w], e>> : e \in kept[w]}
        /\ UNCHANGED <<kept, notified, consumed>>
    BY <1>7 DEF MarkExecIds, ReportsOf
  <2>2. ASSUME NEW e \in Answered(p, k)' PROVE e \in Answered(p, k)
    <3>1. e \in OfKey(Events, k)
      BY DEF Answered
    <3>2. CASE <<p, e>> \in execRow'
      <4>1. <<p, e>> \in execRow \/ (p = PathOf[w] /\ e \in kept[w])
        BY <2>1, <3>2
      <4> QED
        BY <2>1, <3>1, <4>1 DEF Answered
    <3>3. CASE \E v \in Workers : PathOf[v] = p /\ wpc'[v] = "mark" /\ e \in kept'[v]
      BY <2>1, <3>1, <3>3 DEF Answered, TypeOK
    <3> QED
      BY <3>2, <3>3 DEF Answered
  <2> QED
    BY <2>1, <2>2
<1>8. ASSUME NEW w \in Workers, MarkKeys(w)
      PROVE  Answered(p, k)' \subseteq Answered(p, k) /\ UNCHANGED <<notified, consumed>>
  BY <1>8 DEF MarkKeys, Answered, TypeOK
<1>9. ASSUME NEW q \in Paths, NEW j \in Keys, Outlive(q, j)
      PROVE  Answered(p, k)' \subseteq Answered(p, k) /\ UNCHANGED <<notified, consumed>>
  BY <1>9 DEF Outlive, Answered
<1>10. ASSUME NextNight \/ UNCHANGED vars
       PROVE  Answered(p, k)' \subseteq Answered(p, k) /\ UNCHANGED <<notified, consumed>>
  BY <1>10 DEF NextNight, vars, Answered
<1>11. ASSUME Crash
       PROVE  Answered(p, k)' \subseteq Answered(p, k) /\ UNCHANGED <<notified, consumed>>
  BY <1>11 DEF Crash, Answered
<1> QED
  BY <1>1, <1>2, <1>3, <1>4, <1>5, <1>6, <1>7, <1>8, <1>9, <1>10, <1>11, <1>d DEF Next, Step

(* "Never a dropped fill": however reports of equal events are matched, crossed between
   paths, refreshed or repeated, the receivers have as many notifications of a key as
   either path has events of it on record (dedup, consume_book_trade_keys).  As a count: the
   event on record need not be the one notified. *)
THEOREM FillsAreNeverDropped == Spec => []NeverDropped
<1>1. Init => EveryRecordIsPaidFor
  <2> SUFFICES ASSUME Init, NEW p \in Paths, NEW k \in Keys
               PROVE  Cardinality(Answered(p, k)) <= notified[p][k] + consumed[Other(p)][k]
    BY DEF EveryRecordIsPaidFor
  <2>1. Answered(p, k) = {}
    BY DEF Init, Answered
  <2>2. notified[p][k] = 0 /\ consumed[Other(p)][k] = 0
    BY OtherIsAPath DEF Init
  <2> QED
    BY <2>1, <2>2, FS_EmptySet
<1>2. TypeOK /\ EveryRecordIsPaidFor /\ [Next]_vars => EveryRecordIsPaidFor'
  BY StepsKeepTheRecordPaid
<1>3. TypeOK /\ EveryRecordIsPaidFor /\ SuppressionIsPaidFor => NeverDropped
  <2> SUFFICES ASSUME TypeOK, EveryRecordIsPaidFor, SuppressionIsPaidFor,
                      NEW p \in Paths, NEW k \in Keys
               PROVE  Cardinality({e \in OfKey(Events, k) : <<p, e>> \in execRow})
                          <= notified["poll"][k] + notified["ws"][k]
    BY DEF NeverDropped
  <2> DEFINE recorded == {e \in OfKey(Events, k) : <<p, e>> \in execRow}
  <2>1. recorded \subseteq Answered(p, k)
    BY DEF Answered
  <2>2. Cardinality(recorded) <= Cardinality(Answered(p, k)) /\ Cardinality(recorded) \in Nat
    BY <2>1, AnsweredIsFinite, FS_Subset, FS_CardinalityType
  <2> HIDE DEF recorded
  <2>3. Cardinality(Answered(p, k)) <= notified[p][k] + consumed[Other(p)][k]
    BY DEF EveryRecordIsPaidFor
  <2>4. consumed[Other(p)][k] <= notified[Other(p)][k]
    <3>1. Other(p) \in Paths
      BY OtherIsAPath
    <3>2. consumed[Other(p)][k] + RowCount(Other(p), k) <= notified[Other(p)][k]
      BY <3>1 DEF SuppressionIsPaidFor, RowCount
    <3>3. consumed[Other(p)][k] \in Nat /\ RowCount(Other(p), k) \in {0, 1}
          /\ notified[Other(p)][k] \in Nat
      BY <3>1 DEF TypeOK, RowCount
    <3> QED
      BY <3>2, <3>3
  <2>5. /\ notified["poll"][k] \in Nat /\ notified["ws"][k] \in Nat
        /\ consumed[Other(p)][k] \in Nat /\ Cardinality(Answered(p, k)) \in Nat
        /\ {p, Other(p)} = {"poll", "ws"}
    BY AnsweredIsFinite, OtherIsAPath DEF TypeOK, Other, Paths
  <2>6. Cardinality(recorded) <= notified["poll"][k] + notified["ws"][k]
    <3>1. CASE p = "poll" /\ Other(p) = "ws"
      BY <3>1, <2>2, <2>3, <2>4, <2>5
    <3>2. CASE p = "ws" /\ Other(p) = "poll"
      BY <3>2, <2>2, <2>3, <2>4, <2>5
    <3> QED
      BY <3>1, <3>2 DEF Other, Paths
  <2> QED
    BY <2>6 DEF recorded
<1> QED
  BY <1>1, <1>2, <1>3, TypeCorrect, SuppressionsArePaidFor, PTL DEF Spec
================================================================================
