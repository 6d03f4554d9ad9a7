------------------------- MODULE DebounceBufferProofs -------------------------
(***************************************************************************)
(* Theorems about the debounce buffer, for any number of fills, orders,    *)
(* worker threads, flush tasks and retries.                                *)
(***************************************************************************)
EXTENDS DebounceBuffer, TLAPS

USE OrderOfAssumption, MaxRetriesAssumption, MaxReceiptsAssumption,
    DebouncingAssumption, FlushersAssumption

-----------------------------------------------------------------------------
(* A batch is not the mark of a free thread. *)
LEMMA BatchIsNotFree == ASSUME NEW b \in Batch PROVE b # Free
BY DEF Batch, Owners, Free

(* Submitting a batch keeps the pool well typed. *)
LEMMA SubmitType ==
    ASSUME TypeOK, NEW b \in Batch, Submit(b)
    PROVE  thread' \in [Threads -> Batch \cup {Free}]
BY DEF TypeOK, Submit

(* What _flush_order does to the state is well typed, whoever calls it. *)
LEMMA FlushOrderType ==
    ASSUME TypeOK, NEW task \in Owners, NEW o \in Orders, NEW popped \in SUBSET Fills,
           FlushOrder(task, o, popped)
    PROVE  /\ bucket' \in [Orders -> SUBSET Fills]
           /\ keys' \in SUBSET Orders
           /\ attempts' \in [Orders -> 0..MaxRetries]
           /\ flushing' \in SUBSET Orders
           /\ parseErrors' \in SUBSET Errors
           /\ thread' \in [Threads -> Batch \cup {Free}]
           /\ dropped' \in SUBSET Fills
<1> DEFINE b == [by |-> task, kind |-> "order", orders |-> {o},
                 fills |-> popped \ stale, errors |-> parseErrors]
<1>1. b \in Batch
  BY DEF Batch, TypeOK
<1>2. /\ bucket' \in [Orders -> SUBSET Fills]
      /\ keys' \in SUBSET Orders
      /\ parseErrors' \in SUBSET Errors
      /\ dropped' \in SUBSET Fills
  BY DEF TypeOK, FlushOrder, ReportedStale
<1>3. /\ attempts' \in [Orders -> 0..MaxRetries]
      /\ flushing' \in SUBSET Orders
  BY DEF TypeOK, FlushOrder
<1>4. thread' = thread \/ Submit(b)
  BY DEF FlushOrder
<1>5. thread' \in [Threads -> Batch \cup {Free}]
  BY <1>1, <1>4, SubmitType DEF TypeOK
<1> QED
  BY <1>2, <1>3, <1>5

(* Type correctness. *)
THEOREM TypeCorrect == SafetySpec => []TypeOK
<1>1. Init => TypeOK
  BY DEF Init, TypeOK
<1>2. TypeOK /\ [Next]_vars => TypeOK'
  <2> SUFFICES ASSUME TypeOK, [Next]_vars PROVE TypeOK'
    OBVIOUS
  <2>1. CASE \E fills \in SUBSET Fills : \E complete \in SUBSET fills, errors \in SUBSET Errors :
                 Receive(fills, complete, errors)
    BY <2>1 DEF TypeOK, Receive, bufferVars, flusherVars
  <2>2. ASSUME NEW f \in Fills, AddStale(f) PROVE TypeOK'
    BY <2>2 DEF TypeOK, AddStale, bufferVars, flusherVars
  <2>3. ASSUME NEW f \in Fills, AddBuffered(f) PROVE TypeOK'
    BY <2>3 DEF TypeOK, AddBuffered, flusherVars
  <2>4. ASSUME NEW f \in Fills, AddComplete(f) PROVE TypeOK'
    <3>1. FlushOrder("listener", OrderOf[f], bucket[OrderOf[f]] \cup {f})
      BY <2>4 DEF AddComplete
    <3>2. OrderOf[f] \in Orders /\ bucket[OrderOf[f]] \cup {f} \in SUBSET Fills
          /\ "listener" \in Owners
      BY DEF TypeOK, Owners
    <3> QED
      BY <2>4, <3>1, <3>2, FlushOrderType DEF TypeOK, AddComplete, flusherVars
  <2>5. CASE ExtendErrors
    BY <2>5 DEF TypeOK, ExtendErrors, flusherVars
  <2>6. CASE SendNow
    <3> DEFINE b == [by |-> "listener", kind |-> "now",
                     orders |-> {OrderOf[f] : f \in todo \ stale},
                     fills |-> todo \ stale, errors |-> msgErrors]
    <3>1. b \in Batch
      BY DEF Batch, Owners, TypeOK
    <3>2. thread' = thread \/ Submit(b)
      BY <2>6 DEF SendNow
    <3>3. thread' \in [Threads -> Batch \cup {Free}]
      BY <3>1, <3>2, SubmitType DEF TypeOK
    <3> QED
      BY <2>6, <3>3 DEF TypeOK, SendNow, ReportedStale, bufferVars, flusherVars
  <2>7. ASSUME NEW o \in Orders, TimerFires(o) PROVE TypeOK'
    <3>1. FlushOrder("timer", o, bucket[o]) /\ bucket[o] \in SUBSET Fills /\ "timer" \in Owners
      BY <2>7 DEF TimerFires, TypeOK, Owners
    <3> QED
      BY <2>7, <3>1, FlushOrderType DEF TypeOK, TimerFires, listenerVars, flusherVars
  <2>8. ASSUME NEW o \in Orders, OrphanFires(o) PROVE TypeOK'
    <3>1. FlushOrder("timer", o, bucket[o]) /\ bucket[o] \in SUBSET Fills /\ "timer" \in Owners
      BY <2>8 DEF OrphanFires, TypeOK, Owners
    <3> QED
      BY <2>8, <3>1, FlushOrderType DEF TypeOK, OrphanFires, listenerVars, flusherVars
  <2>9. ASSUME NEW w \in Flushers, Disconnect(w) PROVE TypeOK'
    BY <2>9 DEF TypeOK, Disconnect, bufferVars, listenerVars
  <2>10. ASSUME NEW w \in Flushers, NEW o \in Orders, NEW passed \in SUBSET ToVisit(w),
                FlushNext(w, o, passed)
         PROVE  TypeOK'
    <3>1. FlushOrder(w, o, bucket[o]) /\ bucket[o] \in SUBSET Fills /\ w \in Owners
      BY <2>10 DEF FlushNext, TypeOK, Owners
    <3>2. starting' \in SUBSET Flushers /\ draining' \in [Flushers -> SUBSET Orders]
      BY <2>10 DEF FlushNext, FlushContinues, ToVisit, TypeOK
    <3> QED
      BY <2>10, <3>1, <3>2, FlushOrderType DEF TypeOK, FlushNext, listenerVars
  <2>11. ASSUME NEW w \in Flushers, FlushEnds(w) PROVE TypeOK'
    BY <2>11 DEF TypeOK, FlushEnds, FlushContinues, bufferVars, listenerVars
  <2>12. ASSUME NEW w \in Flushers, FlushErrors(w) PROVE TypeOK'
    <3> DEFINE b == [by |-> w, kind |-> "errors", orders |-> {}, fills |-> {},
                     errors |-> parseErrors]
    <3>1. b \in Batch /\ Submit(b)
      BY <2>12 DEF Batch, Owners, TypeOK, FlushErrors
    <3>2. thread' \in [Threads -> Batch \cup {Free}]
      BY <3>1, SubmitType
    <3> QED
      BY <2>12, <3>2 DEF TypeOK, FlushErrors, FlushContinues, listenerVars
  <2>13. ASSUME NEW t \in Threads, Sent(t) PROVE TypeOK'
    <3>1. thread[t] \in Batch
      BY <2>13 DEF TypeOK, Sent
    <3>2. /\ attempts' \in [Orders -> 0..MaxRetries]
          /\ thread' \in [Threads -> Batch \cup {Free}]
          /\ flushing' \in SUBSET Orders
          /\ delivered' \in SUBSET Fills
          /\ active' \in SUBSET Flushers
      BY <2>13, <3>1 DEF TypeOK, Sent, NoLongerFlushing, TaskAfter, Batch
    <3> QED
      BY <2>13, <3>2 DEF TypeOK, Sent, listenerVars
  <2>14. ASSUME NEW t \in Threads, NEW transient \in BOOLEAN, NEW first \in Orders,
                SendFailed(t, transient, first)
         PROVE  TypeOK'
    BY <2>14 DEF TypeOK, SendFailed, Retried, Restored, RetryArmed, OfOrder,
                 NoLongerFlushing, Batch, listenerVars, flusherVars
  <2>15. ASSUME NEW t \in Threads, ErrorsFailed(t) PROVE TypeOK'
    BY <2>15 DEF TypeOK, ErrorsFailed, TaskAfter, Batch, listenerVars
  <2>16. ASSUME NEW f \in Fills, Expire(f) PROVE TypeOK'
    BY <2>16 DEF TypeOK, Expire, bufferVars, listenerVars, flusherVars
  <2>17. CASE UNCHANGED vars
    BY <2>17 DEF TypeOK, vars, bufferVars, listenerVars, flusherVars
  <2> QED
    BY <2>1, <2>2, <2>3, <2>4, <2>5, <2>6, <2>7, <2>8, <2>9, <2>10, <2>11, <2>12, <2>13,
       <2>14, <2>15, <2>16, <2>17 DEF Next, ListenerStep, FlusherStep, Outcome
<1> QED
  BY <1>1, <1>2, PTL DEF SafetySpec

-----------------------------------------------------------------------------
(* Facts about the worker threads. *)

(* A submitted batch is being sent, and so is what was being sent before. *)
LEMMA SubmitBusy ==
    ASSUME TypeOK, NEW b \in Batch, Submit(b)
    PROVE  /\ \A u \in Busy : u \in Busy' /\ thread'[u] = thread[u]
           /\ \E t \in Busy' : thread'[t] = b
           /\ \A t \in Busy' : (t \in Busy /\ thread'[t] = thread[t]) \/ thread'[t] = b
<1>1. PICK t \in Threads : thread[t] = Free /\ thread' = [thread EXCEPT ![t] = b]
  BY DEF Submit
<1>2. b # Free
  BY BatchIsNotFree
<1> QED
  BY <1>1, <1>2 DEF Busy, TypeOK

(* Once a batch is done, the others are still being sent. *)
LEMMA DoneBusy ==
    ASSUME TypeOK, NEW t \in Threads, thread' = [thread EXCEPT ![t] = Free]
    PROVE  /\ Busy' = Busy \ {t}
           /\ \A u \in Busy \ {t} : thread'[u] = thread[u]
BY DEF Busy, TypeOK

(* _flush_order empties the bucket, and either forgets the order's attempts or has a
   batch of it sent. *)
LEMMA FlushOrderOutcome ==
    ASSUME TypeOK, NEW task \in Owners, NEW o \in Orders, NEW popped \in SUBSET Fills,
           FlushOrder(task, o, popped)
    PROVE  /\ bucket' = [bucket EXCEPT ![o] = {}]
           /\ \/ /\ popped \subseteq stale
                 /\ attempts' = [attempts EXCEPT ![o] = 0]
                 /\ thread' = thread
              \/ /\ attempts' = attempts
                 /\ Submit([by |-> task, kind |-> "order", orders |-> {o},
                            fills |-> popped \ stale, errors |-> parseErrors])
                 /\ [by |-> task, kind |-> "order", orders |-> {o},
                     fills |-> popped \ stale, errors |-> parseErrors] \in Batch
BY DEF FlushOrder, Batch, TypeOK

(* Every step that flushes an order. *)
FlushStep(task, o, popped) ==
    /\ FlushOrder(task, o, popped)
    /\ task \in Owners /\ o \in Orders /\ popped \in SUBSET Fills
    /\ \A p \in Orders \ {o} : armed'[p] = armed[p] /\ orphans'[p] = orphans[p]

LEMMA FlushSteps ==
    ASSUME TypeOK
    PROVE  /\ \A f \in Fills : AddComplete(f) =>
                  FlushStep("listener", OrderOf[f], bucket[OrderOf[f]] \cup {f})
           /\ \A o \in Orders : TimerFires(o) => FlushStep("timer", o, bucket[o])
           /\ \A o \in Orders : OrphanFires(o) => FlushStep("timer", o, bucket[o])
           /\ \A w \in Flushers, o \in Orders : \A passed \in SUBSET ToVisit(w) :
                  FlushNext(w, o, passed) => FlushStep(w, o, bucket[o])
<1>1. ASSUME NEW f \in Fills, AddComplete(f)
      PROVE  FlushStep("listener", OrderOf[f], bucket[OrderOf[f]] \cup {f})
  BY <1>1 DEF FlushStep, AddComplete, TypeOK, Owners
<1>2. ASSUME NEW o \in Orders, TimerFires(o) PROVE FlushStep("timer", o, bucket[o])
  BY <1>2 DEF FlushStep, TimerFires, TypeOK, Owners
<1>3. ASSUME NEW o \in Orders, OrphanFires(o) PROVE FlushStep("timer", o, bucket[o])
  BY <1>3 DEF FlushStep, OrphanFires, TypeOK, Owners
<1>4. ASSUME NEW w \in Flushers, NEW o \in Orders, NEW passed \in SUBSET ToVisit(w),
             FlushNext(w, o, passed)
      PROVE  FlushStep(w, o, bucket[o])
  BY <1>4 DEF FlushStep, FlushNext, TypeOK, Owners
<1> QED
  BY <1>1, <1>2, <1>3, <1>4

-----------------------------------------------------------------------------
(* No fill waits in the buffer without a timer that will flush it: the retry timer a
   failed send arms, the quiet-window timer of a later fill, or the one flush() forgot.
   Given type correctness the invariant is inductive. *)
THEOREM NoFillIsStranded == SafetySpec => []NoStrandedFill
<1>1. Init => NoStrandedFill
  BY DEF Init, NoStrandedFill
<1>2. TypeOK /\ NoStrandedFill /\ [Next]_vars => NoStrandedFill'
  <2> SUFFICES ASSUME TypeOK, NoStrandedFill, [Next]_vars PROVE NoStrandedFill'
    OBVIOUS
  <2>1. CASE UNCHANGED <<bucket, armed, orphans>>
    BY <2>1 DEF NoStrandedFill
  <2>2. ASSUME NEW task, NEW o, NEW popped, FlushStep(task, o, popped)
        PROVE  NoStrandedFill'
    <3>1. bucket' = [bucket EXCEPT ![o] = {}]
      BY <2>2, FlushOrderOutcome DEF FlushStep
    <3> QED
      BY <2>2, <3>1 DEF FlushStep, NoStrandedFill, TypeOK
  <2>3. ASSUME NEW f \in Fills, AddBuffered(f) PROVE NoStrandedFill'
    BY <2>3 DEF NoStrandedFill, AddBuffered, TypeOK
  <2>4. ASSUME NEW t \in Threads, NEW transient \in BOOLEAN, NEW first \in Orders,
               SendFailed(t, transient, first)
        PROVE  NoStrandedFill'
    BY <2>4 DEF NoStrandedFill, SendFailed, RetryArmed, TypeOK
  <2>5. ASSUME NEW f \in Fills, AddStale(f) \/ Expire(f)
        PROVE  UNCHANGED <<bucket, armed, orphans>>
    BY <2>5 DEF AddStale, Expire, bufferVars
  <2>6. ASSUME NEW w \in Flushers, Disconnect(w) \/ FlushEnds(w) \/ FlushErrors(w)
        PROVE  UNCHANGED <<bucket, armed, orphans>>
    BY <2>6 DEF Disconnect, FlushEnds, FlushErrors, bufferVars
  <2>7. ASSUME NEW t \in Threads, Sent(t) \/ ErrorsFailed(t)
        PROVE  UNCHANGED <<bucket, armed, orphans>>
    BY <2>7 DEF Sent, ErrorsFailed
  <2>8. ASSUME \/ \E fills \in SUBSET Fills :
                      \E complete \in SUBSET fills, errors \in SUBSET Errors :
                          Receive(fills, complete, errors)
               \/ ExtendErrors \/ SendNow \/ UNCHANGED vars
        PROVE  UNCHANGED <<bucket, armed, orphans>>
    BY <2>8 DEF Receive, ExtendErrors, SendNow, vars, bufferVars
  <2> QED
    BY <2>1, <2>2, <2>3, <2>4, <2>5, <2>6, <2>7, <2>8, FlushSteps
       DEF Next, ListenerStep, FlusherStep, Outcome
<1> QED
  BY <1>1, <1>2, TypeCorrect, PTL DEF SafetySpec

-----------------------------------------------------------------------------
(* An order has failed attempts on record only while a retry of it is due or being
   sent. *)
THEOREM AttemptsOnlyDuringRetries == SafetySpec => []AttemptsBelongToARetry
<1> DEFINE Sending(o) == \E t \in Busy : thread[t].kind = "order" /\ o \in thread[t].orders
<1>1. Init => AttemptsBelongToARetry
  BY DEF Init, AttemptsBelongToARetry
<1>2. TypeOK /\ AttemptsBelongToARetry /\ [Next]_vars => AttemptsBelongToARetry'
  <2> SUFFICES ASSUME TypeOK, AttemptsBelongToARetry, [Next]_vars
               PROVE  AttemptsBelongToARetry'
    OBVIOUS
  <2>1. CASE UNCHANGED <<attempts, armed, orphans, thread>>
    BY <2>1 DEF AttemptsBelongToARetry, Busy
  <2>2. ASSUME NEW task, NEW o, NEW popped, FlushStep(task, o, popped)
        PROVE  AttemptsBelongToARetry'
    <3> DEFINE b == [by |-> task, kind |-> "order", orders |-> {o},
                     fills |-> popped \ stale, errors |-> parseErrors]
    <3>1. CASE thread' = thread /\ attempts' = [attempts EXCEPT ![o] = 0]
      <4>1. Busy' = Busy
        BY <3>1 DEF Busy
      <4> QED
        BY <2>2, <3>1, <4>1 DEF FlushStep, AttemptsBelongToARetry, TypeOK
    <3>2. CASE attempts' = attempts /\ Submit(b) /\ b \in Batch
      <4>1. \A p \in Orders : Sending(p) => Sending(p)'
        BY <3>2, SubmitBusy
      <4>2. Sending(o)'
        BY <3>2, SubmitBusy
      <4> QED
        BY <2>2, <3>2, <4>1, <4>2 DEF FlushStep, AttemptsBelongToARetry
    <3> QED
      BY <2>2, <3>1, <3>2, FlushOrderOutcome DEF FlushStep
  <2>3. ASSUME NEW b \in Batch, Submit(b), UNCHANGED <<attempts, armed, orphans>>
        PROVE  AttemptsBelongToARetry'
    <3>1. \A p \in Orders : Sending(p) => Sending(p)'
      BY <2>3, SubmitBusy
    <3> QED
      BY <2>3, <3>1 DEF AttemptsBelongToARetry
  <2>4. ASSUME NEW f \in Fills, AddBuffered(f) PROVE AttemptsBelongToARetry'
    BY <2>4 DEF AttemptsBelongToARetry, AddBuffered, TypeOK, Busy
  <2>5. CASE SendNow
    <3> DEFINE b == [by |-> "listener", kind |-> "now",
                     orders |-> {OrderOf[f] : f \in todo \ stale},
                     fills |-> todo \ stale, errors |-> msgErrors]
    <3>1. b \in Batch
      BY DEF Batch, Owners, TypeOK
    <3>2. UNCHANGED <<attempts, armed, orphans>> /\ (thread' = thread \/ Submit(b))
      BY <2>5 DEF SendNow, bufferVars
    <3> QED
      BY <2>1, <2>3, <3>1, <3>2
  <2>6. ASSUME NEW w \in Flushers, FlushErrors(w) PROVE AttemptsBelongToARetry'
    <3> DEFINE b == [by |-> w, kind |-> "errors", orders |-> {}, fills |-> {},
                     errors |-> parseErrors]
    <3>1. b \in Batch /\ Submit(b) /\ UNCHANGED <<attempts, armed, orphans>>
      BY <2>6 DEF Batch, Owners, TypeOK, FlushErrors
    <3> QED
      BY <2>3, <3>1
  <2>7. ASSUME NEW t \in Threads, Sent(t) PROVE AttemptsBelongToARetry'
    <3>1. /\ thread' = [thread EXCEPT ![t] = Free]
          /\ attempts' = [o \in Orders |->
                 IF thread[t].kind = "order" /\ o \in thread[t].orders THEN 0
                 ELSE attempts[o]]
          /\ UNCHANGED <<armed, orphans>>
      BY <2>7 DEF Sent
    <3>2. ASSUME NEW o \in Orders, attempts'[o] > 0, Sending(o) PROVE Sending(o)'
      <4>1. PICK u \in Busy : thread[u].kind = "order" /\ o \in thread[u].orders
        BY <3>2
      <4>2. u # t
        BY <3>1, <3>2, <4>1
      <4> QED
        BY <3>1, <4>1, <4>2, DoneBusy
    <3>3. \A o \in Orders : attempts'[o] > 0 => attempts[o] > 0
      BY <3>1 DEF TypeOK
    <3> QED
      BY <3>1, <3>2, <3>3 DEF AttemptsBelongToARetry
  <2>8. ASSUME NEW t \in Threads, NEW transient \in BOOLEAN, NEW first \in Orders,
               SendFailed(t, transient, first)
        PROVE  AttemptsBelongToARetry'
    <3> DEFINE again == Retried(thread[t], transient)
    <3>1. /\ thread' = [thread EXCEPT ![t] = Free]
          /\ attempts' = [o \in Orders |-> IF o \in again THEN attempts[o] + 1
                 ELSE IF o \in thread[t].orders \ again THEN 0 ELSE attempts[o]]
          /\ armed' = [o \in Orders |-> armed[o] \/ o \in again]
          /\ UNCHANGED orphans
      BY <2>8 DEF SendFailed, RetryArmed
    <3>2. ASSUME NEW o \in Orders, attempts'[o] > 0, o \notin again, Sending(o)
          PROVE  Sending(o)'
      <4>1. PICK u \in Busy : thread[u].kind = "order" /\ o \in thread[u].orders
        BY <3>2
      <4>2. u # t
        BY <3>1, <3>2, <4>1
      <4> QED
        BY <3>1, <4>1, <4>2, DoneBusy
    <3>3. \A o \in Orders : attempts'[o] > 0 => o \in again \/ attempts[o] > 0
      BY <3>1 DEF TypeOK
    <3> QED
      BY <3>1, <3>2, <3>3 DEF AttemptsBelongToARetry, TypeOK
  <2>9. ASSUME NEW t \in Threads, ErrorsFailed(t) PROVE AttemptsBelongToARetry'
    <3>1. /\ thread[t].kind = "errors"
          /\ thread' = [thread EXCEPT ![t] = Free]
          /\ UNCHANGED <<attempts, armed, orphans>>
      BY <2>9 DEF ErrorsFailed
    <3>2. \A o \in Orders : Sending(o) => Sending(o)'
      BY <3>1, DoneBusy
    <3> QED
      BY <3>1, <3>2 DEF AttemptsBelongToARetry
  <2>10. ASSUME NEW f \in Fills, AddStale(f) \/ Expire(f)
         PROVE  UNCHANGED <<attempts, armed, orphans, thread>>
    BY <2>10 DEF AddStale, Expire, bufferVars
  <2>11. ASSUME NEW w \in Flushers, Disconnect(w) \/ FlushEnds(w)
         PROVE  UNCHANGED <<attempts, armed, orphans, thread>>
    BY <2>11 DEF Disconnect, FlushEnds, bufferVars
  <2>12. ASSUME \/ \E fills \in SUBSET Fills :
                       \E complete \in SUBSET fills, errors \in SUBSET Errors :
                           Receive(fills, complete, errors)
                \/ ExtendErrors \/ UNCHANGED vars
         PROVE  UNCHANGED <<attempts, armed, orphans, thread>>
    BY <2>12 DEF Receive, ExtendErrors, vars, bufferVars
  <2> QED
    BY <2>1, <2>2, <2>4, <2>5, <2>6, <2>7, <2>8, <2>9, <2>10, <2>11, <2>12, FlushSteps
       DEF Next, ListenerStep, FlusherStep, Outcome
<1> QED
  BY <1>1, <1>2, TypeCorrect, PTL DEF SafetySpec

-----------------------------------------------------------------------------
(* Custody.  The strengthening it needs: a fill is only ever filed under its own
   order.  Without it a failed batch, which is put back or given up order by order,
   could lose a fill that belongs to none of the orders of the batch. *)
Filed(batch) ==
    IF batch.kind = "errors" THEN batch.fills = {}
    ELSE \A f \in batch.fills : OrderOf[f] \in batch.orders

FillsInPlace ==
    /\ \A o \in Orders : bucket[o] \subseteq OfOrder(Fills, o)
    /\ \A t \in Busy : Filed(thread[t])

(* What a flush pops is in its order's place. *)
LEMMA FlushStepInPlace ==
    ASSUME TypeOK, FillsInPlace, NEW task, NEW o, NEW popped, FlushStep(task, o, popped),
           popped \subseteq OfOrder(Fills, o)
    PROVE  FillsInPlace'
<1> DEFINE b == [by |-> task, kind |-> "order", orders |-> {o},
                 fills |-> popped \ stale, errors |-> parseErrors]
<1>1. /\ bucket' = [bucket EXCEPT ![o] = {}]
      /\ thread' = thread \/ (Submit(b) /\ b \in Batch)
  BY FlushOrderOutcome DEF FlushStep
<1>2. \A p \in Orders : bucket'[p] \subseteq OfOrder(Fills, p)
  BY <1>1 DEF FlushStep, FillsInPlace, TypeOK
<1>3. Filed(b)
  BY DEF Filed, OfOrder
<1>4. CASE thread' = thread
  <2>1. Busy' = Busy
    BY <1>4 DEF Busy
  <2> QED
    BY <1>2, <1>4, <2>1 DEF FillsInPlace
<1>5. CASE Submit(b) /\ b \in Batch
  <2>1. \A t \in Busy' : Filed(thread'[t])
    BY <1>3, <1>5, SubmitBusy DEF FillsInPlace
  <2> QED
    BY <1>2, <2>1 DEF FillsInPlace, Filed, OfOrder
<1> QED
  BY <1>1, <1>4, <1>5

(* A fill stays under its own order, in the buffer and in every batch (add, _restore). *)
THEOREM FillsStayInPlace == SafetySpec => []FillsInPlace
<1>1. Init => FillsInPlace
  BY DEF Init, FillsInPlace, Busy
<1>2. TypeOK /\ FillsInPlace /\ [Next]_vars => FillsInPlace'
  <2> SUFFICES ASSUME TypeOK, FillsInPlace, [Next]_vars PROVE FillsInPlace'
    OBVIOUS
  <2>1. CASE UNCHANGED <<bucket, thread>>
    <3>1. Busy' = Busy
      BY <2>1 DEF Busy
    <3> QED
      BY <2>1, <3>1 DEF FillsInPlace, Filed, OfOrder
  <2>2. ASSUME NEW o \in Orders PROVE bucket[o] \subseteq OfOrder(Fills, o)
    BY DEF FillsInPlace
  <2>3. ASSUME NEW b \in Batch, Submit(b), Filed(b), UNCHANGED bucket PROVE FillsInPlace'
    <3>1. \A t \in Busy' : Filed(thread'[t])
      BY <2>3, SubmitBusy DEF FillsInPlace
    <3> QED
      BY <2>3, <3>1 DEF FillsInPlace, Filed, OfOrder
  <2>4. ASSUME NEW t \in Threads, thread' = [thread EXCEPT ![t] = Free],
               \A o \in Orders : bucket'[o] \subseteq OfOrder(Fills, o)
        PROVE  FillsInPlace'
    <3>1. \A u \in Busy' : u \in Busy /\ thread'[u] = thread[u]
      BY <2>4, DoneBusy
    <3> QED
      BY <2>4, <3>1 DEF FillsInPlace, Filed, OfOrder
  <2>5. ASSUME NEW f \in Fills, AddBuffered(f) PROVE FillsInPlace'
    <3>1. /\ bucket' = [bucket EXCEPT ![OrderOf[f]] = @ \cup {f}]
          /\ thread' = thread /\ Busy' = Busy
      BY <2>5 DEF AddBuffered, Busy
    <3>2. \A o \in Orders : bucket'[o] \subseteq OfOrder(Fills, o)
      BY <2>2, <3>1 DEF OfOrder, TypeOK
    <3> QED
      BY <3>1, <3>2 DEF FillsInPlace, Filed, OfOrder
  <2>6. ASSUME NEW f \in Fills, AddComplete(f) PROVE FillsInPlace'
    <3>1. FlushStep("listener", OrderOf[f], bucket[OrderOf[f]] \cup {f})
      BY <2>6, FlushSteps
    <3>2. bucket[OrderOf[f]] \cup {f} \subseteq OfOrder(Fills, OrderOf[f])
      BY <2>2 DEF OfOrder
    <3> QED
      BY <3>1, <3>2, FlushStepInPlace
  <2>7. ASSUME NEW o \in Orders, TimerFires(o) \/ OrphanFires(o) PROVE FillsInPlace'
    BY <2>2, <2>7, FlushSteps, FlushStepInPlace
  <2>8. ASSUME NEW w \in Flushers, NEW o \in Orders, NEW passed \in SUBSET ToVisit(w),
               FlushNext(w, o, passed)
        PROVE  FillsInPlace'
    <3>1. FlushStep(w, o, bucket[o])
      BY <2>8, FlushSteps
    <3> QED
      BY <2>2, <3>1, FlushStepInPlace
  <2>9. CASE SendNow
    <3> DEFINE b == [by |-> "listener", kind |-> "now",
                     orders |-> {OrderOf[f] : f \in todo \ stale},
                     fills |-> todo \ stale, errors |-> msgErrors]
    <3>1. b \in Batch /\ Filed(b)
      BY DEF Batch, Owners, TypeOK, Filed
    <3>2. UNCHANGED bucket /\ (thread' = thread \/ Submit(b))
      BY <2>9 DEF SendNow, bufferVars
    <3> QED
      BY <2>1, <2>3, <3>1, <3>2
  <2>10. ASSUME NEW w \in Flushers, FlushErrors(w) PROVE FillsInPlace'
    <3> DEFINE b == [by |-> w, kind |-> "errors", orders |-> {}, fills |-> {},
                     errors |-> parseErrors]
    <3>1. b \in Batch /\ Filed(b) /\ Submit(b) /\ UNCHANGED bucket
      BY <2>10 DEF Batch, Owners, TypeOK, FlushErrors, Filed
    <3> QED
      BY <2>3, <3>1
  <2>11. ASSUME NEW t \in Threads, Sent(t) \/ ErrorsFailed(t) PROVE FillsInPlace'
    BY <2>2, <2>4, <2>11 DEF Sent, ErrorsFailed
  <2>12. ASSUME NEW t \in Threads, NEW transient \in BOOLEAN, NEW first \in Orders,
                SendFailed(t, transient, first)
         PROVE  FillsInPlace'
    <3>1. thread[t] \in Batch
      BY <2>12 DEF SendFailed, TypeOK
    <3>2. \A o \in Orders : bucket'[o] \subseteq OfOrder(Fills, o)
      BY <2>2, <2>12, <3>1 DEF SendFailed, Restored, OfOrder, Batch
    <3> QED
      BY <2>4, <2>12, <3>2 DEF SendFailed
  <2>13. ASSUME NEW f \in Fills, AddStale(f) \/ Expire(f) PROVE UNCHANGED <<bucket, thread>>
    BY <2>13 DEF AddStale, Expire, bufferVars
  <2>14. ASSUME NEW w \in Flushers, Disconnect(w) \/ FlushEnds(w)
         PROVE  UNCHANGED <<bucket, thread>>
    BY <2>14 DEF Disconnect, FlushEnds, bufferVars
  <2>15. ASSUME \/ \E fills \in SUBSET Fills :
                       \E complete \in SUBSET fills, errors \in SUBSET Errors :
                           Receive(fills, complete, errors)
                \/ ExtendErrors \/ UNCHANGED vars
         PROVE  UNCHANGED <<bucket, thread>>
    BY <2>15 DEF Receive, ExtendErrors, vars, bufferVars
  <2> QED
    BY <2>1, <2>5, <2>6, <2>7, <2>8, <2>9, <2>10, <2>11, <2>12, <2>13, <2>14, <2>15
       DEF Next, ListenerStep, FlusherStep, Outcome
<1> QED
  BY <1>1, <1>2, TypeCorrect, PTL DEF SafetySpec

-----------------------------------------------------------------------------
(* The buffer implements FillCustody: every step of it takes fills into custody,
   settles some that are in custody, or leaves custody alone. *)

(* To show that a step settles it is enough to say what it delivered and dropped, that
   custody does not grow, and that nothing else leaves it. *)
LEMMA SettleSuffices ==
    ASSUME NEW sent \in SUBSET Held, NEW given_up \in SUBSET Held,
           delivered' = delivered \cup sent, dropped' = dropped \cup given_up,
           Held' \subseteq Held, Held \ (sent \cup given_up) \subseteq Held'
    PROVE  CustodyOfFills!CustodyNext
<1> DEFINE again == Held' \cap (sent \cup given_up)
<1>1. again \in SUBSET (sent \cup given_up)
  OBVIOUS
<1>2. Held' = (Held \ (sent \cup given_up)) \cup again
  OBVIOUS
<1>3. CustodyOfFills!Settle
  BY <1>1, <1>2 DEF CustodyOfFills!Settle
<1> QED
  BY <1>3 DEF CustodyOfFills!CustodyNext

LEMMA SubmitInFlight ==
    ASSUME TypeOK, NEW b \in Batch, Submit(b)
    PROVE  InFlight' = InFlight \cup b.fills
<1>1. \A f : f \in InFlight' <=> f \in InFlight \/ f \in b.fills
  BY SubmitBusy DEF InFlight
<1> QED
  BY <1>1

LEMMA DoneInFlight ==
    ASSUME TypeOK, NEW t \in Busy, thread' = [thread EXCEPT ![t] = Free]
    PROVE  /\ InFlight' \subseteq InFlight
           /\ InFlight \subseteq InFlight' \cup thread[t].fills
           /\ thread[t].fills \subseteq InFlight
<1>1. Busy' = Busy \ {t} /\ \A u \in Busy \ {t} : thread'[u] = thread[u]
  BY DoneBusy DEF Busy
<1> QED
  BY <1>1 DEF InFlight

(* A flush moves the popped fills that are fresh into a worker thread and reports the
   others. *)
LEMMA FlushStepSettles ==
    ASSUME TypeOK, NEW task, NEW o, NEW arriving \in SUBSET todo,
           FlushStep(task, o, bucket[o] \cup arriving),
           todo' = todo \ arriving, UNCHANGED <<stale, delivered>>
    PROVE  CustodyOfFills!CustodyNext
<1> DEFINE popped == bucket[o] \cup arriving
           b == [by |-> task, kind |-> "order", orders |-> {o},
                 fills |-> popped \ stale, errors |-> parseErrors]
<1>1. o \in Orders /\ dropped' = dropped \cup (popped \cap stale)
  BY DEF FlushStep, FlushOrder, ReportedStale
<1>2. bucket' = [bucket EXCEPT ![o] = {}]
  BY FlushOrderOutcome DEF FlushStep
<1>3. \/ popped \subseteq stale /\ InFlight' = InFlight
      \/ InFlight' = InFlight \cup (popped \ stale)
  <2>1. CASE popped \subseteq stale /\ thread' = thread
    BY <2>1 DEF InFlight, Busy
  <2>2. CASE Submit(b) /\ b \in Batch
    BY <2>2, SubmitInFlight
  <2> QED
    BY <2>1, <2>2, FlushOrderOutcome DEF FlushStep
<1>4. /\ Buffered' \subseteq Buffered
      /\ Buffered \subseteq Buffered' \cup bucket[o]
      /\ bucket[o] \subseteq Buffered
  <2>1. \A p \in Orders : bucket'[p] = IF p = o THEN {} ELSE bucket[p]
    BY <1>2 DEF TypeOK
  <2> QED
    BY <1>1, <2>1 DEF Buffered
<1>5. popped \subseteq Held
  BY <1>4 DEF Held
<1>6. Held' \subseteq Held
  BY <1>3, <1>4, <1>5 DEF Held
<1>7. Held \ (popped \cap stale) \subseteq Held'
  BY <1>3, <1>4 DEF Held
<1>8. {} \in SUBSET Held /\ popped \cap stale \in SUBSET Held /\ delivered' = delivered \cup {}
  BY <1>5
<1> HIDE DEF popped
<1> QED
  BY <1>1, <1>6, <1>7, <1>8, SettleSuffices

(* A failed send puts back what it retries and reports what it gives up. *)
LEMMA SendFailedSettles ==
    ASSUME TypeOK, FillsInPlace, NEW t \in Threads, NEW transient \in BOOLEAN,
           NEW first \in Orders, SendFailed(t, transient, first)
    PROVE  CustodyOfFills!CustodyNext
<1> DEFINE batch == thread[t]
           again == Retried(batch, transient)
           lost == {f \in batch.fills : OrderOf[f] \in batch.orders \ again}
<1>1. t \in Busy /\ batch \in Batch /\ Filed(batch) /\ batch.kind # "errors"
  BY DEF SendFailed, Busy, TypeOK, FillsInPlace
<1>2. /\ thread' = [thread EXCEPT ![t] = Free]
      /\ dropped' = dropped \cup lost
      /\ UNCHANGED <<todo, delivered>>
      /\ bucket' = [o \in Orders |-> IF o \in again THEN Restored(o, batch.fills)
                                                   ELSE bucket[o]]
  BY DEF SendFailed, listenerVars
<1>3. /\ InFlight' \subseteq InFlight
      /\ InFlight \subseteq InFlight' \cup batch.fills
      /\ batch.fills \subseteq InFlight
  BY <1>1, <1>2, DoneInFlight
<1>4. Buffered' \subseteq Buffered \cup batch.fills
  BY <1>2 DEF Buffered, Restored, OfOrder
<1>5. Buffered \subseteq Buffered'
  BY <1>2 DEF Buffered, Restored
<1>6. batch.fills \ lost \subseteq Buffered'
  <2> SUFFICES ASSUME NEW f \in batch.fills \ lost PROVE f \in Buffered'
    OBVIOUS
  <2>1. OrderOf[f] \in Orders /\ OrderOf[f] \in again
    BY <1>1 DEF Filed, Batch, Retried
  <2>2. f \in bucket'[OrderOf[f]]
    BY <1>2, <2>1 DEF Restored, OfOrder
  <2> QED
    BY <2>1, <2>2 DEF Buffered
<1>7. Held' \subseteq Held /\ Held \ lost \subseteq Held'
  BY <1>2, <1>3, <1>4, <1>5, <1>6 DEF Held
<1>8. {} \in SUBSET Held /\ lost \in SUBSET Held /\ delivered' = delivered \cup {}
  BY <1>2, <1>3 DEF Held
<1> HIDE DEF lost
<1> QED
  BY <1>2, <1>7, <1>8, SettleSuffices

(* Without debouncing a message's fresh fills go straight to a worker thread. *)
LEMMA SendNowSettles ==
    ASSUME TypeOK, SendNow
    PROVE  CustodyOfFills!CustodyNext
<1> DEFINE lost == todo \cap stale
           b == [by |-> "listener", kind |-> "now",
                 orders |-> {OrderOf[f] : f \in todo \ stale},
                 fills |-> todo \ stale, errors |-> msgErrors]
<1>1. b \in Batch
  BY DEF Batch, Owners, TypeOK
<1>2. /\ dropped' = dropped \cup lost
      /\ \/ todo \ stale = {} /\ thread' = thread
         \/ Submit(b)
      /\ todo' = {}
      /\ UNCHANGED <<bucket, delivered>>
  BY DEF SendNow, ReportedStale, bufferVars
<1>3. InFlight' = InFlight \cup (todo \ stale)
  <2>1. CASE todo \ stale = {} /\ thread' = thread
    BY <2>1 DEF InFlight, Busy
  <2>2. CASE Submit(b)
    BY <1>1, <2>2, SubmitInFlight
  <2> QED
    BY <1>2, <2>1, <2>2
<1>4. Buffered' = Buffered
  BY <1>2 DEF Buffered
<1>5. Held' \subseteq Held /\ Held \ lost \subseteq Held'
  BY <1>2, <1>3, <1>4 DEF Held
<1>6. {} \in SUBSET Held /\ lost \in SUBSET Held /\ delivered' = delivered \cup {}
  BY <1>2 DEF Held
<1> QED
  BY <1>2, <1>5, <1>6, SettleSuffices

(* A successful send settles what it carried, unless a newer copy is still held. *)
LEMMA SentSettles ==
    ASSUME TypeOK, NEW t \in Threads, Sent(t)
    PROVE  CustodyOfFills!CustodyNext
<1>1. t \in Busy
  BY DEF Sent, Busy
<1>2. /\ thread' = [thread EXCEPT ![t] = Free]
      /\ delivered' = delivered \cup thread[t].fills
      /\ UNCHANGED <<bucket, todo, dropped>>
  BY DEF Sent, listenerVars
<1>3. /\ InFlight' \subseteq InFlight
      /\ InFlight \subseteq InFlight' \cup thread[t].fills
      /\ thread[t].fills \subseteq InFlight
  BY <1>1, <1>2, DoneInFlight
<1>4. Buffered' = Buffered
  BY <1>2 DEF Buffered
<1>5. Held' \subseteq Held /\ Held \ thread[t].fills \subseteq Held'
  BY <1>2, <1>3, <1>4 DEF Held
<1>6. thread[t].fills \in SUBSET Held /\ {} \in SUBSET Held /\ dropped' = dropped \cup {}
  BY <1>2, <1>3 DEF Held
<1> QED
  BY <1>2, <1>5, <1>6, SettleSuffices

(* The steps that move no fill, or move one from the message to the buffer. *)
LEMMA CustodyKept ==
    ASSUME TypeOK, FillsInPlace,
           \/ ExtendErrors \/ UNCHANGED vars
           \/ \E f \in Fills : AddBuffered(f) \/ Expire(f)
           \/ \E w \in Flushers : Disconnect(w) \/ FlushEnds(w) \/ FlushErrors(w)
           \/ \E t \in Threads : ErrorsFailed(t)
    PROVE  UNCHANGED <<Held, delivered, dropped>>
<1>1. CASE ExtendErrors
  BY <1>1 DEF ExtendErrors, Held, Buffered, InFlight, Busy
<1>2. CASE UNCHANGED vars
  BY <1>2 DEF vars, bufferVars, listenerVars, Held, Buffered, InFlight, Busy
<1>3. ASSUME NEW f \in Fills, AddBuffered(f) PROVE UNCHANGED <<Held, delivered, dropped>>
  <2>1. /\ bucket' = [bucket EXCEPT ![OrderOf[f]] = @ \cup {f}]
        /\ f \in todo /\ todo' = todo \ {f}
        /\ UNCHANGED <<thread, delivered, dropped>>
    BY <1>3 DEF AddBuffered, CanAdd
  <2>2. \A o \in Orders :
            bucket'[o] = IF o = OrderOf[f] THEN bucket[o] \cup {f} ELSE bucket[o]
    BY <2>1 DEF TypeOK
  <2>3. Buffered' = Buffered \cup {f}
    <3>1. OrderOf[f] \in Orders /\ f \in bucket'[OrderOf[f]]
      BY <2>2
    <3>2. ASSUME NEW g \in Buffered' PROVE g \in Buffered \cup {f}
      <4>1. PICK o \in Orders : g \in bucket'[o]
        BY <3>2 DEF Buffered
      <4>2. g \in bucket[o] \/ g = f
        BY <2>2, <4>1
      <4> QED
        BY <4>1, <4>2 DEF Buffered
    <3>3. ASSUME NEW g \in Buffered PROVE g \in Buffered'
      <4>1. PICK o \in Orders : g \in bucket[o]
        BY <3>3 DEF Buffered
      <4>2. g \in bucket'[o]
        BY <2>2, <4>1
      <4> QED
        BY <4>1, <4>2 DEF Buffered
    <3>4. f \in Buffered'
      BY <3>1 DEF Buffered
    <3> QED
      BY <3>2, <3>3, <3>4
  <2>4. InFlight' = InFlight
    BY <2>1 DEF InFlight, Busy
  <2> QED
    BY <2>1, <2>3, <2>4 DEF Held
<1>4. ASSUME NEW f \in Fills, Expire(f) PROVE UNCHANGED <<Held, delivered, dropped>>
  BY <1>4 DEF Expire, bufferVars, listenerVars, Held, Buffered, InFlight, Busy
<1>5. ASSUME NEW w \in Flushers, Disconnect(w) \/ FlushEnds(w)
      PROVE  UNCHANGED <<Held, delivered, dropped>>
  BY <1>5 DEF Disconnect, FlushEnds, bufferVars, listenerVars, Held, Buffered, InFlight, Busy
<1>6. ASSUME NEW w \in Flushers, FlushErrors(w) PROVE UNCHANGED <<Held, delivered, dropped>>
  <2> DEFINE b == [by |-> w, kind |-> "errors", orders |-> {}, fills |-> {},
                   errors |-> parseErrors]
  <2>1. b \in Batch /\ Submit(b) /\ UNCHANGED <<bucket, todo, delivered, dropped>>
    BY <1>6 DEF Batch, Owners, TypeOK, FlushErrors, listenerVars
  <2>2. InFlight' = InFlight
    BY <2>1, SubmitInFlight
  <2> QED
    BY <2>1, <2>2 DEF Held, Buffered
<1>7. ASSUME NEW t \in Threads, ErrorsFailed(t) PROVE UNCHANGED <<Held, delivered, dropped>>
  <2>1. /\ t \in Busy /\ thread[t].kind = "errors"
        /\ thread' = [thread EXCEPT ![t] = Free]
        /\ UNCHANGED <<bucket, todo, delivered, dropped>>
    BY <1>7 DEF ErrorsFailed, Busy, listenerVars
  <2>2. thread[t].fills = {}
    BY <2>1 DEF FillsInPlace, Filed
  <2>3. InFlight' = InFlight
    BY <2>1, <2>2, DoneInFlight
  <2> QED
    BY <2>1, <2>3 DEF Held, Buffered
<1> QED
  BY <1>1, <1>2, <1>3, <1>4, <1>5, <1>6, <1>7

(* The fills of a message are taken into custody. *)
LEMMA ReceiveTakes ==
    ASSUME NEW fills \in SUBSET Fills, NEW complete \in SUBSET fills,
           NEW errors \in SUBSET Errors, Receive(fills, complete, errors)
    PROVE  CustodyOfFills!Take /\ Held' = Held \cup fills
<1>1. /\ todo = {} /\ todo' = fills
      /\ UNCHANGED <<bucket, thread, delivered, dropped>>
  BY DEF Receive, ListenerReady, bufferVars
<1>2. Held' = Held \cup fills
  BY <1>1 DEF Held, Buffered, InFlight, Busy
<1> QED
  BY <1>1, <1>2 DEF CustodyOfFills!Take

(* A fill that is stale on arrival is reported. *)
LEMMA AddStaleSettles ==
    ASSUME NEW f \in Fills, AddStale(f)
    PROVE  CustodyOfFills!CustodyNext
<1>1. /\ f \in todo /\ todo' = todo \ {f}
      /\ dropped' = dropped \cup {f}
      /\ UNCHANGED <<bucket, thread, delivered>>
  BY DEF AddStale, CanAdd, bufferVars
<1>2. Held' \subseteq Held /\ Held \ {f} \subseteq Held'
  BY <1>1 DEF Held, Buffered, InFlight, Busy
<1>3. {} \in SUBSET Held /\ {f} \in SUBSET Held /\ delivered' = delivered \cup {}
  BY <1>1 DEF Held
<1> QED
  BY <1>1, <1>2, <1>3, SettleSuffices

(* Every step of the buffer is a step of the custody it promises, or none. *)
LEMMA StepsKeepCustody ==
    ASSUME TypeOK, FillsInPlace, [Next]_vars
    PROVE  [CustodyOfFills!CustodyNext]_(CustodyOfFills!custodyVars)
<1>1. CASE \E fills \in SUBSET Fills : \E complete \in SUBSET fills, errors \in SUBSET Errors :
               Receive(fills, complete, errors)
  BY <1>1, ReceiveTakes DEF CustodyOfFills!CustodyNext
<1>2. ASSUME NEW f \in Fills, AddComplete(f) PROVE CustodyOfFills!CustodyNext
  <2>1. FlushStep("listener", OrderOf[f], bucket[OrderOf[f]] \cup {f})
    BY <1>2, FlushSteps
  <2>2. {f} \in SUBSET todo /\ todo' = todo \ {f} /\ UNCHANGED <<stale, delivered>>
    BY <1>2 DEF AddComplete, CanAdd
  <2> QED
    BY <2>1, <2>2, FlushStepSettles
<1>3. ASSUME NEW o \in Orders, TimerFires(o) \/ OrphanFires(o)
      PROVE  CustodyOfFills!CustodyNext
  <2>1. FlushStep("timer", o, bucket[o] \cup {})
    BY <1>3, FlushSteps
  <2>2. {} \in SUBSET todo /\ todo' = todo \ {} /\ UNCHANGED <<stale, delivered>>
    BY <1>3 DEF TimerFires, OrphanFires, listenerVars
  <2> QED
    BY <2>1, <2>2, FlushStepSettles
<1>4. ASSUME NEW w \in Flushers, NEW o \in Orders, NEW passed \in SUBSET ToVisit(w),
             FlushNext(w, o, passed)
      PROVE  CustodyOfFills!CustodyNext
  <2>1. FlushStep(w, o, bucket[o] \cup {})
    BY <1>4, FlushSteps
  <2>2. {} \in SUBSET todo /\ todo' = todo \ {} /\ UNCHANGED <<stale, delivered>>
    BY <1>4 DEF FlushNext, listenerVars
  <2> QED
    BY <2>1, <2>2, FlushStepSettles
<1>5. ASSUME UNCHANGED <<Held, delivered, dropped>>
      PROVE  UNCHANGED CustodyOfFills!custodyVars
  BY <1>5 DEF CustodyOfFills!custodyVars
<1> QED
  BY <1>1, <1>2, <1>3, <1>4, <1>5, AddStaleSettles, SendNowSettles, SentSettles,
     SendFailedSettles, CustodyKept DEF Next, ListenerStep, FlusherStep, Outcome

(* The safety part of KeepsCustody: the buffer implements the custody of fills. *)
THEOREM ImplementsCustody == SafetySpec => CustodyOfFills!CustodySafety
<1>1. Init => CustodyOfFills!CustodyInit
  BY DEF Init, CustodyOfFills!CustodyInit, Held, Buffered, InFlight, Busy
<1>2. TypeOK /\ FillsInPlace /\ [Next]_vars
          => [CustodyOfFills!CustodyNext]_(CustodyOfFills!custodyVars)
  BY StepsKeepCustody
<1> QED
  BY <1>1, <1>2, TypeCorrect, FillsStayInPlace, PTL
     DEF SafetySpec, CustodyOfFills!CustodySafety

-----------------------------------------------------------------------------
(* No fill the listener accepted vanishes: the same steps, seen from the fill. *)
THEOREM NothingIsLost == SafetySpec => []NoSilentLoss
<1>1. Init => NoSilentLoss
  BY DEF Init, NoSilentLoss
<1>2. TypeOK /\ FillsInPlace /\ NoSilentLoss /\ [Next]_vars => NoSilentLoss'
  <2> SUFFICES ASSUME TypeOK, FillsInPlace, NoSilentLoss, [Next]_vars PROVE NoSilentLoss'
    OBVIOUS
  <2>1. CASE \E fills \in SUBSET Fills : \E complete \in SUBSET fills, errors \in SUBSET Errors :
                 Receive(fills, complete, errors)
    <3>1. PICK fills \in SUBSET Fills, complete \in SUBSET Fills, errors \in SUBSET Errors :
              complete \in SUBSET fills /\ Receive(fills, complete, errors)
      BY <2>1
    <3>2. Held' = Held \cup fills
      BY <3>1, ReceiveTakes
    <3>3. /\ UNCHANGED <<delivered, dropped>>
          /\ \A f \in Fills : f \in fills \/ received'[f] = received[f]
      BY <3>1 DEF Receive
    <3> QED
      BY <3>2, <3>3 DEF NoSilentLoss
  <2>2. CASE UNCHANGED received
    <3>1. [CustodyOfFills!CustodyNext]_(CustodyOfFills!custodyVars)
      BY StepsKeepCustody
    <3>2. Held \cup delivered \cup dropped \subseteq Held' \cup delivered' \cup dropped'
      BY <3>1 DEF CustodyOfFills!CustodyNext, CustodyOfFills!Take, CustodyOfFills!Settle,
                  CustodyOfFills!custodyVars
    <3> QED
      BY <2>2, <3>2 DEF NoSilentLoss
  <2>3. ASSUME NEW f \in Fills, AddStale(f) \/ AddBuffered(f) \/ AddComplete(f) \/ Expire(f)
        PROVE  UNCHANGED received
    BY <2>3 DEF AddStale, AddBuffered, AddComplete, Expire
  <2>4. ASSUME NEW o \in Orders, TimerFires(o) \/ OrphanFires(o) PROVE UNCHANGED received
    BY <2>4 DEF TimerFires, OrphanFires
  <2>5. ASSUME NEW w \in Flushers, Disconnect(w) \/ FlusherStep(w) PROVE UNCHANGED received
    BY <2>5 DEF Disconnect, FlusherStep, FlushNext, FlushEnds, FlushErrors
  <2>6. ASSUME NEW t \in Threads, Outcome(t) PROVE UNCHANGED received
    BY <2>6 DEF Outcome, Sent, SendFailed, ErrorsFailed
  <2>7. ASSUME ExtendErrors \/ SendNow \/ UNCHANGED vars PROVE UNCHANGED received
    BY <2>7 DEF ExtendErrors, SendNow, vars
  <2> QED
    BY <2>1, <2>2, <2>3, <2>4, <2>5, <2>6, <2>7 DEF Next, ListenerStep
<1> QED
  BY <1>1, <1>2, TypeCorrect, FillsStayInPlace, PTL DEF SafetySpec
=============================================================================
