--------------------------- MODULE NotifyingProofs ---------------------------
(***************************************************************************)
(* What a caller of notify may conclude from its outcome, and what         *)
(* concurrent senders of one alert leave of its cooldown, for any number   *)
(* of threads, destinations and retries, and every cooldown.               *)
(***************************************************************************)
EXTENDS Notifying, TLAPS

-----------------------------------------------------------------------------
(* The outcome. *)

\* The destination has confirmed the payload of this call, or failed it.
Settled(t, k) == k \in confirmed[t] \/ \E f \in failures[t] : f[1] = k

(* The loop has settled every destination before the one it stands at, that one too while
   it alerts, and all of them at its end. *)
LoopSettles(t) ==
    /\ at[t] = "idle" => target[t] = 1
    /\ at[t] = "sending" => \A k \in Keys : k < target[t] => Settled(t, k)
    /\ at[t] \in {"alerting", "posting"} => \A k \in Keys : k <= target[t] => Settled(t, k)
    /\ at[t] = "returned" => confirmed[t] # {}
    /\ at[t] = "raised" => confirmed[t] = {} /\ \A k \in Keys : Settled(t, k)

CallInv == TypeOK /\ \A t \in Threads : LoopSettles(t)

(* The step to the next destination keeps its variables' types. *)
LEMMA NextBackendTypes ==
    ASSUME TypeOK, NEW t \in Threads, NextBackend(t)
    PROVE  /\ at' \in [Threads -> {"idle", "sending", "alerting", "posting", "returned", "raised"}]
           /\ target' \in [Threads -> Keys]
           /\ attempts' \in [Threads -> 0..Retries]
<1>1. Retries \in Nat /\ Backends \in Nat
  BY NotifyingAssumption
<1>2. attempts' \in [Threads -> 0..Retries]
  BY <1>1 DEF NextBackend, TypeOK
<1>3. CASE target[t] < Backends
  <2>1. target[t] + 1 \in Keys
    BY <1>1, <1>3 DEF TypeOK, Keys
  <2>2. /\ target' = [target EXCEPT ![t] = target[t] + 1]
        /\ at' = [at EXCEPT ![t] = "sending"]
    BY <1>3 DEF NextBackend
  <2> QED
    BY <1>2, <2>1, <2>2 DEF TypeOK
<1>4. CASE ~(target[t] < Backends)
  <2>1. Outcome(t, failures'[t], confirmed'[t]) \in {"returned", "raised"}
    BY DEF Outcome
  <2> QED
    BY <1>2, <1>4, <2>1 DEF NextBackend, TypeOK
<1> QED
  BY <1>3, <1>4

LEMMA InitTypes == Init => TypeOK
BY NotifyingAssumption DEF Init, TypeOK, Keys

(* TypeOK is inductive. *)
LEMMA StepKeepsTypes ==
    ASSUME TypeOK, [Next]_vars
    PROVE  TypeOK'
<1>1. Retries \in Nat /\ Backends \in Nat \ {0} /\ Cooldown \in Nat /\ PostTime \in Nat
  BY NotifyingAssumption
<1> USE <1>1
<1>2. CASE Tick
  BY <1>2 DEF Tick, TypeOK, AtMost, call
<1>3. ASSUME NEW t \in Threads, Begin(t) PROVE TypeOK'
  BY <1>3 DEF Begin, TypeOK, call, alarm, Keys
<1>4. ASSUME NEW t \in Threads, SendConfirmed(t) PROVE TypeOK'
  <2>1. confirmed' \in [Threads -> SUBSET Keys]
    BY <1>4 DEF SendConfirmed, TypeOK
  <2>2. NextBackend(t) /\ UNCHANGED <<failures, alarm>>
    BY <1>4 DEF SendConfirmed
  <2> QED
    BY <2>1, <2>2, NextBackendTypes DEF TypeOK, alarm
<1>5. ASSUME NEW t \in Threads, SendRetried(t) PROVE TypeOK'
  <2>1. attempts[t] + 1 \in 0..Retries
    BY <1>5 DEF SendRetried, TypeOK
  <2>2. attempts' = [attempts EXCEPT ![t] = attempts[t] + 1]
    BY <1>5 DEF SendRetried
  <2> QED
    BY <1>5, <2>1, <2>2 DEF SendRetried, TypeOK, alarm
<1>6. ASSUME NEW t \in Threads, NEW reason \in {"retryable", "refused"}, SendGivenUp(t, reason)
      PROVE  TypeOK'
  <2>1. failures' \in [Threads -> SUBSET (Keys \X {"retryable", "refused"})]
    BY <1>6 DEF SendGivenUp, TypeOK
  <2> QED
    BY <1>6, <2>1 DEF SendGivenUp, TypeOK, alarm, Keys
<1>7. ASSUME NEW t \in Threads, AlertSuppressed(t) PROVE TypeOK'
  <2>1. NextBackend(t) /\ UNCHANGED <<failures, confirmed, alarm>>
    BY <1>7 DEF AlertSuppressed
  <2> QED
    BY <2>1, NextBackendTypes DEF TypeOK, alarm
<1>8. ASSUME NEW t \in Threads, AlertClaimed(t) PROVE TypeOK'
  <2>1. at' = [at EXCEPT ![t] = "posting"] /\ UNCHANGED <<call, mailAge>>
    BY <1>8 DEF AlertClaimed
  <2>2. claimer' \in [Keys -> Threads \cup {"nobody"}]
    BY <1>8 DEF AlertClaimed, TypeOK
  <2>3. claimAge' \in [Keys -> 0..Cooldown] /\ postAge' \in [Threads -> 0..PostTime]
    BY <1>8 DEF AlertClaimed, TypeOK
  <2> QED
    BY <2>1, <2>2, <2>3 DEF TypeOK, call
<1>9. ASSUME NEW t \in Threads, PostSucceeds(t) PROVE TypeOK'
  <2>1. mailAge' \in [Keys -> 0..Cooldown] /\ postAge' \in [Threads -> 0..PostTime]
    BY <1>9 DEF PostSucceeds, TypeOK, AtMost
  <2>2. NextBackend(t) /\ UNCHANGED <<failures, confirmed, claimer, claimAge>>
    BY <1>9 DEF PostSucceeds
  <2> QED
    BY <2>1, <2>2, NextBackendTypes DEF TypeOK
<1>10. ASSUME NEW t \in Threads, PostFails(t) PROVE TypeOK'
  <2>1. claimer' \in [Keys -> Threads \cup {"nobody"}] /\ postAge' \in [Threads -> 0..PostTime]
    BY <1>10 DEF PostFails, RolledBack, TypeOK
  <2>2. NextBackend(t) /\ UNCHANGED <<failures, confirmed, claimAge, mailAge>>
    BY <1>10 DEF PostFails
  <2> QED
    BY <2>1, <2>2, NextBackendTypes DEF TypeOK
<1>11. ASSUME NEW t \in Threads, End(t) PROVE TypeOK'
  <2>1. at' \in [Threads -> {"idle", "sending", "alerting", "posting", "returned", "raised"}]
    BY <1>11 DEF End, TypeOK
  <2>2. target' \in [Threads -> Keys]
    BY <1>11 DEF End, TypeOK, Keys
  <2>3. /\ failures' \in [Threads -> SUBSET (Keys \X {"retryable", "refused"})]
        /\ confirmed' \in [Threads -> SUBSET Keys]
    BY <1>11 DEF End, TypeOK
  <2> QED
    BY <1>11, <2>1, <2>2, <2>3 DEF End, TypeOK, alarm
<1>12. CASE UNCHANGED vars
  BY <1>12 DEF vars, call, alarm, TypeOK, Keys
<1> QED
  BY <1>2, <1>3, <1>4, <1>5, <1>6, <1>7, <1>8, <1>9, <1>10, <1>11, <1>12 DEF Next, ThreadStep

(* Every variable keeps its type: in particular no destination is tried more often than
   the retries allow, and no post outlasts its timeout. *)
THEOREM TypeCorrect == Spec => []TypeOK
<1>1. TypeOK /\ [Next]_vars => TypeOK'
  BY StepKeepsTypes
<1> QED
  BY <1>1, InitTypes, PTL DEF Spec

-----------------------------------------------------------------------------
(* A step of one thread leaves the calls of the others alone. *)
LEMMA OthersKeepTheirCalls ==
    ASSUME TypeOK, NEW t \in Threads, ThreadStep(t) \/ Begin(t), NEW u \in Threads, u # t
    PROVE  /\ at'[u] = at[u] /\ target'[u] = target[u]
           /\ failures'[u] = failures[u] /\ confirmed'[u] = confirmed[u]
BY DEF ThreadStep, Begin, SendConfirmed, SendRetried, SendGivenUp, AlertSuppressed,
       AlertClaimed, PostSucceeds, PostFails, End, NextBackend, TypeOK, call

(* When the destination in hand is settled, the next may come, or the end. *)
LEMMA NextBackendSettles ==
    ASSUME TypeOK, NEW t \in Threads, NextBackend(t),
           \A k \in Keys : k <= target[t] => Settled(t, k)'
    PROVE  LoopSettles(t)'
<1>1. Backends \in Nat /\ target[t] \in Keys
  BY NotifyingAssumption DEF TypeOK
<1>2. CASE target[t] < Backends
  <2>1. at'[t] = "sending" /\ target'[t] = target[t] + 1
    BY <1>2 DEF NextBackend, TypeOK
  <2> QED
    BY <1>1, <2>1 DEF LoopSettles, Keys
<1>3. CASE ~(target[t] < Backends)
  <2>1. \A k \in Keys : Settled(t, k)'
    BY <1>1, <1>3 DEF Keys
  <2>2. at'[t] = Outcome(t, failures'[t], confirmed'[t])
    BY <1>3 DEF NextBackend, TypeOK
  <2>3. CASE confirmed'[t] # {}
    BY <2>2, <2>3 DEF Outcome, LoopSettles
  <2>4. CASE confirmed'[t] = {}
    BY <2>1, <2>2, <2>4 DEF Outcome, LoopSettles
  <2> QED
    BY <2>3, <2>4
<1> QED
  BY <1>2, <1>3

(* What a thread's own step leaves of its call. *)
LEMMA OwnStepSettles ==
    ASSUME CallInv, NEW t \in Threads, ThreadStep(t) \/ Begin(t)
    PROVE  LoopSettles(t)'
<1>1. TypeOK /\ LoopSettles(t) /\ target[t] \in Keys
  BY DEF CallInv, TypeOK
<1>2. CASE Begin(t)
  <2>1. at'[t] = "sending" /\ target'[t] = 1
    BY <1>1, <1>2 DEF Begin, LoopSettles, TypeOK, call
  <2> QED
    BY <2>1 DEF LoopSettles, Keys
<1>3. CASE SendConfirmed(t)
  <2>1. /\ failures' = failures /\ NextBackend(t)
        /\ confirmed'[t] = confirmed[t] \cup {target[t]}
    BY <1>1, <1>3 DEF SendConfirmed, TypeOK
  <2>2. \A k \in Keys : k <= target[t] => Settled(t, k)'
    BY <1>1, <1>3, <2>1, NotifyingAssumption DEF SendConfirmed, LoopSettles, Settled, Keys
  <2> QED
    BY <1>1, <2>1, <2>2, NextBackendSettles
<1>4. CASE SendRetried(t)
  BY <1>1, <1>4 DEF SendRetried, LoopSettles, Settled
<1>5. ASSUME NEW reason \in {"retryable", "refused"}, SendGivenUp(t, reason)
      PROVE  LoopSettles(t)'
  <2>1. /\ at'[t] = "alerting" /\ target' = target /\ confirmed' = confirmed
        /\ failures'[t] = failures[t] \cup {<<target[t], reason>>}
    BY <1>1, <1>5 DEF SendGivenUp, TypeOK
  <2>2. <<target[t], reason>>[1] = target[t]
    OBVIOUS
  <2>3. \A k \in Keys : k <= target[t] => Settled(t, k)'
    <3> SUFFICES ASSUME NEW k \in Keys, k <= target[t] PROVE Settled(t, k)'
      OBVIOUS
    <3>1. CASE k = target[t]
      <4>1. <<target[t], reason>> \in failures'[t]
        BY <2>1
      <4> QED
        BY <2>2, <3>1, <4>1 DEF Settled
    <3>2. CASE k < target[t]
      <4>1. Settled(t, k)
        BY <1>1, <1>5, <3>2 DEF SendGivenUp, LoopSettles
      <4> QED
        BY <2>1, <4>1 DEF Settled
    <3> QED
      BY <1>1, <3>1, <3>2, NotifyingAssumption DEF Keys
  <2> QED
    BY <2>1, <2>3 DEF LoopSettles
<1>6. CASE AlertSuppressed(t) \/ PostSucceeds(t) \/ PostFails(t)
  <2>1. NextBackend(t) /\ UNCHANGED <<failures, confirmed>> /\ at[t] \in {"alerting", "posting"}
    BY <1>6 DEF AlertSuppressed, PostSucceeds, PostFails
  <2>2. \A k \in Keys : k <= target[t] => Settled(t, k)'
    BY <1>1, <2>1 DEF LoopSettles, Settled
  <2> QED
    BY <1>1, <2>1, <2>2, NextBackendSettles
<1>7. CASE AlertClaimed(t)
  <2>1. at[t] = "alerting" /\ at'[t] = "posting" /\ UNCHANGED call
    BY <1>1, <1>7 DEF AlertClaimed, TypeOK
  <2> QED
    BY <1>1, <2>1 DEF LoopSettles, Settled, call
<1>8. CASE End(t)
  <2>1. at'[t] = "idle" /\ target'[t] = 1
    BY <1>1, <1>8 DEF End, TypeOK
  <2> QED
    BY <2>1 DEF LoopSettles
<1> QED
  BY <1>2, <1>3, <1>4, <1>5, <1>6, <1>7, <1>8 DEF ThreadStep

LEMMA StepKeepsCalls ==
    ASSUME CallInv, [Next]_vars
    PROVE  CallInv'
<1>1. TypeOK'
  BY StepKeepsTypes DEF CallInv
<1>2. ASSUME UNCHANGED <<at, call>> PROVE \A t \in Threads : LoopSettles(t)'
  BY <1>2 DEF CallInv, LoopSettles, Settled, call
<1>3. ASSUME NEW t \in Threads, ThreadStep(t) \/ Begin(t), NEW u \in Threads
      PROVE  LoopSettles(u)'
  <2>1. CASE u = t
    BY <1>3, <2>1, OwnStepSettles
  <2>2. CASE u # t
    <3>1. /\ at'[u] = at[u] /\ target'[u] = target[u]
          /\ failures'[u] = failures[u] /\ confirmed'[u] = confirmed[u]
      BY <1>3, <2>2, OthersKeepTheirCalls DEF CallInv
    <3>2. \A k \in Keys : Settled(u, k) => Settled(u, k)'
      BY <3>1 DEF Settled
    <3>3. LoopSettles(u)
      BY DEF CallInv
    <3> QED
      BY <3>1, <3>2, <3>3 DEF LoopSettles
  <2> QED
    BY <2>1, <2>2
<1>4. CASE Tick \/ UNCHANGED vars
  BY <1>1, <1>2, <1>4 DEF Tick, vars, CallInv
<1>5. CASE \E t \in Threads : Begin(t) \/ ThreadStep(t)
  BY <1>1, <1>3, <1>5 DEF CallInv
<1> QED
  BY <1>4, <1>5 DEF Next

(* The outcome of a call says what became of the payload, which the caller's marking and
   sending again rest on: notify, "If at least one backend succeeds, return normally". *)
THEOREM OutcomesAreTrue == Spec => []OutcomeIsTrue
<1>1. Init => CallInv
  BY InitTypes DEF Init, CallInv, LoopSettles
<1>2. CallInv /\ [Next]_vars => CallInv'
  BY StepKeepsCalls
<1>3. CallInv => OutcomeIsTrue
  <2> SUFFICES ASSUME CallInv, NEW t \in Threads, at[t] = "raised"
               PROVE  /\ confirmed[t] = {}
                      /\ \A k \in Keys : \E f \in failures[t] : f[1] = k
                      /\ ~Transient(t) => \A k \in Keys : <<k, "refused">> \in failures[t]
    BY DEF OutcomeIsTrue, CallInv, LoopSettles
  <2>1. confirmed[t] = {} /\ \A k \in Keys : \E f \in failures[t] : f[1] = k
    BY DEF CallInv, LoopSettles, Settled
  <2>2. \A f \in failures[t] :
            /\ f = <<f[1], f[2]>> /\ f[2] \in {"retryable", "refused"}
    BY DEF CallInv, TypeOK
  <2>3. ASSUME ~Transient(t), NEW k \in Keys PROVE <<k, "refused">> \in failures[t]
    <3>1. PICK f \in failures[t] : f[1] = k
      BY <2>1
    <3>2. f[2] = "refused"
      BY <2>2, <2>3 DEF Transient
    <3> QED
      BY <2>2, <3>1, <3>2
  <2> QED
    BY <2>1, <2>3
<1> QED
  BY <1>1, <1>2, <1>3, PTL DEF Spec

-----------------------------------------------------------------------------
(* The emails. *)

(* The claim of a delivered email stands, and is as old as the email's. *)
MailsKeepTheirClaims ==
    \A k \in Keys : mailAge[k] < Cooldown => claimer[k] # "nobody" /\ claimAge[k] = mailAge[k]

(* A thread that posts still owns the claim it posts under, and no email of its key is
   young, or its claim has outlived the cooldown. *)
PostsKeepTheirClaims ==
    \A t \in Threads : at[t] = "posting" =>
        IF claimer[target[t]] = t
        THEN claimAge[target[t]] = AtMost(postAge[t], Cooldown) /\ mailAge[target[t]] = Cooldown
        ELSE postAge[t] >= Cooldown

AlertInv == TypeOK /\ MailsKeepTheirClaims /\ PostsKeepTheirClaims /\ SuppressedOnlyByAnEmail

(* A step after which the alerter's state is the same, and the threads that post, too. *)
LEMMA NoAlertStep ==
    ASSUME AlertInv, TypeOK', UNCHANGED alarm,
           \A t \in Threads : at'[t] = "posting" <=> at[t] = "posting",
           \A t \in Threads : at[t] = "posting" => target'[t] = target[t]
    PROVE  AlertInv'
<1>1. MailsKeepTheirClaims' /\ PostsKeepTheirClaims'
  BY DEF AlertInv, MailsKeepTheirClaims, PostsKeepTheirClaims, alarm, AtMost
<1>2. SuppressedOnlyByAnEmail'
  <2> SUFFICES ASSUME NEW k \in Keys, Suppressed(k)', ~(mailAge'[k] < Cooldown)
               PROVE  at'[claimer'[k]] = "posting" /\ target'[claimer'[k]] = k
    BY DEF SuppressedOnlyByAnEmail
  <2>1. Suppressed(k) /\ claimer'[k] = claimer[k] /\ ~(mailAge[k] < Cooldown)
    BY DEF Suppressed, alarm
  <2>2. claimer[k] \in Threads
    BY <2>1 DEF AlertInv, TypeOK, Suppressed
  <2> QED
    BY <2>1, <2>2 DEF AlertInv, SuppressedOnlyByAnEmail
<1> QED
  BY <1>1, <1>2 DEF AlertInv

(* Where a thread stands after it has gone on to the next destination. *)
LEMMA NextBackendMoves ==
    ASSUME TypeOK, NEW t \in Threads, NextBackend(t)
    PROVE  /\ at'[t] # "posting"
           /\ \A u \in Threads \ {t} : at'[u] = at[u] /\ target'[u] = target[u]
BY DEF NextBackend, TypeOK, Outcome

LEMMA TickKeepsAlerts ==
    ASSUME AlertInv, TypeOK', Tick
    PROVE  AlertInv'
<1>1. Cooldown \in Nat
  BY NotifyingAssumption
<1>2. /\ claimAge \in [Keys -> 0..Cooldown] /\ mailAge \in [Keys -> 0..Cooldown]
      /\ postAge \in [Threads -> 0..PostTime] /\ target \in [Threads -> Keys]
      /\ UNCHANGED <<at, target, claimer>>
  BY DEF AlertInv, TypeOK, Tick, call
<1>3. /\ \A k \in Keys : /\ claimAge'[k] = AtMost(claimAge[k] + 1, Cooldown)
                         /\ mailAge'[k] = AtMost(mailAge[k] + 1, Cooldown)
      /\ \A t \in Threads : at[t] = "posting" => postAge'[t] = postAge[t] + 1
  BY DEF Tick
<1>4. MailsKeepTheirClaims'
  BY <1>1, <1>2, <1>3 DEF AlertInv, MailsKeepTheirClaims, AtMost
<1>5. PostsKeepTheirClaims'
  <2> SUFFICES ASSUME NEW t \in Threads, at[t] = "posting"
               PROVE  IF claimer[target[t]] = t
                      THEN /\ claimAge'[target[t]] = AtMost(postAge'[t], Cooldown)
                           /\ mailAge'[target[t]] = Cooldown
                      ELSE postAge'[t] >= Cooldown
    BY <1>2 DEF PostsKeepTheirClaims
  <2>1. target[t] \in Keys /\ postAge[t] \in Nat /\ PostTime \in Nat
    BY <1>2, NotifyingAssumption
  <2>2. IF claimer[target[t]] = t
        THEN claimAge[target[t]] = AtMost(postAge[t], Cooldown) /\ mailAge[target[t]] = Cooldown
        ELSE postAge[t] >= Cooldown
    BY DEF AlertInv, PostsKeepTheirClaims
  <2> QED
    BY <1>1, <1>3, <2>1, <2>2 DEF AtMost
<1>6. SuppressedOnlyByAnEmail'
  <2> SUFFICES ASSUME NEW k \in Keys, Suppressed(k)', ~(mailAge'[k] < Cooldown)
               PROVE  at[claimer[k]] = "posting" /\ target[claimer[k]] = k
    BY <1>2 DEF SuppressedOnlyByAnEmail
  <2>1. claimer[k] # "nobody" /\ claimAge[k] + 1 < Cooldown
    BY <1>1, <1>2, <1>3 DEF Suppressed, AtMost
  <2>2. mailAge[k] = Cooldown
    BY <1>1, <1>2, <1>3, <2>1 DEF AlertInv, MailsKeepTheirClaims, AtMost
  <2> QED
    BY <1>1, <1>2, <2>1, <2>2 DEF AlertInv, SuppressedOnlyByAnEmail, Suppressed
<1> QED
  BY <1>4, <1>5, <1>6 DEF AlertInv

(* A claim is made where none stands: no email of the key is young, and a thread that still
   posts under an older claim has outlived its own. *)
LEMMA ClaimKeepsAlerts ==
    ASSUME AlertInv, TypeOK', NEW t \in Threads, AlertClaimed(t)
    PROVE  AlertInv'
<1> DEFINE k == target[t]
<1>1. /\ Cooldown \in Nat /\ k \in Keys /\ at[t] = "alerting" /\ ~Suppressed(k)
      /\ UNCHANGED <<target, mailAge>>
  BY NotifyingAssumption DEF AlertInv, TypeOK, AlertClaimed, call
<1>2. /\ claimer'[k] = t /\ claimAge'[k] = 0 /\ postAge'[t] = 0 /\ at'[t] = "posting"
      /\ \A j \in Keys \ {k} : claimer'[j] = claimer[j] /\ claimAge'[j] = claimAge[j]
      /\ \A u \in Threads \ {t} : postAge'[u] = postAge[u] /\ at'[u] = at[u]
  BY <1>1 DEF AlertInv, TypeOK, AlertClaimed
<1>3. t # "nobody"
  BY ThreadsAssumption
<1>4. mailAge[k] = Cooldown
  <2>1. mailAge[k] \in 0..Cooldown
    BY <1>1 DEF AlertInv, TypeOK
  <2>2. ~(mailAge[k] < Cooldown)
    BY <1>1 DEF AlertInv, MailsKeepTheirClaims, Suppressed
  <2> QED
    BY <1>1, <2>1, <2>2
<1>5. MailsKeepTheirClaims'
  BY <1>1, <1>2, <1>4 DEF AlertInv, MailsKeepTheirClaims
<1>6. PostsKeepTheirClaims'
  <2> SUFFICES ASSUME NEW u \in Threads, at'[u] = "posting"
               PROVE  IF claimer'[target[u]] = u
                      THEN /\ claimAge'[target[u]] = AtMost(postAge'[u], Cooldown)
                           /\ mailAge[target[u]] = Cooldown
                      ELSE postAge'[u] >= Cooldown
    BY <1>1 DEF PostsKeepTheirClaims
  <2>1. CASE u = t
    BY <1>1, <1>2, <1>4, <2>1 DEF AtMost
  <2>2. CASE u # t
    <3>1. /\ at[u] = "posting" /\ postAge'[u] = postAge[u] /\ target[u] \in Keys
          /\ postAge[u] \in Nat /\ claimAge[k] \in Nat
      BY <1>1, <1>2, <2>2, NotifyingAssumption DEF AlertInv, TypeOK
    <3>2. IF claimer[target[u]] = u
          THEN claimAge[target[u]] = AtMost(postAge[u], Cooldown) /\ mailAge[target[u]] = Cooldown
          ELSE postAge[u] >= Cooldown
      BY <3>1 DEF AlertInv, PostsKeepTheirClaims
    <3>3. CASE target[u] = k
      <4>1. claimer'[target[u]] # u
        BY <1>2, <2>2, <3>3
      <4>2. CASE claimer[k] = u
        <5>1. claimAge[k] >= Cooldown
          BY <1>1, <3>1, <4>2, ThreadsAssumption DEF Suppressed
        <5> QED
          BY <1>1, <3>1, <3>2, <3>3, <4>1, <4>2, <5>1 DEF AtMost
      <4>3. CASE claimer[k] # u
        BY <3>1, <3>2, <3>3, <4>1, <4>3
      <4> QED
        BY <4>2, <4>3
    <3>4. CASE target[u] # k
      <4>1. claimer'[target[u]] = claimer[target[u]] /\ claimAge'[target[u]] = claimAge[target[u]]
        BY <1>2, <3>1, <3>4
      <4> QED
        BY <3>1, <3>2, <4>1
    <3> QED
      BY <3>3, <3>4
  <2> QED
    BY <2>1, <2>2
<1>7. SuppressedOnlyByAnEmail'
  <2> SUFFICES ASSUME NEW j \in Keys, Suppressed(j)', ~(mailAge[j] < Cooldown)
               PROVE  at'[claimer'[j]] = "posting" /\ target[claimer'[j]] = j
    BY <1>1 DEF SuppressedOnlyByAnEmail
  <2>1. CASE j = k
    BY <1>2, <2>1
  <2>2. CASE j # k
    <3>1. Suppressed(j) /\ claimer'[j] = claimer[j] /\ claimer[j] \in Threads
      BY <1>2, <2>2 DEF Suppressed, AlertInv, TypeOK
    <3>2. at[claimer[j]] = "posting" /\ target[claimer[j]] = j
      BY <3>1 DEF AlertInv, SuppressedOnlyByAnEmail
    <3> QED
      BY <1>1, <1>2, <3>1, <3>2
  <2> QED
    BY <2>1, <2>2
<1> QED
  BY <1>5, <1>6, <1>7 DEF AlertInv

(* An email is taken: if its claim still stands, it belongs to the email from now on, and if
   not, the email is as old as the cooldown and silences nothing. *)
LEMMA SuccessKeepsAlerts ==
    ASSUME AlertInv, TypeOK', NEW t \in Threads, PostSucceeds(t)
    PROVE  AlertInv'
<1> DEFINE k == target[t]
<1>1. /\ Cooldown \in Nat /\ PostTime \in Nat /\ k \in Keys /\ at[t] = "posting" /\ postAge[t] \in Nat
      /\ NextBackend(t) /\ UNCHANGED <<claimer, claimAge>>
      /\ \A j \in Keys : mailAge[j] \in 0..Cooldown /\ claimAge[j] \in 0..Cooldown
  BY NotifyingAssumption DEF AlertInv, TypeOK, PostSucceeds
<1>2. /\ mailAge'[k] = AtMost(postAge[t], mailAge[k])
      /\ \A j \in Keys \ {k} : mailAge'[j] = mailAge[j]
      /\ \A u \in Threads \ {t} : postAge'[u] = postAge[u]
  BY <1>1 DEF AlertInv, TypeOK, PostSucceeds
<1>3. /\ at'[t] # "posting"
      /\ \A u \in Threads \ {t} : at'[u] = at[u] /\ target'[u] = target[u]
  BY <1>1, NextBackendMoves DEF AlertInv
<1>4. IF claimer[k] = t THEN claimAge[k] = AtMost(postAge[t], Cooldown) /\ mailAge[k] = Cooldown
                        ELSE postAge[t] >= Cooldown
  BY <1>1 DEF AlertInv, PostsKeepTheirClaims
<1>5. claimer[k] # t => mailAge'[k] = mailAge[k]
  BY <1>1, <1>2, <1>4 DEF AtMost
<1>6. claimer[k] = t => mailAge'[k] = claimAge[k]
  BY <1>1, <1>2, <1>4 DEF AtMost
<1>7. MailsKeepTheirClaims'
  <2> SUFFICES ASSUME NEW j \in Keys, mailAge'[j] < Cooldown
               PROVE  claimer[j] # "nobody" /\ claimAge[j] = mailAge'[j]
    BY <1>1 DEF MailsKeepTheirClaims
  <2>1. CASE j = k /\ claimer[k] = t
    BY <1>6, <2>1, ThreadsAssumption
  <2>2. CASE ~(j = k /\ claimer[k] = t)
    BY <1>2, <1>5, <2>2 DEF AlertInv, MailsKeepTheirClaims
  <2> QED
    BY <2>1, <2>2
<1>8. PostsKeepTheirClaims'
  <2> SUFFICES ASSUME NEW u \in Threads, at'[u] = "posting"
               PROVE  IF claimer[target'[u]] = u
                      THEN /\ claimAge[target'[u]] = AtMost(postAge'[u], Cooldown)
                           /\ mailAge'[target'[u]] = Cooldown
                      ELSE postAge'[u] >= Cooldown
    BY <1>1 DEF PostsKeepTheirClaims
  <2>1. /\ u # t /\ at[u] = "posting" /\ target'[u] = target[u] /\ postAge'[u] = postAge[u]
        /\ target[u] \in Keys
    BY <1>2, <1>3 DEF AlertInv, TypeOK
  <2>2. IF claimer[target[u]] = u
        THEN claimAge[target[u]] = AtMost(postAge[u], Cooldown) /\ mailAge[target[u]] = Cooldown
        ELSE postAge[u] >= Cooldown
    BY <2>1 DEF AlertInv, PostsKeepTheirClaims
  <2>3. claimer[target[u]] = u => mailAge'[target[u]] = mailAge[target[u]]
    BY <1>2, <1>5, <2>1
  <2> QED
    BY <2>1, <2>2, <2>3
<1>9. SuppressedOnlyByAnEmail'
  <2> SUFFICES ASSUME NEW j \in Keys, Suppressed(j)', ~(mailAge'[j] < Cooldown)
               PROVE  at'[claimer[j]] = "posting" /\ target'[claimer[j]] = j
    BY <1>1 DEF SuppressedOnlyByAnEmail
  <2>1. Suppressed(j) /\ claimer[j] \in Threads /\ claimAge[j] < Cooldown
    BY <1>1 DEF Suppressed, AlertInv, TypeOK
  <2>2. ~(mailAge[j] < Cooldown)
    BY <1>1, <1>2 DEF AtMost
  <2>3. at[claimer[j]] = "posting" /\ target[claimer[j]] = j
    BY <2>1, <2>2 DEF AlertInv, SuppressedOnlyByAnEmail
  <2>4. claimer[j] # t
    BY <1>6, <2>1, <2>3
  <2> QED
    BY <1>3, <2>1, <2>3, <2>4
<1> QED
  BY <1>7, <1>8, <1>9 DEF AlertInv

(* An email is refused: a claim that is still the thread's own stands for no email, and goes;
   another thread's stays. *)
LEMMA FailureKeepsAlerts ==
    ASSUME AlertInv, TypeOK', NEW t \in Threads, PostFails(t)
    PROVE  AlertInv'
<1> DEFINE k == target[t]
<1>1. /\ Cooldown \in Nat /\ k \in Keys /\ at[t] = "posting"
      /\ NextBackend(t) /\ UNCHANGED <<claimAge, mailAge>> /\ claimer' = RolledBack(t)
  BY NotifyingAssumption DEF AlertInv, TypeOK, PostFails
<1>2. /\ claimer[k] = t => claimer'[k] = "nobody"
      /\ claimer[k] # t => claimer'[k] = claimer[k]
      /\ \A j \in Keys \ {k} : claimer'[j] = claimer[j]
  BY <1>1 DEF AlertInv, TypeOK, RolledBack
<1>3. \A u \in Threads \ {t} : postAge'[u] = postAge[u]
  BY DEF AlertInv, TypeOK, PostFails
<1>4. /\ at'[t] # "posting"
      /\ \A u \in Threads \ {t} : at'[u] = at[u] /\ target'[u] = target[u]
  BY <1>1, NextBackendMoves DEF AlertInv
<1>5. claimer[k] = t => ~(mailAge[k] < Cooldown)
  BY <1>1 DEF AlertInv, PostsKeepTheirClaims
<1>6. MailsKeepTheirClaims'
  BY <1>1, <1>2, <1>5 DEF AlertInv, MailsKeepTheirClaims
<1>7. PostsKeepTheirClaims'
  <2> SUFFICES ASSUME NEW u \in Threads, at'[u] = "posting"
               PROVE  IF claimer'[target'[u]] = u
                      THEN /\ claimAge[target'[u]] = AtMost(postAge'[u], Cooldown)
                           /\ mailAge[target'[u]] = Cooldown
                      ELSE postAge'[u] >= Cooldown
    BY <1>1 DEF PostsKeepTheirClaims
  <2>1. /\ u # t /\ at[u] = "posting" /\ target'[u] = target[u] /\ postAge'[u] = postAge[u]
        /\ target[u] \in Keys
    BY <1>3, <1>4 DEF AlertInv, TypeOK
  <2>2. IF claimer[target[u]] = u
        THEN claimAge[target[u]] = AtMost(postAge[u], Cooldown) /\ mailAge[target[u]] = Cooldown
        ELSE postAge[u] >= Cooldown
    BY <2>1 DEF AlertInv, PostsKeepTheirClaims
  <2>3. claimer'[target[u]] = u <=> claimer[target[u]] = u
    BY <1>2, <2>1, ThreadsAssumption
  <2> QED
    BY <2>1, <2>2, <2>3
<1>8. SuppressedOnlyByAnEmail'
  <2> SUFFICES ASSUME NEW j \in Keys, Suppressed(j)', ~(mailAge[j] < Cooldown)
               PROVE  at'[claimer'[j]] = "posting" /\ target'[claimer'[j]] = j
    BY <1>1 DEF SuppressedOnlyByAnEmail
  <2>1. Suppressed(j) /\ claimer'[j] = claimer[j] /\ claimer[j] \in Threads
    BY <1>1, <1>2 DEF Suppressed, AlertInv, TypeOK
  <2>2. at[claimer[j]] = "posting" /\ target[claimer[j]] = j
    BY <2>1 DEF AlertInv, SuppressedOnlyByAnEmail
  <2>3. claimer[j] # t
    BY <1>1, <1>2, <2>1, <2>2 DEF Suppressed
  <2> QED
    BY <1>4, <2>1, <2>2, <2>3
<1> QED
  BY <1>6, <1>7, <1>8 DEF AlertInv

LEMMA StepKeepsAlerts ==
    ASSUME AlertInv, [Next]_vars
    PROVE  AlertInv'
<1>1. TypeOK'
  BY StepKeepsTypes DEF AlertInv
<1>2. CASE Tick
  BY <1>1, <1>2, TickKeepsAlerts
<1>3. ASSUME NEW t \in Threads,
             Begin(t) \/ SendRetried(t) \/ End(t) \/ \E reason \in {"retryable", "refused"} : SendGivenUp(t, reason)
      PROVE  AlertInv'
  <2>1. /\ UNCHANGED alarm
        /\ \A u \in Threads : at'[u] = "posting" <=> at[u] = "posting"
        /\ \A u \in Threads : at[u] = "posting" => target'[u] = target[u]
    BY <1>3 DEF AlertInv, TypeOK, Begin, SendRetried, End, SendGivenUp, call
  <2> QED
    BY <1>1, <2>1, NoAlertStep
<1>4. ASSUME NEW t \in Threads, SendConfirmed(t) \/ AlertSuppressed(t)
      PROVE  AlertInv'
  <2>1. NextBackend(t) /\ UNCHANGED alarm /\ at[t] # "posting"
    BY <1>4 DEF SendConfirmed, AlertSuppressed
  <2>2. /\ at'[t] # "posting"
        /\ \A u \in Threads \ {t} : at'[u] = at[u] /\ target'[u] = target[u]
    BY <2>1, NextBackendMoves DEF AlertInv
  <2>3. /\ \A u \in Threads : at'[u] = "posting" <=> at[u] = "posting"
        /\ \A u \in Threads : at[u] = "posting" => target'[u] = target[u]
    BY <2>1, <2>2
  <2> QED
    BY <1>1, <2>1, <2>3, NoAlertStep
<1>5. ASSUME NEW t \in Threads, AlertClaimed(t) \/ PostSucceeds(t) \/ PostFails(t)
      PROVE  AlertInv'
  BY <1>1, <1>5, ClaimKeepsAlerts, SuccessKeepsAlerts, FailureKeepsAlerts
<1>6. CASE UNCHANGED vars
  BY <1>1, <1>6, NoAlertStep DEF vars, call
<1> QED
  BY <1>2, <1>3, <1>4, <1>5, <1>6 DEF Next, ThreadStep

LEMMA InitAlerts == Init => AlertInv
<1> SUFFICES ASSUME Init PROVE AlertInv
  OBVIOUS
<1>1. /\ \A k \in Keys : claimer[k] = "nobody" /\ ~(mailAge[k] < Cooldown)
      /\ \A t \in Threads : at[t] # "posting"
  BY NotifyingAssumption DEF Init
<1> QED
  BY <1>1, InitTypes
  DEF AlertInv, MailsKeepTheirClaims, PostsKeepTheirClaims, SuppressedOnlyByAnEmail, Suppressed

(* send_alert under any number of concurrent senders of a key: a claim that stands is that
   of a delivered email or of one being posted. *)
THEOREM ClaimsBelongToEmails == Spec => []AlertInv
<1>1. AlertInv /\ [Next]_vars => AlertInv'
  BY StepKeepsAlerts
<1> QED
  BY <1>1, InitAlerts, PTL DEF Spec

(* A delivered email silences its key for the whole cooldown, whatever other threads claim,
   post and roll back meanwhile. *)
THEOREM EmailsHoldTheirCooldown == Spec => []EmailHoldsItsCooldown
<1>1. AlertInv => EmailHoldsItsCooldown
  BY DEF AlertInv, MailsKeepTheirClaims, EmailHoldsItsCooldown, Suppressed
<1> QED
  BY <1>1, ClaimsBelongToEmails, PTL

(* No alert is suppressed but on account of an email that was delivered or is being posted. *)
THEOREM OnlyEmailsSuppress == Spec => []SuppressedOnlyByAnEmail
<1>1. AlertInv => SuppressedOnlyByAnEmail
  BY DEF AlertInv
<1> QED
  BY <1>1, ClaimsBelongToEmails, PTL
=============================================================================
