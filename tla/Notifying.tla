------------------------------ MODULE Notifying ------------------------------
(***************************************************************************)
(* The dispatch of a payload to every configured destination               *)
(* (relay_core/notifier/__init__.py, notify) by the threads that send      *)
(* batches, and the email each failed destination calls for                *)
(* (relay_core/alerter.py, send_alert), whose cooldown the threads share.  *)
(* The caller marks the fills as processed when notify returns and sends   *)
(* them again when it raises (Delivery).                                   *)
(*                                                                         *)
(* A send is confirmed (2xx), refused (4xx, or an error that is not HTTP)  *)
(* or fails in a way that is worth a retry (5xx, timeout, network), and in *)
(* that case the destination may have taken the payload all the same.      *)
(* Time runs in ticks; the age of a claim stops where it no longer matters.*)
(***************************************************************************)
EXTENDS Naturals, FiniteSets

CONSTANTS
    Threads,     \* worker threads that may be inside notify at a time
    Backends,    \* notifiers, 1..Backends in the order of the configuration
    Retries,     \* NOTIFY_RETRIES
    Cooldown,    \* ALERT_COOLDOWN_MINUTES, in ticks
    PostTime     \* bound: ticks the mail service may take to answer

ASSUME NotifyingAssumption ==
    Backends \in Nat \ {0} /\ Retries \in Nat /\ Cooldown \in Nat /\ PostTime \in Nat
ASSUME ThreadsAssumption == "nobody" \notin Threads

VARIABLES
    at,        \* where the thread stands
    target,    \* the backend its loop has come to
    attempts,  \* failed attempts on it
    failures,  \* backends that failed, each with its last exception
    confirmed, \* backends that answered 2xx
    claimer,   \* whose claim _last_alert_at[key] holds; one key per backend
    claimAge,  \* how long ago it was made
    postAge,   \* how long ago the thread made the claim it posts under
    mailAge    \* ghost: how long ago the latest claim of a delivered email was made

call  == <<target, attempts, failures, confirmed>>
alarm == <<claimer, claimAge, postAge, mailAge>>
vars  == <<at, call, alarm>>

-----------------------------------------------------------------------------
Keys == 1..Backends

AtMost(n, bound) == IF n < bound THEN n ELSE bound

Init ==
    /\ at = [t \in Threads |-> "idle"]
    /\ target = [t \in Threads |-> 1]
    /\ attempts = [t \in Threads |-> 0]
    /\ failures = [t \in Threads |-> {}]
    /\ confirmed = [t \in Threads |-> {}]
    /\ claimer = [k \in Keys |-> "nobody"]
    /\ claimAge = [k \in Keys |-> Cooldown]
    /\ postAge = [t \in Threads |-> 0]
    /\ mailAge = [k \in Keys |-> Cooldown]

\* Mutant: a destination that fails makes the call fail.
OutcomeOfAll(t, failed, taken) == IF failed = {} THEN "returned" ELSE "raised"

\* "If at least one backend succeeds, return normally."
Outcome(t, failed, taken) == IF taken # {} THEN "returned" ELSE "raised"

(* The loop goes on to the next backend, or the call is over. *)
NextBackend(t) ==
    /\ attempts' = [attempts EXCEPT ![t] = 0]
    /\ IF target[t] < Backends
       THEN target' = [target EXCEPT ![t] = @ + 1] /\ at' = [at EXCEPT ![t] = "sending"]
       ELSE /\ at' = [at EXCEPT ![t] = Outcome(t, failures'[t], confirmed'[t])]
            /\ UNCHANGED target

-----------------------------------------------------------------------------
(* notify. *)

Begin(t) ==
    /\ at[t] = "idle"
    /\ at' = [at EXCEPT ![t] = "sending"]
    /\ UNCHANGED <<call, alarm>>

SendConfirmed(t) ==
    /\ at[t] = "sending"
    /\ confirmed' = [confirmed EXCEPT ![t] = @ \cup {target[t]}]
    /\ UNCHANGED failures
    /\ NextBackend(t)
    /\ UNCHANGED alarm

\* Mutant: the first attempt is not counted.
SendRetriedOnceMore(t) ==
    /\ at[t] = "sending" /\ attempts[t] <= Retries
    /\ attempts' = [attempts EXCEPT ![t] = @ + 1]
    /\ UNCHANGED <<at, target, failures, confirmed, alarm>>

\* The attempt failed in a way _is_retryable accepts, and there is another one.
SendRetried(t) ==
    /\ at[t] = "sending" /\ attempts[t] < Retries
    /\ attempts' = [attempts EXCEPT ![t] = @ + 1]
    /\ UNCHANGED <<at, target, failures, confirmed, alarm>>

\* The last attempt, or one no retry can help.
SendGivenUp(t, reason) ==
    /\ at[t] = "sending"
    /\ reason = "retryable" => attempts[t] = Retries
    /\ failures' = [failures EXCEPT ![t] = @ \cup {<<target[t], reason>>}]
    /\ at' = [at EXCEPT ![t] = "alerting"]
    /\ UNCHANGED <<target, attempts, confirmed, alarm>>

\* is_transient_failure: the caller may send the payload again later.
Transient(t) == \E f \in failures[t] : f[2] = "retryable"

\* The caller takes note of the outcome, and the thread is free again.
End(t) ==
    /\ at[t] \in {"returned", "raised"}
    /\ at' = [at EXCEPT ![t] = "idle"]
    /\ target' = [target EXCEPT ![t] = 1]
    /\ failures' = [failures EXCEPT ![t] = {}]
    /\ confirmed' = [confirmed EXCEPT ![t] = {}]
    /\ UNCHANGED <<attempts, alarm>>

-----------------------------------------------------------------------------
(* send_alert.  What notify does next is the same however it ends. *)

Suppressed(k) == claimer[k] # "nobody" /\ claimAge[k] < Cooldown

\* Mutant: a suppressed alert starts the cooldown anew.
AlertSuppressedAndExtended(t) ==
    LET k == target[t]
    IN  /\ at[t] = "alerting" /\ Suppressed(k)
        /\ claimAge' = [claimAge EXCEPT ![k] = 0]
        /\ UNCHANGED <<failures, confirmed, claimer, postAge, mailAge>>
        /\ NextBackend(t)

AlertSuppressed(t) ==
    /\ at[t] = "alerting" /\ Suppressed(target[t])
    /\ UNCHANGED <<failures, confirmed, alarm>>
    /\ NextBackend(t)

\* The claim is made under the lock, the email is posted outside it.
AlertClaimed(t) ==
    LET k == target[t]
    IN  /\ at[t] = "alerting" /\ ~Suppressed(k)
        /\ claimer' = [claimer EXCEPT ![k] = t]
        /\ claimAge' = [claimAge EXCEPT ![k] = 0]
        /\ postAge' = [postAge EXCEPT ![t] = 0]
        /\ at' = [at EXCEPT ![t] = "posting"]
        /\ UNCHANGED <<call, mailAge>>

PostSucceeds(t) ==
    /\ at[t] = "posting"
    /\ mailAge' = [mailAge EXCEPT ![target[t]] = AtMost(postAge[t], @)]
    /\ postAge' = [postAge EXCEPT ![t] = 0]
    /\ UNCHANGED <<failures, confirmed, claimer, claimAge>>
    /\ NextBackend(t)

\* Mutant: whatever claim the key holds is rolled back.
RolledBackAny(t) == [claimer EXCEPT ![target[t]] = "nobody"]

\* Mutant: the claim of a failed email stands.
NotRolledBack(t) == claimer

\* "Only roll back our own claim."
RolledBack(t) ==
    IF claimer[target[t]] = t THEN [claimer EXCEPT ![target[t]] = "nobody"] ELSE claimer

PostFails(t) ==
    /\ at[t] = "posting"
    /\ claimer' = RolledBack(t)
    /\ postAge' = [postAge EXCEPT ![t] = 0]
    /\ UNCHANGED <<failures, confirmed, claimAge, mailAge>>
    /\ NextBackend(t)

-----------------------------------------------------------------------------
Tick ==
    /\ \A t \in Threads : at[t] = "posting" => postAge[t] < PostTime
    /\ claimAge' = [k \in Keys |-> AtMost(claimAge[k] + 1, Cooldown)]
    /\ mailAge' = [k \in Keys |-> AtMost(mailAge[k] + 1, Cooldown)]
    /\ postAge' = [t \in Threads |-> IF at[t] = "posting" THEN postAge[t] + 1 ELSE 0]
    /\ UNCHANGED <<at, call, claimer>>

ThreadStep(t) ==
    \/ SendConfirmed(t) \/ SendRetried(t)
    \/ \E reason \in {"retryable", "refused"} : SendGivenUp(t, reason)
    \/ AlertSuppressed(t) \/ AlertClaimed(t) \/ PostSucceeds(t) \/ PostFails(t)
    \/ End(t)

Next == Tick \/ \E t \in Threads : Begin(t) \/ ThreadStep(t)

(* Sends and posts have timeouts; a mail service that is asked again and again to take
   an email about a destination takes one in the end. *)
Fairness ==
    /\ WF_vars(Tick)
    /\ \A t \in Threads : WF_vars(ThreadStep(t))
    /\ \A k \in Keys : SF_vars(\E t \in Threads : target[t] = k /\ PostSucceeds(t))

Spec == Init /\ [][Next]_vars /\ Fairness

-----------------------------------------------------------------------------
TypeOK ==
    /\ at \in [Threads -> {"idle", "sending", "alerting", "posting", "returned", "raised"}]
    /\ target \in [Threads -> Keys]
    /\ attempts \in [Threads -> 0..Retries]
    /\ failures \in [Threads -> SUBSET (Keys \X {"retryable", "refused"})]
    /\ confirmed \in [Threads -> SUBSET Keys]
    /\ claimer \in [Keys -> Threads \cup {"nobody"}]
    /\ claimAge \in [Keys -> 0..Cooldown] /\ mailAge \in [Keys -> 0..Cooldown]
    /\ postAge \in [Threads -> 0..PostTime]

(* Marking what no destination took would lose it, and sending again what one confirmed
   would repeat it: notify raises only if every destination failed and none confirmed,
   and a call it gives up as beyond retry was refused by every one of them. *)
OutcomeIsTrue ==
    \A t \in Threads :
        /\ at[t] = "returned" => confirmed[t] # {}
        /\ at[t] = "raised" => /\ confirmed[t] = {}
                               /\ \A k \in Keys : \E f \in failures[t] : f[1] = k
                               /\ ~Transient(t) =>
                                      \A k \in Keys : <<k, "refused">> \in failures[t]

(* A delivered email silences its key for the cooldown, though other threads claim the
   key, post and fail meanwhile. *)
EmailHoldsItsCooldown ==
    \A k \in Keys : mailAge[k] < Cooldown => Suppressed(k)

(* Nothing else silences it: a claim that stands belongs to a delivered email or to the
   one that is being posted. *)
SuppressedOnlyByAnEmail ==
    \A k \in Keys : Suppressed(k) =>
        \/ mailAge[k] < Cooldown
        \/ at[claimer[k]] = "posting" /\ target[claimer[k]] = k

(* A destination that keeps failing, while others succeed, is reported again and again:
   neither the cooldown nor the claims of other threads silence it for good. *)
FailingDestinationIsReported ==
    \A k \in Keys :
        []<>(\E t \in Threads : at[t] = "alerting" /\ target[t] = k)
            => []<><<\E t \in Threads : target[t] = k /\ PostSucceeds(t)>>_vars
=============================================================================
