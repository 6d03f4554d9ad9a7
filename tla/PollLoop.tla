------------------------------- MODULE PollLoop -------------------------------
(***************************************************************************)
(* One poller of a relay: its loop (relay_core/main.py, _poll_loop), the   *)
(* on-demand polls that share its lock (relay_core/routes, handle_poll),   *)
(* and how the operator hears of an outage: the poller's OutageTracker     *)
(* (relay_core/health.py) and the emails of send_alert under its per-key   *)
(* cooldown (relay_core/alerter.py).                                       *)
(*                                                                         *)
(* Time runs in ticks of the poll interval.  No clock is kept: what        *)
(* matters is how long ago something happened, and an age that has reached *)
(* the threshold it is compared with stays there.                          *)
(***************************************************************************)
EXTENDS Naturals, Sequences

CONSTANTS
    Requests,    \* on-demand polls that can be under way at a time
    Pause,       \* NEEDS_ACTION_PAUSE_S, in ticks
    AlertAfter,  \* alert_after_s, in ticks; 0 disables outage alerts
    Cooldown,    \* ALERT_COOLDOWN_MINUTES, in ticks
    MailMayFail  \* the mail service may reject an email or answer too late

ASSUME TimeAssumption ==
    Pause \in Nat \ {0} /\ AlertAfter \in Nat /\ Cooldown \in Nat /\ MailMayFail \in BOOLEAN
ASSUME RequestsAssumption == Requests \cap {"loop", "nobody"} = {}

VARIABLES
    broker,    \* what the next fetch will meet: "up", "down" or "rejecting"
    holder,    \* who holds the poller's lock, and so runs poll_once
    queue,     \* who waits for it, in order
    loop,      \* where the loop stands
    wait,      \* ticks the loop has yet to sleep
    failing,   \* _down_since is set
    downFor,   \* ticks since _down_since
    alerted,   \* _alerted
    email,     \* the alert the loop is sending
    claimAge,  \* ticks since the last email of each key was claimed (_last_alert_at)
    received,  \* the operator received the email of the key's last claim
    okAge      \* ticks since the last successful cycle, or the start

lock    == <<holder, queue>>
tracker == <<failing, downFor, alerted>>
alerter == <<claimAge, received>>
vars == <<broker, lock, loop, wait, tracker, email, alerter, okAge>>

-----------------------------------------------------------------------------
Keys   == {"outage", "recovered"}
Emails == {"outage", "needs action", "recovered"}

KeyOf(mail) == IF mail = "recovered" THEN "recovered" ELSE "outage"

AtMost(n, bound) == IF n < bound THEN n ELSE bound

Init ==
    /\ broker = "up"
    /\ holder = "nobody" /\ queue = <<>>
    /\ loop = "sleep" /\ wait = 0
    /\ failing = FALSE /\ downFor = 0 /\ alerted = FALSE
    /\ email = "none"
    /\ claimAge = [k \in Keys |-> Cooldown]
    /\ received = [k \in Keys |-> FALSE]
    /\ okAge = 0

-----------------------------------------------------------------------------
(* The poller's asyncio.Lock: whoever asks while it is held, or while others wait,
   waits in line. *)

Acquire(task) ==
    \/ /\ holder = "nobody" /\ queue = <<>>
       /\ holder' = task
       /\ UNCHANGED queue
    \/ /\ holder # "nobody" \/ queue # <<>>
       /\ queue' = Append(queue, task)
       /\ UNCHANGED holder

ReleaseLock ==
    \/ queue = <<>> /\ holder' = "nobody" /\ UNCHANGED queue
    \/ queue # <<>> /\ holder' = Head(queue) /\ queue' = Tail(queue)

Waits(task) == \E i \in 1..Len(queue) : queue[i] = task

-----------------------------------------------------------------------------
(* The poll loop. *)

LoopWakes ==
    /\ loop = "sleep" /\ wait = 0
    /\ Acquire("loop")
    /\ loop' = "poll"
    /\ UNCHANGED <<broker, wait, tracker, email, alerter, okAge>>

\* Mutant: an outage is alerted once.
DueOnce(elapsed, needsAction) ==
    AlertAfter > 0 /\ ~alerted /\ (needsAction \/ elapsed >= AlertAfter)

\* The streak is long enough to be alerted, or no retry can end it.
Due(elapsed, needsAction) ==
    AlertAfter > 0 /\ (needsAction \/ elapsed >= AlertAfter)

\* Mutant: every failure adds an interval to the streak, which grows with time anyway.
FailureAddsInterval(needsAction) ==
    LET elapsed == IF failing THEN downFor + 1 ELSE 0
    IN  /\ failing' = TRUE
        /\ downFor' = elapsed
        /\ alerted' = (alerted \/ Due(elapsed, needsAction))
        /\ email' = IF ~Due(elapsed, needsAction) THEN "none"
                    ELSE IF needsAction THEN "needs action" ELSE "outage"

(* OutageTracker.record_failure. *)
RecordFailure(needsAction) ==
    LET elapsed == IF failing THEN downFor ELSE 0
    IN  /\ failing' = TRUE
        /\ downFor' = elapsed
        /\ alerted' = (alerted \/ Due(elapsed, needsAction))
        /\ email' = IF ~Due(elapsed, needsAction) THEN "none"
                    ELSE IF needsAction THEN "needs action" ELSE "outage"

\* Mutant: the streak's start survives the success that ends it.
SuccessKeepsStreak ==
    /\ email' = IF failing /\ alerted THEN "recovered" ELSE "none"
    /\ alerted' = FALSE
    /\ UNCHANGED <<failing, downFor>>

(* OutageTracker.record_success. *)
RecordSuccess ==
    /\ email' = IF failing /\ alerted THEN "recovered" ELSE "none"
    /\ failing' = FALSE /\ downFor' = 0 /\ alerted' = FALSE

(* poll_once returns or raises, and the lock is released.  A NotificationError counts
   as success: the broker was reached. *)
CycleSucceeds ==
    /\ loop = "poll" /\ holder = "loop" /\ broker = "up"
    /\ ReleaseLock
    /\ RecordSuccess
    /\ okAge' = 0
    /\ wait' = 1
    /\ loop' = "alert"
    /\ UNCHANGED <<broker, alerter>>

\* FetchError, or the cycle crashed.
CycleFails ==
    /\ loop = "poll" /\ holder = "loop" /\ broker = "down"
    /\ ReleaseLock
    /\ RecordFailure(FALSE)
    /\ wait' = 1
    /\ loop' = "alert"
    /\ UNCHANGED <<broker, alerter, okAge>>

\* FetchConfigError: the loop pauses for longer than the interval.
CycleRejected ==
    /\ loop = "poll" /\ holder = "loop" /\ broker = "rejecting"
    /\ ReleaseLock
    /\ RecordFailure(TRUE)
    /\ wait' = Pause
    /\ loop' = "alert"
    /\ UNCHANGED <<broker, alerter, okAge>>

-----------------------------------------------------------------------------
(* send_alert, awaited by the loop. *)

\* No alert, or one of the same key was claimed within the cooldown.
NoEmail ==
    /\ loop = "alert"
    /\ email = "none" \/ claimAge[KeyOf(email)] < Cooldown
    /\ loop' = "sleep"
    /\ email' = "none"
    /\ UNCHANGED <<broker, lock, wait, tracker, alerter, okAge>>

\* The key is claimed before the email is posted.
ClaimKey ==
    /\ loop = "alert"
    /\ email # "none" /\ claimAge[KeyOf(email)] >= Cooldown
    /\ claimAge' = [claimAge EXCEPT ![KeyOf(email)] = 0]
    /\ received' = [received EXCEPT ![KeyOf(email)] = FALSE]
    /\ loop' = "post"
    /\ UNCHANGED <<broker, lock, wait, tracker, email, okAge>>

Receive == received' = [received EXCEPT ![KeyOf(email)] = TRUE]

PostSucceeds ==
    /\ loop = "post"
    /\ Receive
    /\ loop' = "sleep"
    /\ email' = "none"
    /\ UNCHANGED <<broker, lock, wait, tracker, claimAge, okAge>>

\* The claim is rolled back: the next alert of the key is not suppressed.
RolledBack == [claimAge EXCEPT ![KeyOf(email)] = Cooldown]

\* The service rejects the email, or answers too late after it has sent it.
PostFails ==
    /\ MailMayFail
    /\ loop = "post"
    /\ Receive \/ UNCHANGED received
    /\ claimAge' = RolledBack
    /\ loop' = "sleep"
    /\ email' = "none"
    /\ UNCHANGED <<broker, lock, wait, tracker, okAge>>

-----------------------------------------------------------------------------
(* On-demand polls. *)

RequestArrives(q) ==
    /\ holder # q /\ ~Waits(q)
    /\ Acquire(q)
    /\ UNCHANGED <<broker, loop, wait, tracker, email, alerter, okAge>>

\* The wait for the lock times out: the request leaves the line, and is answered 409.
RequestGivesUp(q) ==
    /\ \E i \in 1..Len(queue) :
         /\ queue[i] = q
         /\ queue' = SubSeq(queue, 1, i - 1) \o SubSeq(queue, i + 1, Len(queue))
    /\ UNCHANGED <<broker, holder, loop, wait, tracker, email, alerter, okAge>>

\* Mutant: the lock is not released when the poll raises.
RequestKeepsLock(q) ==
    /\ holder = q /\ broker = "up"
    /\ ReleaseLock
    /\ UNCHANGED <<broker, loop, wait, tracker, email, alerter, okAge>>

\* The poll is over, one way or another; the outage tracker does not hear of it.
RequestEnds(q) ==
    /\ holder = q
    /\ ReleaseLock
    /\ UNCHANGED <<broker, loop, wait, tracker, email, alerter, okAge>>

-----------------------------------------------------------------------------
(* The environment. *)

BrokerTurns(state) ==
    /\ broker # state
    /\ broker' = state
    /\ UNCHANGED <<lock, loop, wait, tracker, email, alerter, okAge>>

\* An email is posted, or has failed, within seconds.
Tick ==
    /\ loop # "post"
    /\ wait' = IF loop = "sleep" /\ wait > 0 THEN wait - 1 ELSE wait
    /\ downFor' = IF failing THEN AtMost(downFor + 1, AlertAfter) ELSE 0
    /\ claimAge' = [k \in Keys |-> AtMost(claimAge[k] + 1, Cooldown)]
    /\ okAge' = AtMost(okAge + 1, AlertAfter)
    /\ UNCHANGED <<broker, lock, loop, failing, alerted, email, received>>

-----------------------------------------------------------------------------
LoopStep ==
    \/ LoopWakes
    \/ CycleSucceeds \/ CycleFails \/ CycleRejected
    \/ NoEmail \/ ClaimKey \/ PostSucceeds \/ PostFails

Next ==
    \/ LoopStep
    \/ \E q \in Requests : RequestArrives(q) \/ RequestGivesUp(q) \/ RequestEnds(q)
    \/ \E state \in {"up", "down", "rejecting"} : BrokerTurns(state)
    \/ Tick

(* asyncio resumes the loop, a poll ends (every fetch and notify has a timeout), time
   passes, and a mail service that is called again and again accepts an email in the
   end. *)
Fairness ==
    /\ WF_vars(LoopStep)
    /\ \A q \in Requests : WF_vars(RequestEnds(q))
    /\ SF_vars(PostSucceeds)
    /\ WF_vars(Tick)

Spec == Init /\ [][Next]_vars /\ Fairness

-----------------------------------------------------------------------------
TypeOK ==
    /\ broker \in {"up", "down", "rejecting"}
    /\ holder \in Requests \cup {"loop", "nobody"}
    /\ queue \in Seq(Requests \cup {"loop"})
    /\ loop \in {"sleep", "poll", "alert", "post"} /\ wait \in 0..Pause
    /\ failing \in BOOLEAN /\ downFor \in 0..AlertAfter /\ alerted \in BOOLEAN
    /\ email \in Emails \cup {"none"}
    /\ claimAge \in [Keys -> 0..Cooldown] /\ received \in [Keys -> BOOLEAN]
    /\ okAge \in 0..AlertAfter

(* "A failure streak shorter than alert_after_s stays silent": an outage email that no
   rejection called for is only sent when no cycle has succeeded for that long, however
   outages and successes alternated before. *)
BlipsStaySilent ==
    loop \in {"alert", "post"} /\ email = "outage" => okAge = AlertAfter

(* An email suppresses the next ones of its key only if the operator received it: a
   claim that is still standing belongs to an email that arrived, or to the one being
   posted. *)
SuppressedOnlyByAnEmail ==
    \A k \in Keys : claimAge[k] < Cooldown =>
        received[k] \/ (loop = "post" /\ KeyOf(email) = k)

(* Whatever the broker, the mail service and the on-demand polls do, the loop gets its
   turn at the poller's lock again and again. *)
LoopKeepsPolling == []<>(holder = "loop")

(* An outage that lasts is reported, and reminded of for as long as it lasts: at any
   time the operator will have, within a cooldown, an email about it. *)
Reminded == claimAge["outage"] < Cooldown /\ received["outage"]

LastingOutageIsReported == (broker # "up") ~> (broker = "up" \/ Reminded)

=============================================================================
