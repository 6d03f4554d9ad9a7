---------------------------- MODULE PollLoopProofs ----------------------------
(***************************************************************************)
(* Theorems about the outage emails of a poller, for any pause, threshold  *)
(* and cooldown, any number of on-demand polls, and every behaviour of the *)
(* broker and the mail service.                                            *)
(***************************************************************************)
EXTENDS PollLoop, SequenceTheorems, TLAPS

USE TimeAssumption

-----------------------------------------------------------------------------
(* The part of TypeOK that emails rest on. *)
AgesTyped ==
    /\ loop \in {"sleep", "poll", "alert", "post"}
    /\ failing \in BOOLEAN /\ downFor \in 0..AlertAfter /\ okAge \in 0..AlertAfter
    /\ email \in Emails \cup {"none"}
    /\ claimAge \in [Keys -> 0..Cooldown] /\ received \in [Keys -> BOOLEAN]

(* A failure streak is no older than the last success, and only a streak as old as the
   threshold has made the loop send an outage email. *)
StreakIsYoung == failing => downFor <= okAge

(* The key of every alert is a key. *)
LEMMA KeyOfEmail == KeyOf(email) \in Keys
BY DEF KeyOf, Keys

EmailInv == AgesTyped /\ StreakIsYoung /\ BlipsStaySilent /\ SuppressedOnlyByAnEmail

(* What does not touch the loop, the tracker and the emails keeps the invariant. *)
LEMMA EmailInvUntouched ==
    ASSUME EmailInv, UNCHANGED <<loop, failing, downFor, okAge, email, claimAge, received>>
    PROVE  EmailInv'
BY DEF EmailInv, AgesTyped, StreakIsYoung, BlipsStaySilent, SuppressedOnlyByAnEmail

(* A failed cycle leaves the streak no older than the last success. *)
LEMMA FailuresKeepStreakYoung ==
    ASSUME AgesTyped, StreakIsYoung, downFor' = IF failing THEN downFor ELSE 0, okAge' = okAge
    PROVE  downFor' \in 0..AlertAfter /\ downFor' <= okAge'
<1>1. CASE failing
  BY <1>1 DEF AgesTyped, StreakIsYoung
<1>2. CASE ~failing
  BY <1>2 DEF AgesTyped
<1> QED
  BY <1>1, <1>2

(* Whatever the loop sleeps over or sends next, a claim that stands belongs to an email
   that was received, as long as none was being posted. *)
LEMMA ClaimsOutsidePost ==
    ASSUME AgesTyped, SuppressedOnlyByAnEmail, loop # "post", UNCHANGED <<claimAge, received>>
    PROVE  SuppressedOnlyByAnEmail'
BY DEF AgesTyped, SuppressedOnlyByAnEmail

(* A poll cycle of the loop. *)
LEMMA CyclesKeepEmailInv ==
    ASSUME EmailInv, CycleSucceeds \/ CycleFails \/ CycleRejected
    PROVE  EmailInv'
<1>1. loop = "poll" /\ loop' = "alert" /\ UNCHANGED <<claimAge, received>>
  BY DEF CycleSucceeds, CycleFails, CycleRejected, alerter
<1>a. SuppressedOnlyByAnEmail'
  BY <1>1, ClaimsOutsidePost DEF EmailInv
<1>2. CASE CycleSucceeds
  <2>1. /\ failing' = FALSE /\ downFor' = 0 /\ okAge' = 0
        /\ email' \in {"recovered", "none"}
    BY <1>2 DEF CycleSucceeds, RecordSuccess
  <2> QED
    <3>1. downFor' \in 0..AlertAfter /\ okAge' \in 0..AlertAfter
      <4>1. downFor' = 0 /\ okAge' = 0
        BY <2>1
      <4> QED
        BY <4>1
    <3>2. email' \in Emails \cup {"none"} /\ email' # "outage"
      BY <2>1 DEF Emails
    <3>3. AgesTyped'
      BY <1>1, <2>1, <3>1, <3>2 DEF EmailInv, AgesTyped
    <3> QED
      BY <1>a, <2>1, <3>2, <3>3 DEF EmailInv, StreakIsYoung, BlipsStaySilent
<1>3. CASE CycleFails
  <2>1. /\ okAge' = okAge /\ failing' = TRUE
        /\ downFor' = IF failing THEN downFor ELSE 0
        /\ email' \in {"outage", "none"}
        /\ email' = "outage" => AlertAfter > 0 /\ downFor' >= AlertAfter
    BY <1>3 DEF CycleFails, RecordFailure, Due
  <2>2. downFor' \in 0..AlertAfter /\ downFor' <= okAge'
    BY <2>1, FailuresKeepStreakYoung DEF EmailInv
  <2>3. email' = "outage" => okAge' = AlertAfter
    BY <2>1, <2>2 DEF EmailInv, AgesTyped
  <2> QED
    BY <1>1, <1>a, <2>1, <2>2, <2>3 DEF EmailInv, AgesTyped, Emails, StreakIsYoung,
                                        BlipsStaySilent
<1>4. CASE CycleRejected
  <2>1. /\ okAge' = okAge /\ failing' = TRUE
        /\ downFor' = IF failing THEN downFor ELSE 0
        /\ email' \in {"needs action", "none"}
    BY <1>4 DEF CycleRejected, RecordFailure, Due
  <2>2. downFor' \in 0..AlertAfter /\ downFor' <= okAge'
    BY <2>1, FailuresKeepStreakYoung DEF EmailInv
  <2> QED
    BY <1>1, <1>a, <2>1, <2>2 DEF EmailInv, AgesTyped, Emails, StreakIsYoung,
                                  BlipsStaySilent
<1> QED
  BY <1>2, <1>3, <1>4

(* send_alert: the claim, and what becomes of the post. *)
LEMMA AlertsKeepEmailInv ==
    ASSUME EmailInv, NoEmail \/ ClaimKey \/ PostSucceeds \/ PostFails
    PROVE  EmailInv'
<1>1. UNCHANGED <<failing, downFor, okAge>>
  BY DEF NoEmail, ClaimKey, PostSucceeds, PostFails, tracker
<1>2. CASE NoEmail
  <2>1. loop = "alert" /\ loop' = "sleep" /\ email' = "none" /\ UNCHANGED <<claimAge, received>>
    BY <1>2 DEF NoEmail, alerter
  <2> QED
    BY <1>1, <2>1 DEF EmailInv, AgesTyped, StreakIsYoung, BlipsStaySilent,
                      SuppressedOnlyByAnEmail
<1>3. CASE ClaimKey
  <2>1. /\ loop = "alert" /\ loop' = "post" /\ email' = email
        /\ claimAge' = [claimAge EXCEPT ![KeyOf(email)] = 0]
        /\ received' = [received EXCEPT ![KeyOf(email)] = FALSE]
    BY <1>3 DEF ClaimKey
  <2>2. AgesTyped' /\ StreakIsYoung' /\ BlipsStaySilent'
    BY <1>1, <2>1, KeyOfEmail DEF EmailInv, AgesTyped, StreakIsYoung, BlipsStaySilent
  <2>3. ASSUME NEW k \in Keys, claimAge'[k] < Cooldown
        PROVE  received'[k] \/ (loop' = "post" /\ KeyOf(email)' = k)
    BY <2>1, <2>3, KeyOfEmail DEF EmailInv, AgesTyped, SuppressedOnlyByAnEmail, KeyOf
  <2> QED
    BY <2>2, <2>3 DEF EmailInv, SuppressedOnlyByAnEmail
<1>4. CASE PostSucceeds
  <2>1. /\ loop = "post" /\ loop' = "sleep" /\ email' = "none" /\ claimAge' = claimAge
        /\ received' = [received EXCEPT ![KeyOf(email)] = TRUE]
    BY <1>4 DEF PostSucceeds, Receive
  <2>2. AgesTyped' /\ StreakIsYoung' /\ BlipsStaySilent'
    BY <1>1, <2>1, KeyOfEmail DEF EmailInv, AgesTyped, StreakIsYoung, BlipsStaySilent
  <2>3. ASSUME NEW k \in Keys, claimAge'[k] < Cooldown PROVE received'[k]
    BY <2>1, <2>3, KeyOfEmail DEF EmailInv, AgesTyped, SuppressedOnlyByAnEmail
  <2> QED
    BY <2>2, <2>3 DEF EmailInv, SuppressedOnlyByAnEmail
<1>5. CASE PostFails
  <2>1. /\ loop = "post" /\ loop' = "sleep" /\ email' = "none"
        /\ claimAge' = [claimAge EXCEPT ![KeyOf(email)] = Cooldown]
        /\ received' \in {received, [received EXCEPT ![KeyOf(email)] = TRUE]}
    BY <1>5 DEF PostFails, RolledBack, Receive
  <2>2. received' \in [Keys -> BOOLEAN]
    BY <2>1, KeyOfEmail DEF EmailInv, AgesTyped
  <2>3. claimAge' \in [Keys -> 0..Cooldown]
    BY <2>1, KeyOfEmail DEF EmailInv, AgesTyped
  <2>4. AgesTyped' /\ StreakIsYoung' /\ BlipsStaySilent'
    BY <1>1, <2>1, <2>2, <2>3 DEF EmailInv, AgesTyped, StreakIsYoung, BlipsStaySilent
  <2>5. ASSUME NEW k \in Keys, claimAge'[k] < Cooldown PROVE received'[k]
    BY <2>1, <2>5, KeyOfEmail DEF EmailInv, AgesTyped, SuppressedOnlyByAnEmail
  <2> QED
    BY <2>4, <2>5 DEF EmailInv, SuppressedOnlyByAnEmail
<1> QED
  BY <1>2, <1>3, <1>4, <1>5

(* Time passes. *)
LEMMA TicksKeepEmailInv == ASSUME EmailInv, Tick PROVE EmailInv'
<1>1. /\ loop # "post" /\ UNCHANGED <<loop, failing, email, received>>
      /\ downFor' = IF failing THEN AtMost(downFor + 1, AlertAfter) ELSE 0
      /\ claimAge' = [k \in Keys |-> AtMost(claimAge[k] + 1, Cooldown)]
      /\ okAge' = AtMost(okAge + 1, AlertAfter)
  BY DEF Tick
<1>2. downFor \in 0..AlertAfter /\ okAge \in 0..AlertAfter /\ (failing => downFor <= okAge)
  BY DEF EmailInv, AgesTyped, StreakIsYoung
<1>3. downFor' \in 0..AlertAfter /\ okAge' \in 0..AlertAfter /\ (failing' => downFor' <= okAge')
  BY <1>1, <1>2 DEF AtMost, EmailInv, AgesTyped
<1>4. okAge = AlertAfter => okAge' = AlertAfter
  BY <1>1, <1>2 DEF AtMost
<1>5. \A k \in Keys : /\ claimAge'[k] \in 0..Cooldown
                      /\ claimAge'[k] < Cooldown => claimAge[k] < Cooldown
  BY <1>1 DEF AtMost, EmailInv, AgesTyped
<1>6. claimAge' \in [Keys -> 0..Cooldown]
  BY <1>1, <1>5
<1> QED
  BY <1>1, <1>3, <1>4, <1>5, <1>6 DEF EmailInv, AgesTyped, StreakIsYoung, BlipsStaySilent,
                                  SuppressedOnlyByAnEmail

(* The emails' invariant. *)
THEOREM EmailsAreJustified == Spec => []EmailInv
<1>1. Init => EmailInv
  <2> SUFFICES ASSUME Init PROVE EmailInv
    OBVIOUS
  <2>1. AgesTyped
    <3>1. downFor \in 0..AlertAfter /\ okAge \in 0..AlertAfter
      BY DEF Init
    <3>2. claimAge \in [Keys -> 0..Cooldown] /\ received \in [Keys -> BOOLEAN]
      BY DEF Init
    <3> QED
      BY <3>1, <3>2 DEF Init, AgesTyped
  <2>2. StreakIsYoung /\ BlipsStaySilent
    BY DEF Init, StreakIsYoung, BlipsStaySilent
  <2>3. SuppressedOnlyByAnEmail
    BY DEF Init, SuppressedOnlyByAnEmail
  <2> QED
    BY <2>1, <2>2, <2>3 DEF EmailInv
<1>2. EmailInv /\ [Next]_vars => EmailInv'
  <2> SUFFICES ASSUME EmailInv, [Next]_vars PROVE EmailInv'
    OBVIOUS
  <2>1. CASE LoopWakes
    <3>1. loop' = "poll" /\ UNCHANGED <<failing, downFor, okAge, email, claimAge, received>>
          /\ loop = "sleep"
      BY <2>1 DEF LoopWakes, tracker, alerter
    <3> QED
      BY <3>1 DEF EmailInv, AgesTyped, StreakIsYoung, BlipsStaySilent, SuppressedOnlyByAnEmail
  <2>2. CASE \E q \in Requests : RequestArrives(q) \/ RequestGivesUp(q) \/ RequestEnds(q)
    <3>1. UNCHANGED <<loop, failing, downFor, okAge, email, claimAge, received>>
      BY <2>2 DEF RequestArrives, RequestGivesUp, RequestEnds, tracker, alerter
    <3> QED
      BY <3>1, EmailInvUntouched
  <2>3. CASE \E state \in {"up", "down", "rejecting"} : BrokerTurns(state)
    <3>1. UNCHANGED <<loop, failing, downFor, okAge, email, claimAge, received>>
      BY <2>3 DEF BrokerTurns, tracker, alerter
    <3> QED
      BY <3>1, EmailInvUntouched
  <2>4. CASE UNCHANGED vars
    <3>1. UNCHANGED <<loop, failing, downFor, okAge, email, claimAge, received>>
      BY <2>4 DEF vars, tracker, alerter
    <3> QED
      BY <3>1, EmailInvUntouched
  <2> QED
    BY <2>1, <2>2, <2>3, <2>4, CyclesKeepEmailInv, AlertsKeepEmailInv, TicksKeepEmailInv
       DEF Next, LoopStep
<1> QED
  BY <1>1, <1>2, PTL DEF Spec

(* A failure streak shorter than alert_after_s stays silent, however failures and
   successes alternate (OutageTracker). *)
THEOREM BlipsAreSilent == Spec => []BlipsStaySilent
<1>1. EmailInv => BlipsStaySilent
  BY DEF EmailInv
<1> QED
  BY <1>1, EmailsAreJustified, PTL

(* An alert is suppressed only on account of an email of its key that the operator
   received, or that is being posted (send_alert: claim, post, roll back). *)
THEOREM OnlyAnEmailSuppresses == Spec => []SuppressedOnlyByAnEmail
<1>1. EmailInv => SuppressedOnlyByAnEmail
  BY DEF EmailInv
<1> QED
  BY <1>1, EmailsAreJustified, PTL

-----------------------------------------------------------------------------
(* The poller's lock, and the types of the rest of the state. *)

Tasks == Requests \cup {"loop"}

(* A task holds the lock or waits for it. *)
Stands(task) == holder = task \/ Waits(task)

LockTyped == holder \in Tasks \cup {"nobody"} /\ queue \in Seq(Tasks)

(* A task stands at the lock once, and nobody waits for a lock that is free. *)
OneLine ==
    /\ \A i, j \in 1..Len(queue) : queue[i] = queue[j] => i = j
    /\ ~Waits(holder)
    /\ holder = "nobody" => queue = <<>>

(* The loop stands at the lock exactly while it polls. *)
LoopStandsWhilePolling == loop = "poll" <=> Stands("loop")

OthersTyped == broker \in {"up", "down", "rejecting"} /\ wait \in 0..Pause /\ alerted \in BOOLEAN

LockInv == LockTyped /\ OneLine /\ LoopStandsWhilePolling

(* Nobody is not a task, and the loop is no request. *)
LEMMA TasksAreSomebody == "nobody" \notin Tasks /\ "loop" \in Tasks /\ "loop" \notin Requests
BY RequestsAssumption DEF Tasks

(* Who asks for the lock holds it or is the last in line. *)
LEMMA AcquireKeepsTheLine ==
    ASSUME LockTyped, OneLine, NEW task \in Tasks, ~Stands(task), Acquire(task)
    PROVE  /\ LockTyped' /\ OneLine'
           /\ \A t \in Tasks : Stands(t)' <=> Stands(t) \/ t = task
<1>1. CASE holder = "nobody" /\ queue = <<>>
  <2>1. holder' = task /\ queue' = <<>>
    BY <1>1 DEF Acquire
  <2>2. LockTyped'
    BY <2>1 DEF LockTyped
  <2>3. OneLine'
    BY <2>1, TasksAreSomebody DEF OneLine, Waits
  <2> QED
    BY <1>1, <2>1, <2>2, <2>3, TasksAreSomebody DEF Stands, Waits
<1>2. CASE ~(holder = "nobody" /\ queue = <<>>)
  <2>1. holder' = holder /\ queue' = Append(queue, task) /\ holder # "nobody"
    BY <1>2 DEF Acquire, OneLine
  <2>2. /\ queue \in Seq(Tasks) /\ queue' \in Seq(Tasks) /\ Len(queue) \in Nat
        /\ Len(queue') = Len(queue) + 1
        /\ \A i \in 1..Len(queue) : queue'[i] = queue[i]
        /\ queue'[Len(queue) + 1] = task
    BY <2>1 DEF LockTyped
  <2>3. \A t \in Tasks : Waits(t)' <=> Waits(t) \/ t = task
    BY <2>2 DEF Waits
  <2>4. \A i \in 1..Len(queue) : queue[i] # task
    BY DEF Stands, Waits
  <2>5. \A i, j \in 1..Len(queue') : queue'[i] = queue'[j] => i = j
    BY <2>2, <2>4 DEF OneLine
  <2>6. ~Waits(holder)'
    BY <2>1, <2>2 DEF OneLine, Waits, Stands
  <2> QED
    BY <2>1, <2>2, <2>3, <2>5, <2>6 DEF LockTyped, OneLine, Stands
<1> QED
  BY <1>1, <1>2

(* Who releases the lock leaves it to the first in line. *)
LEMMA ReleaseKeepsTheLine ==
    ASSUME LockTyped, OneLine, holder \in Tasks, ReleaseLock
    PROVE  /\ LockTyped' /\ OneLine'
           /\ \A t \in Tasks : Stands(t)' <=> Stands(t) /\ t # holder
<1>1. CASE queue = <<>>
  <2>1. holder' = "nobody" /\ queue' = <<>>
    BY <1>1 DEF ReleaseLock
  <2> QED
    BY <1>1, <2>1, TasksAreSomebody DEF LockTyped, OneLine, Stands, Waits
<1>2. CASE queue # <<>>
  <2>1. holder' = Head(queue) /\ queue' = Tail(queue)
    BY <1>2 DEF ReleaseLock
  <2>2. /\ queue' \in Seq(Tasks) /\ Len(queue) \in Nat \ {0} /\ Len(queue') = Len(queue) - 1
        /\ \A i \in 1..Len(queue') : queue'[i] = queue[i + 1]
        /\ holder' = queue[1] /\ holder' \in Tasks
    BY <1>2, <2>1, HeadTailProperties, LenProperties, ElementOfSeq, EmptySeq DEF LockTyped
  <2>3. \A i, j \in 1..Len(queue') : queue'[i] = queue'[j] => i = j
    BY <2>2 DEF OneLine
  <2>4. \A i \in 1..Len(queue') : queue'[i] # holder'
    BY <2>2 DEF OneLine
  <2>5. ASSUME NEW t \in Tasks PROVE Stands(t)' <=> Waits(t)
    <3>1. ASSUME NEW i \in 1..Len(queue), queue[i] = t PROVE Stands(t)'
      <4>1. CASE i = 1
        BY <2>2, <3>1, <4>1 DEF Stands
      <4>2. CASE i # 1
        <5>1. i - 1 \in 1..Len(queue') /\ queue'[i - 1] = t
          BY <2>2, <3>1, <4>2
        <5> QED
          BY <5>1 DEF Stands, Waits
      <4> QED
        BY <4>1, <4>2
    <3>2. ASSUME Stands(t)' PROVE Waits(t)
      BY <2>2, <3>2 DEF Stands, Waits
    <3> QED
      BY <3>1, <3>2 DEF Waits
  <2>6. holder' # "nobody"
    BY <2>2, TasksAreSomebody
  <2> QED
    BY <2>2, <2>3, <2>4, <2>5, <2>6 DEF LockTyped, OneLine, Stands, Waits
<1> QED
  BY <1>1, <1>2

(* When somebody gives up, those in front keep their places and those behind move up by one. *)
LEMMA GivingUpMovesTheRestUp ==
    ASSUME LockTyped, NEW q \in Requests, RequestGivesUp(q)
    PROVE  \E i \in 1..Len(queue) :
             /\ queue[i] = q /\ holder' = holder
             /\ queue' \in Seq(Tasks) /\ Len(queue') = Len(queue) - 1
             /\ \A j \in 1..(i - 1) : queue'[j] = queue[j]
             /\ \A j \in i..(Len(queue) - 1) : queue'[j] = queue[j + 1]
<1>1. PICK i \in 1..Len(queue) :
        queue[i] = q /\ queue' = SubSeq(queue, 1, i - 1) \o SubSeq(queue, i + 1, Len(queue))
  BY DEF RequestGivesUp
<1>a. holder' = holder
  BY DEF RequestGivesUp
<1>b. queue \in Seq(Tasks) /\ Len(queue) \in Nat
  BY DEF LockTyped
<1> DEFINE front == SubSeq(queue, 1, i - 1)
           back  == SubSeq(queue, i + 1, Len(queue))
<1>2. /\ front \in Seq(Tasks) /\ Len(front) = i - 1
      /\ \A j \in 1..(i - 1) : front[j] = queue[j]
  BY <1>b
<1>3. /\ back \in Seq(Tasks) /\ Len(back) = Len(queue) - i
      /\ \A j \in 1..(Len(queue) - i) : back[j] = queue[i + j]
  BY <1>b
<1>c. queue' = front \o back
  BY <1>1
<1> HIDE DEF front, back
<1>d. /\ queue' \in Seq(Tasks) /\ Len(queue') = Len(front) + Len(back)
      /\ \A j \in 1..(Len(front) + Len(back)) :
           queue'[j] = IF j <= Len(front) THEN front[j] ELSE back[j - Len(front)]
  BY <1>2, <1>3, <1>c, ConcatProperties
<1>4. /\ queue' \in Seq(Tasks) /\ Len(queue') = Len(queue) - 1
      /\ \A j \in 1..(i - 1) : queue'[j] = queue[j]
      /\ \A j \in i..(Len(queue) - 1) : queue'[j] = queue[j + 1]
  <2>1. queue' \in Seq(Tasks) /\ Len(queue') = Len(queue) - 1
    BY <1>d, <1>2, <1>3, <1>b
  <2>2. ASSUME NEW j \in 1..(i - 1) PROVE queue'[j] = queue[j]
    <3>1. j \in 1..(Len(front) + Len(back)) /\ j <= Len(front)
      BY <1>2, <1>3, <1>b
    <3>2. queue'[j] = front[j]
      BY <1>d, <3>1
    <3> QED
      BY <1>2, <3>2
  <2>3. ASSUME NEW j \in i..(Len(queue) - 1) PROVE queue'[j] = queue[j + 1]
    <3>1. j - (i - 1) \in 1..(Len(queue) - i) /\ j \in 1..(Len(queue) - 1) /\ ~(j <= i - 1)
      BY <1>b
    <3>2. j \in 1..(Len(front) + Len(back)) /\ ~(j <= Len(front)) /\ Len(front) = i - 1
      BY <1>2, <1>3, <1>b, <3>1
    <3>3. queue'[j] = back[j - (i - 1)]
      BY <1>d, <3>2
    <3>4. i + (j - (i - 1)) = j + 1
      BY <1>b
    <3> QED
      BY <1>3, <3>1, <3>3, <3>4
  <2> QED
    BY <2>1, <2>2, <2>3
<1> QED
  BY <1>1, <1>4, <1>a

(* Who gives up leaves the line as it was, without them. *)
LEMMA GivingUpKeepsTheLine ==
    ASSUME LockTyped, OneLine, NEW q \in Requests, RequestGivesUp(q)
    PROVE  /\ LockTyped' /\ OneLine'
           /\ \A t \in Tasks : Stands(t)' <=> Stands(t) /\ t # q
<1>1. PICK i \in 1..Len(queue) :
        /\ queue[i] = q /\ holder' = holder
        /\ queue' \in Seq(Tasks) /\ Len(queue') = Len(queue) - 1
        /\ \A j \in 1..(i - 1) : queue'[j] = queue[j]
        /\ \A j \in i..(Len(queue) - 1) : queue'[j] = queue[j + 1]
  BY GivingUpMovesTheRestUp
<1>a. holder' = holder
  BY <1>1
<1>b. queue \in Seq(Tasks) /\ Len(queue) \in Nat
  BY DEF LockTyped
<1>4. /\ queue' \in Seq(Tasks) /\ Len(queue') = Len(queue) - 1
      /\ \A j \in 1..(i - 1) : queue'[j] = queue[j]
      /\ \A j \in i..(Len(queue) - 1) : queue'[j] = queue[j + 1]
  BY <1>1
<1> DEFINE place(j) == IF j < i THEN j ELSE j + 1
<1>5. \A j \in 1..Len(queue') : place(j) \in 1..Len(queue) /\ queue'[j] = queue[place(j)]
                                /\ place(j) # i
  BY <1>4, <1>b
<1>6. \A j, k \in 1..Len(queue') : place(j) = place(k) => j = k
  BY <1>4, <1>b
<1>7. \A k \in 1..Len(queue) : k # i => \E j \in 1..Len(queue') : place(j) = k
  <2>1. ASSUME NEW k \in 1..Len(queue), k # i PROVE \E j \in 1..Len(queue') : place(j) = k
    <3>1. CASE k < i
      <4>1. k \in 1..Len(queue') /\ place(k) = k
        BY <1>4, <1>b, <3>1
      <4> QED
        BY <4>1
    <3>2. CASE ~(k < i)
      <4>1. k - 1 \in 1..Len(queue') /\ place(k - 1) = k
        BY <1>4, <1>b, <2>1, <3>2
      <4> QED
        BY <4>1
    <3> QED
      BY <3>1, <3>2
  <2> QED
    BY <2>1
<1> HIDE DEF place
<1>8. \A t \in Tasks : Waits(t)' <=> Waits(t) /\ t # q
  <2>1. ASSUME NEW t \in Tasks, Waits(t)' PROVE Waits(t) /\ t # q
    <3>1. PICK j \in 1..Len(queue') : queue'[j] = t
      BY <2>1 DEF Waits
    <3>2. place(j) \in 1..Len(queue) /\ queue[place(j)] = t /\ place(j) # i
      BY <1>5, <3>1
    <3> QED
      BY <1>1, <3>2 DEF Waits, OneLine
  <2>2. ASSUME NEW t \in Tasks, Waits(t), t # q PROVE Waits(t)'
    <3>1. PICK k \in 1..Len(queue) : queue[k] = t
      BY <2>2 DEF Waits
    <3>2. PICK j \in 1..Len(queue') : place(j) = k
      BY <1>1, <1>7, <2>2, <3>1
    <3>3. queue'[j] = t
      BY <1>5, <3>1, <3>2
    <3> QED
      BY <3>3 DEF Waits
  <2> QED
    BY <2>1, <2>2
<1>9. \A j, k \in 1..Len(queue') : queue'[j] = queue'[k] => j = k
  BY <1>5, <1>6 DEF OneLine
<1>10. holder # q /\ Waits(q) /\ holder # "nobody"
  <2>1. Waits(q)
    BY <1>1 DEF Waits
  <2>2. queue # <<>>
    BY <1>1
  <2> QED
    BY <2>1, <2>2 DEF OneLine
<1>11. ~Waits(holder)'
  BY <1>8, <1>10, <1>a DEF LockTyped, OneLine, Tasks
<1> QED
  BY <1>4, <1>8, <1>9, <1>10, <1>11, <1>a DEF LockTyped, OneLine, Stands

(* What leaves the lock and the loop alone keeps the lock's invariant. *)
LEMMA LockInvUntouched ==
    ASSUME LockInv, UNCHANGED <<holder, queue>>, loop' = "poll" <=> loop = "poll"
    PROVE  LockInv'
BY DEF LockInv, LockTyped, OneLine, LoopStandsWhilePolling, Stands, Waits

(* A poll cycle of the loop, over. *)
LEMMA CyclesKeepLockInv ==
    ASSUME LockInv, CycleSucceeds \/ CycleFails \/ CycleRejected
    PROVE  LockInv'
<1>1. /\ holder = "loop" /\ ReleaseLock
      /\ loop' = "alert"
  BY DEF CycleSucceeds, CycleFails, CycleRejected
<1>2. LockTyped' /\ OneLine' /\ (Stands("loop")' <=> FALSE)
  BY <1>1, TasksAreSomebody, ReleaseKeepsTheLine DEF LockInv
<1> QED
  BY <1>1, <1>2 DEF LockInv, LoopStandsWhilePolling, Stands, Waits

(* An on-demand poll asks for the lock, gives up, or ends. *)
LEMMA RequestsKeepLockInv ==
    ASSUME LockInv, NEW q \in Requests, RequestArrives(q) \/ RequestGivesUp(q) \/ RequestEnds(q)
    PROVE  LockInv'
<1>1. q \in Tasks /\ q # "loop" /\ q # "nobody" /\ "loop" \in Tasks
  BY TasksAreSomebody DEF Tasks
<1>2. loop' = loop
  BY DEF RequestArrives, RequestGivesUp, RequestEnds
<1>3. LockTyped' /\ OneLine' /\ (Stands("loop")' <=> Stands("loop"))
  <2>1. CASE RequestArrives(q)
    <3>1. ~Stands(q) /\ Acquire(q)
      BY <2>1 DEF RequestArrives, Stands
    <3> QED
      BY <1>1, <3>1, AcquireKeepsTheLine DEF LockInv
  <2>2. CASE RequestGivesUp(q)
    BY <1>1, <2>2, GivingUpKeepsTheLine DEF LockInv
  <2>3. CASE RequestEnds(q)
    <3>1. holder = q /\ ReleaseLock
      BY <2>3 DEF RequestEnds
    <3> QED
      BY <1>1, <3>1, ReleaseKeepsTheLine DEF LockInv
  <2> QED
    BY <2>1, <2>2, <2>3
<1> QED
  BY <1>2, <1>3 DEF LockInv, LoopStandsWhilePolling, Stands, Waits

(* The poller's lock has one line: a task stands in it once, nobody waits for a lock
   that is free, and the loop holds it or waits for it exactly while it polls, whatever
   on-demand polls arrive, give up or end (handle_poll, _poll_loop). *)
THEOREM LockHasOneLine == Spec => []LockInv
<1>1. Init => LockInv
  <2> SUFFICES ASSUME Init PROVE LockInv
    OBVIOUS
  <2>1. holder = "nobody" /\ queue = <<>> /\ loop = "sleep"
    BY DEF Init
  <2>2. LockTyped
    BY <2>1 DEF LockTyped
  <2> QED
    BY <2>1, <2>2, TasksAreSomebody DEF LockInv, OneLine, LoopStandsWhilePolling, Stands, Waits
<1>2. LockInv /\ [Next]_vars => LockInv'
  <2> SUFFICES ASSUME LockInv, [Next]_vars PROVE LockInv'
    OBVIOUS
  <2>1. CASE LoopWakes
    <3>1. loop = "sleep" /\ loop' = "poll" /\ Acquire("loop")
      BY <2>1 DEF LoopWakes
    <3>2. ~Stands("loop")
      BY <3>1 DEF LockInv, LoopStandsWhilePolling
    <3>3. LockTyped' /\ OneLine' /\ Stands("loop")'
      BY <3>1, <3>2, TasksAreSomebody, AcquireKeepsTheLine DEF LockInv
    <3> QED
      BY <3>1, <3>3 DEF LockInv, LoopStandsWhilePolling, Stands, Waits
  <2>2. CASE NoEmail \/ ClaimKey \/ PostSucceeds \/ PostFails
    <3>1. UNCHANGED <<holder, queue>> /\ loop # "poll" /\ loop' # "poll"
      BY <2>2 DEF NoEmail, ClaimKey, PostSucceeds, PostFails, lock
    <3> QED
      BY <3>1, LockInvUntouched
  <2>3. CASE Tick \/ UNCHANGED vars \/ \E state \in {"up", "down", "rejecting"} : BrokerTurns(state)
    <3>1. UNCHANGED <<holder, queue>> /\ UNCHANGED loop
      BY <2>3 DEF Tick, vars, BrokerTurns, lock
    <3> QED
      BY <3>1, LockInvUntouched
  <2> QED
    BY <2>1, <2>2, <2>3, CyclesKeepLockInv, RequestsKeepLockInv DEF Next, LoopStep
<1> QED
  BY <1>1, <1>2, PTL DEF Spec

\* The task holds the lock the loop waits for, or waits in front of it.
IsAhead(task) ==
    \/ holder = task
    \/ \E i, j \in 1..Len(queue) : i < j /\ queue[i] = task /\ queue[j] = "loop"

(* No on-demand poll overtakes the loop, whichever of them give up, fail or come again
   (handle_poll): while the loop waits nobody gets in front of it, and its wait ends
   with the lock. *)
LoopKeepsItsPlace ==
    [][Waits("loop") => IF Waits("loop")' THEN \A q \in Requests : IsAhead(q)' => IsAhead(q)
                        ELSE holder' = "loop"]_vars

(* Who asks for the lock while the loop waits stands behind it. *)
LEMMA NewcomersStandBehind ==
    ASSUME LockInv, NEW task \in Requests, Acquire(task), Waits("loop")
    PROVE  Waits("loop")' /\ \A q \in Requests : IsAhead(q)' => IsAhead(q)
<1>1. queue # <<>> /\ queue' = Append(queue, task) /\ holder' = holder
  BY DEF Acquire, Waits
<1>2. /\ Len(queue) \in Nat /\ Len(queue') = Len(queue) + 1
      /\ \A i \in 1..Len(queue) : queue'[i] = queue[i]
      /\ queue'[Len(queue) + 1] = task /\ task # "loop"
  BY <1>1, TasksAreSomebody DEF LockInv, LockTyped, Tasks
<1>3. Waits("loop")'
  BY <1>2 DEF Waits
<1>4. ASSUME NEW q \in Requests, IsAhead(q)' PROVE IsAhead(q)
  BY <1>1, <1>2, <1>4 DEF IsAhead
<1> QED
  BY <1>3, <1>4

(* The lock goes to who was in front. *)
LEMMA LockGoesToTheFront ==
    ASSUME LockInv, ReleaseLock, Waits("loop")
    PROVE  IF Waits("loop")' THEN \A q \in Requests : IsAhead(q)' => IsAhead(q) ELSE holder' = "loop"
<1>1. queue # <<>> /\ holder' = Head(queue) /\ queue' = Tail(queue)
  BY DEF ReleaseLock, Waits
<1>2. /\ Len(queue) \in Nat \ {0} /\ Len(queue') = Len(queue) - 1
      /\ \A i \in 1..Len(queue') : queue'[i] = queue[i + 1]
      /\ holder' = queue[1]
  BY <1>1, HeadTailProperties, LenProperties, EmptySeq DEF LockInv, LockTyped
<1>3. ASSUME NEW q \in Requests, IsAhead(q)', Waits("loop")' PROVE IsAhead(q)
  <2>1. CASE holder' = q
    <3>1. PICK j \in 1..Len(queue') : queue'[j] = "loop"
      BY <1>3 DEF Waits
    <3>2. 1 \in 1..Len(queue) /\ j + 1 \in 1..Len(queue) /\ 1 < j + 1
      BY <1>2
    <3> QED
      BY <1>2, <2>1, <3>1, <3>2 DEF IsAhead
  <2>2. CASE holder' # q
    <3>1. PICK i, j \in 1..Len(queue') : i < j /\ queue'[i] = q /\ queue'[j] = "loop"
      BY <1>3, <2>2 DEF IsAhead
    <3>2. i + 1 \in 1..Len(queue) /\ j + 1 \in 1..Len(queue) /\ i + 1 < j + 1
      BY <1>2, <3>1
    <3> QED
      BY <1>2, <3>1, <3>2 DEF IsAhead
  <2> QED
    BY <2>1, <2>2
<1>4. ASSUME ~Waits("loop")' PROVE holder' = "loop"
  <2>1. PICK k \in 1..Len(queue) : queue[k] = "loop"
    BY DEF Waits
  <2>2. ASSUME k # 1 PROVE FALSE
    <3>1. k - 1 \in 1..Len(queue') /\ queue'[k - 1] = "loop"
      BY <1>2, <2>1, <2>2
    <3> QED
      BY <1>4, <3>1 DEF Waits
  <2> QED
    BY <1>2, <2>1, <2>2
<1> QED
  BY <1>3, <1>4

(* Who gives up opens no way past the loop. *)
LEMMA GivingUpLetsNobodyPast ==
    ASSUME LockInv, NEW r \in Requests, RequestGivesUp(r), Waits("loop")
    PROVE  Waits("loop")' /\ \A q \in Requests : IsAhead(q)' => IsAhead(q)
<1>1. PICK i \in 1..Len(queue) :
        /\ queue[i] = r /\ holder' = holder
        /\ queue' \in Seq(Tasks) /\ Len(queue') = Len(queue) - 1
        /\ \A j \in 1..(i - 1) : queue'[j] = queue[j]
        /\ \A j \in i..(Len(queue) - 1) : queue'[j] = queue[j + 1]
  BY GivingUpMovesTheRestUp DEF LockInv
<1>2. Len(queue) \in Nat
  BY DEF LockInv, LockTyped
<1> DEFINE place(j) == IF j < i THEN j ELSE j + 1
<1>3. \A j \in 1..Len(queue') : place(j) \in 1..Len(queue) /\ queue'[j] = queue[place(j)]
  BY <1>1, <1>2
<1>4. \A j, k \in 1..Len(queue') : j < k => place(j) < place(k)
  BY <1>1, <1>2
<1> HIDE DEF place
<1>5. Waits("loop")'
  <2>1. "loop" \in Tasks /\ "loop" # r
    BY TasksAreSomebody
  <2>2. Stands("loop")'
    BY <2>1, GivingUpKeepsTheLine DEF LockInv, Stands
  <2>3. holder # "loop"
    BY DEF LockInv, OneLine
  <2> QED
    BY <1>1, <2>2, <2>3 DEF Stands
<1>6. ASSUME NEW q \in Requests, IsAhead(q)' PROVE IsAhead(q)
  <2>1. CASE holder' = q
    BY <1>1, <2>1 DEF IsAhead
  <2>2. CASE holder' # q
    <3>1. PICK j, k \in 1..Len(queue') : j < k /\ queue'[j] = q /\ queue'[k] = "loop"
      BY <1>6, <2>2 DEF IsAhead
    <3> QED
      BY <1>3, <1>4, <3>1 DEF IsAhead
  <2> QED
    BY <2>1, <2>2
<1> QED
  BY <1>5, <1>6

(* On-demand polls cannot keep the loop from its turn by coming first again and again: nobody
   gets in front of a loop that waits, and nothing but the lock ends its wait. *)
THEOREM NobodyOvertakesTheLoop == Spec => LoopKeepsItsPlace
<1> DEFINE kept == Waits("loop") => IF Waits("loop")' THEN \A q \in Requests : IsAhead(q)' => IsAhead(q)
                                   ELSE holder' = "loop"
<1>1. LockInv /\ [Next]_vars => [kept]_vars
  <2> SUFFICES ASSUME LockInv, [Next]_vars, Waits("loop") PROVE kept
    OBVIOUS
  <2>1. ASSUME UNCHANGED <<holder, queue>> PROVE kept
    BY <2>1 DEF Waits, IsAhead
  <2>2. ~LoopWakes
    BY DEF LoopWakes, LockInv, LoopStandsWhilePolling, Stands
  <2>3. CASE CycleSucceeds \/ CycleFails \/ CycleRejected
    <3>1. ReleaseLock
      BY <2>3 DEF CycleSucceeds, CycleFails, CycleRejected
    <3> QED
      BY <3>1, LockGoesToTheFront
  <2>4. CASE \E q \in Requests : RequestArrives(q)
    <3>1. PICK q \in Requests : Acquire(q)
      BY <2>4 DEF RequestArrives
    <3> QED
      BY <3>1, NewcomersStandBehind
  <2>5. CASE \E q \in Requests : RequestGivesUp(q)
    BY <2>5, GivingUpLetsNobodyPast
  <2>6. CASE \E q \in Requests : RequestEnds(q)
    <3>1. ReleaseLock
      BY <2>6 DEF RequestEnds
    <3> QED
      BY <3>1, LockGoesToTheFront
  <2>7. CASE NoEmail \/ ClaimKey \/ PostSucceeds \/ PostFails \/ Tick \/ UNCHANGED vars
               \/ \E state \in {"up", "down", "rejecting"} : BrokerTurns(state)
    <3>1. UNCHANGED <<holder, queue>>
      BY <2>7 DEF NoEmail, ClaimKey, PostSucceeds, PostFails, Tick, BrokerTurns, vars, lock
    <3> HIDE DEF kept
    <3> QED
      BY <2>1, <3>1
  <2> HIDE DEF kept
  <2> QED
    BY <2>2, <2>3, <2>4, <2>5, <2>6, <2>7 DEF Next, LoopStep
<1> QED
  BY <1>1, LockHasOneLine, PTL DEF Spec, LoopKeepsItsPlace

(* What no cycle, no tick and no turn of the broker changes keeps its type. *)
LEMMA OthersUntouched == ASSUME OthersTyped, UNCHANGED <<broker, wait, alerted>> PROVE OthersTyped'
BY DEF OthersTyped

(* Every variable of the poller keeps its type. *)
THEOREM TypeCorrect == Spec => []TypeOK
<1>1. Init => OthersTyped
  <2> SUFFICES ASSUME Init PROVE OthersTyped
    OBVIOUS
  <2>1. wait \in 0..Pause
    BY DEF Init
  <2> QED
    BY <2>1 DEF Init, OthersTyped
<1>2. OthersTyped /\ [Next]_vars => OthersTyped'
  <2> SUFFICES ASSUME OthersTyped, [Next]_vars PROVE OthersTyped'
    OBVIOUS
  <2>1. CASE CycleSucceeds \/ CycleFails \/ CycleRejected
    <3>1. UNCHANGED broker /\ wait' \in {1, Pause}
      BY <2>1 DEF CycleSucceeds, CycleFails, CycleRejected
    <3>2. alerted' = FALSE \/ \E b \in BOOLEAN : alerted' = (alerted \/ Due(downFor', b))
      BY <2>1 DEF CycleSucceeds, CycleFails, CycleRejected, RecordSuccess, RecordFailure
    <3>3. alerted' \in BOOLEAN
      BY <3>2
    <3>4. wait' \in 0..Pause
      BY <3>1
    <3> QED
      BY <3>1, <3>3, <3>4 DEF OthersTyped
  <2>2. CASE Tick
    <3>1. UNCHANGED <<broker, alerted>> /\ wait' \in {wait, wait - 1} /\ (wait' # wait => wait > 0)
      BY <2>2 DEF Tick
    <3> QED
      BY <3>1 DEF OthersTyped
  <2>3. CASE \E state \in {"up", "down", "rejecting"} : BrokerTurns(state)
    BY <2>3 DEF BrokerTurns, OthersTyped, tracker
  <2>4. CASE LoopWakes \/ NoEmail \/ ClaimKey \/ PostSucceeds \/ PostFails \/ UNCHANGED vars
    <3>1. UNCHANGED <<broker, wait, alerted>>
      BY <2>4 DEF LoopWakes, NoEmail, ClaimKey, PostSucceeds, PostFails, vars, tracker
    <3> QED
      BY <3>1, OthersUntouched
  <2>5. CASE \E q \in Requests : RequestArrives(q) \/ RequestGivesUp(q) \/ RequestEnds(q)
    <3>1. UNCHANGED <<broker, wait, alerted>>
      BY <2>5 DEF RequestArrives, RequestGivesUp, RequestEnds, tracker
    <3> QED
      BY <3>1, OthersUntouched
  <2> QED
    BY <2>1, <2>2, <2>3, <2>4, <2>5 DEF Next, LoopStep
<1>3. EmailInv /\ LockInv /\ OthersTyped => TypeOK
  BY DEF EmailInv, AgesTyped, LockInv, LockTyped, OthersTyped, TypeOK, Tasks
<1> QED
  BY <1>1, <1>2, <1>3, EmailsAreJustified, LockHasOneLine, PTL DEF Spec
===============================================================================
