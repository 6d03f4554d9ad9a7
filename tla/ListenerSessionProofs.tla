------------------------ MODULE ListenerSessionProofs ------------------------
(***************************************************************************)
(* Theorems about the life of a listener, for any number of bridge         *)
(* processes, whichever of them stamp an id, and any number of events,     *)
(* faults and stops.                                                       *)
(***************************************************************************)
EXTENDS ListenerSession, TLAPS

USE SessionAssumption

-----------------------------------------------------------------------------
(* What the loop relies on between its steps: a connection leads to a process that runs
   or has run, and the message in hand has been received. *)
LoopInv ==
    /\ peer <= bridge
    /\ Connected => peer # 0
    /\ listener = "off" => peer = 0
    /\ listener \in {"saving", "handling"} => message \in received

(* A cursor is empty or names a process that has run, none that started after the one
   the connection leads to. *)
WellFormed(c) ==
    /\ c.seq = 0 => c.id = 0
    /\ c.id <= bridge

CursorInv ==
    /\ WellFormed(cursor) /\ WellFormed(saved)
    /\ peer # 0 => cursor.id <= peer

(* A cursor that names the running bridge is true: the relay has every event of it as
   far as the number, but for those it was never to see.  Of an earlier process, which
   will not run again, a cursor may claim too much: the events of one without ids move
   its number and leave its id. *)
Seen == received \cup blind

Complete(b, n, seen) == \A e \in Events : e[1] = b /\ e[2] <= n => e \in seen

ClaimsOnlyReceived(c) ==
    c.id = bridge /\ bridge \notin Legacy => Complete(bridge, c.seq, Seen)

ResumeInv ==
    /\ ClaimsOnlyReceived(cursor) /\ ClaimsOnlyReceived(saved)
    /\ peer # 0 /\ peer \notin Legacy => Complete(peer, pos, Seen)

Inv == TypeOK /\ LoopInv /\ CursorInv /\ ResumeInv

-----------------------------------------------------------------------------
(* A cursor of the right type asks for a start of the right type, which the process that
   runs has gone past. *)
LEMMA ReplayStartType ==
    ASSUME TypeOK, NEW c \in Cursors
    PROVE  ReplayStart(c) \in 0..MaxSeq /\ ReplayStart(c) <= emitted[bridge]
<1>1. emitted[bridge] \in 0..MaxSeq /\ c.seq \in 0..MaxSeq
  BY DEF TypeOK, Cursors
<1>2. ReplayStart(c) \in {0, c.seq, emitted[bridge]} /\ ReplayStart(c) <= emitted[bridge]
  BY <1>1 DEF ReplayStart, Asked, NoCursor, Fewer
<1> QED
  BY <1>1, <1>2

(* The event that is received next is one the process has emitted. *)
LEMMA NextEvent ==
    ASSUME TypeOK, LoopInv, Receive
    PROVE  /\ peer \in 1..Processes /\ pos + 1 \in 1..MaxSeq
           /\ <<peer, pos + 1>> \in Events
<1>1. peer \in 1..Processes
  BY DEF TypeOK, LoopInv, Connected, Receive
<1>2. emitted[peer] \in 0..MaxSeq /\ pos \in 0..MaxSeq /\ pos < emitted[peer]
  BY <1>1 DEF TypeOK, Receive
<1> QED
  BY <1>1, <1>2 DEF Events

(* Moving a cursor keeps its type. *)
LEMMA AdvancedType ==
    ASSUME NEW c \in Cursors, NEW b \in 1..Processes, NEW n \in 1..MaxSeq
    PROVE  Advanced(c, b, n) \in Cursors
BY DEF Advanced, Cursors, IdOf

LEMMA FaultType ==
    TypeOK /\ Fault => faults' \in 0..MaxFaults /\ stops' \in 0..MaxStops
BY DEF TypeOK, Fault

LEMMA DelayType == TypeOK => Fewer(2 * delay, MaxDelay) \in 1..MaxDelay
BY DEF TypeOK, Fewer

(* Every step keeps the types: what the buffer takes over has been received. *)
LEMMA TypeStep == TypeOK /\ LoopInv /\ [Next]_vars => TypeOK'
<1> SUFFICES ASSUME TypeOK, LoopInv, [Next]_vars PROVE TypeOK'
  OBVIOUS
<1>1. CASE Connect
  <2>1. ReplayStart(cursor) \in 0..MaxSeq
    BY ReplayStartType DEF TypeOK
  <2>2. Jumped(cursor) \subseteq Events
    BY DEF Jumped
  <2> QED
    BY <1>1, <2>1, <2>2 DEF TypeOK, Connect, env, watch, bounds
<1>2. CASE ConnectFails
  BY <1>2 DEF TypeOK, ConnectFails, LosesConnection, env, watch, bounds
<1>3. CASE ConnectFatal
  BY <1>3 DEF TypeOK, ConnectFatal, Fault, env, socket
<1>4. CASE BackoffEnds
  BY <1>4, DelayType DEF TypeOK, BackoffEnds, env, socket, monitor, watch, bounds
<1>5. CASE Receive
  <2>1. /\ <<peer, pos + 1>> \in Events
        /\ pos + 1 \in 0..MaxSeq
        /\ Advanced(cursor, peer, pos + 1) \in Cursors
    BY <1>5, NextEvent, AdvancedType DEF TypeOK
  <2> QED
    BY <1>5, <2>1 DEF TypeOK, Receive, env, monitor, watch, bounds
<1>6. CASE SaveSucceeds
  BY <1>6 DEF TypeOK, SaveSucceeds, SavedPair, env, socket, monitor, watch, bounds
<1>7. CASE SaveFails
  BY <1>7 DEF TypeOK, SaveFails, Fault, env, socket, monitor, watch
<1>8. CASE Handle
  BY <1>8 DEF TypeOK, LoopInv, Handle, env, socket, monitor, watch, bounds
<1>9. CASE Ignore
  BY <1>9 DEF TypeOK, Ignore, env, socket, monitor, watch, bounds
<1>10. CASE HandleRaises
  <2>1. faults' \in 0..MaxFaults /\ stops' \in 0..MaxStops
    BY <1>10, FaultType DEF HandleRaises
  <2> QED
    BY <1>10, <2>1 DEF TypeOK, HandleRaises, LosesConnection, env, watch
<1>11. CASE ConnectionEnds
  BY <1>11 DEF TypeOK, ConnectionEnds, LosesConnection, env, watch, bounds
<1>12. ASSUME NEW e \in Events, Settle(e) PROVE TypeOK'
  BY <1>12 DEF TypeOK, Settle, env, socket, monitor, watch, bounds
<1>13. CASE WatchStep
  <2>1. streak \in 0..AlertAfter /\ Fewer(streak + 1, AlertAfter) \in 0..AlertAfter
        /\ 0 \in 0..AlertAfter
    BY DEF TypeOK, Fewer
  <2>2. streak' \in 0..AlertAfter /\ check' \in {"none", "asked", "good", "bad"}
    BY <1>13, <2>1 DEF TypeOK, WatchStep, CheckBegins, BridgeAnswers, CheckEnds, Failed
  <2>3. UNCHANGED <<env, listener, socket, message, cursor, saved, held, delay, up, bounds,
                    received, blind>>
    BY <1>13 DEF WatchStep, CheckBegins, BridgeAnswers, CheckEnds
  <2> QED
    BY <2>2, <2>3 DEF TypeOK, env, socket, bounds
<1>14. CASE Stop
  <2>1. stops' \in 0..MaxStops /\ faults' \in 0..MaxFaults
    BY <1>14 DEF TypeOK, Stop
  <2>2. cursor' \in Cursors /\ 0 \in 0..MaxSeq /\ 0 \in 0..Processes /\ 1 \in 1..MaxDelay
        /\ 0 \in 0..AlertAfter
    BY <1>14 DEF Stop, Gone, Cursors, NoCursor
  <2> QED
    BY <1>14, <2>1, <2>2 DEF TypeOK, Stop, Gone, env
<1>15. CASE Start
  <2>1. cursor' \in Cursors /\ faults' \in 0..MaxFaults /\ stops' \in 0..MaxStops
    BY <1>15 DEF TypeOK, Start, Fault, Cursors, NoCursor, bounds
  <2> QED
    BY <1>15, <2>1 DEF TypeOK, Start, env, socket, monitor, watch
<1>16. CASE Emit
  <2>1. emitted[bridge] + 1 \in 0..MaxSeq
    BY <1>16 DEF TypeOK, Emit
  <2> QED
    BY <1>16, <2>1 DEF TypeOK, Emit, socket, monitor, watch, bounds
<1>17. CASE BridgeRestarts
  <2>1. bridge' \in 1..Processes
    BY <1>17 DEF TypeOK, BridgeRestarts
  <2> QED
    BY <1>17, <2>1 DEF TypeOK, BridgeRestarts, monitor, watch, bounds
<1>18. CASE ConnectionLost
  BY <1>18 DEF TypeOK, ConnectionLost, env, monitor, watch, bounds
<1>19. CASE GatewayTurns
  BY <1>19 DEF TypeOK, GatewayTurns, socket, monitor, watch, bounds
<1>20. CASE UNCHANGED vars
  BY <1>20 DEF TypeOK, vars, env, socket, monitor, watch, bounds
<1> QED
  BY <1>1, <1>2, <1>3, <1>4, <1>5, <1>6, <1>7, <1>8, <1>9, <1>10, <1>11, <1>12, <1>13,
     <1>14, <1>15, <1>16, <1>17, <1>18, <1>19, <1>20 DEF Next, LoopStep

(* What the loop relies on is kept by every step. *)
LEMMA LoopStepInv == TypeOK /\ LoopInv /\ [Next]_vars => LoopInv'
<1> SUFFICES ASSUME TypeOK, LoopInv, [Next]_vars PROVE LoopInv'
  OBVIOUS
<1> USE DEF LoopInv, Connected
<1>1. CASE Connect
  BY <1>1 DEF TypeOK, Connect, env
<1>2. CASE ConnectFails \/ HandleRaises \/ ConnectionEnds
  BY <1>2 DEF TypeOK, ConnectFails, HandleRaises, ConnectionEnds, LosesConnection, env
<1>3. CASE ConnectFatal \/ BackoffEnds \/ WatchStep \/ Emit \/ GatewayTurns
  BY <1>3 DEF TypeOK, ConnectFatal, BackoffEnds, WatchStep, CheckBegins, BridgeAnswers, CheckEnds,
              Emit, GatewayTurns, env, socket
<1>4. CASE Receive
  BY <1>4 DEF TypeOK, Receive, env
<1>5. CASE SaveSucceeds \/ SaveFails
  BY <1>5 DEF TypeOK, SaveSucceeds, SaveFails, env, socket
<1>6. CASE Handle \/ Ignore
  BY <1>6 DEF TypeOK, Handle, Ignore, env, socket
<1>7. ASSUME NEW e \in Events, Settle(e) PROVE LoopInv'
  BY <1>7 DEF TypeOK, Settle, env, socket
<1>8. CASE Stop
  BY <1>8 DEF TypeOK, Stop, Gone, env
<1>9. CASE Start
  BY <1>9 DEF TypeOK, Start, env, socket
<1>10. CASE BridgeRestarts \/ ConnectionLost
  BY <1>10 DEF TypeOK, BridgeRestarts, ConnectionLost, env
<1>11. CASE UNCHANGED vars
  BY <1>11 DEF vars, env, socket
<1> QED
  BY <1>1, <1>2, <1>3, <1>4, <1>5, <1>6, <1>7, <1>8, <1>9, <1>10, <1>11
     DEF Next, LoopStep

LEMMA InitType == Init => TypeOK
<1>1. /\ 0 \in 0..MaxSeq /\ 0 \in 0..Processes /\ 1 \in 1..MaxDelay /\ 0 \in 0..AlertAfter
      /\ 1 \in 1..Processes /\ 0 \in 0..MaxFaults /\ 0 \in 0..MaxStops
  OBVIOUS
<1>2. Init => cursor \in Cursors /\ saved \in Cursors
  BY <1>1 DEF Init, Cursors, NoCursor
<1> QED
  BY <1>1, <1>2 DEF Init, TypeOK

(* Type correctness. *)
THEOREM TypeCorrect == Spec => []TypeOK
<1>1. Init => TypeOK /\ LoopInv
  BY InitType DEF Init, LoopInv, Connected
<1>2. TypeOK /\ LoopInv /\ [Next]_vars => (TypeOK /\ LoopInv)'
  BY TypeStep, LoopStepInv
<1> QED
  BY <1>1, <1>2, PTL DEF Spec

-----------------------------------------------------------------------------
(* Cursors stay well formed, and never run ahead of the process they were issued by. *)
LEMMA CursorStepInv == TypeOK /\ LoopInv /\ CursorInv /\ [Next]_vars => CursorInv'
<1> SUFFICES ASSUME TypeOK, LoopInv, CursorInv, [Next]_vars PROVE CursorInv'
  OBVIOUS
<1>a. /\ bridge \in Nat /\ peer \in Nat
      /\ cursor.id \in Nat /\ cursor.seq \in Nat /\ saved.id \in Nat /\ saved.seq \in Nat
  BY DEF TypeOK, Cursors
<1>1. CASE Connect
  BY <1>1, <1>a DEF CursorInv, WellFormed, Connect, env
<1>2. CASE Receive
  <2>1. peer \in 1..Processes /\ pos + 1 \in 1..MaxSeq /\ peer <= bridge /\ cursor.id <= peer
    BY <1>2, NextEvent DEF LoopInv, CursorInv
  <2>2. cursor' = Advanced(cursor, peer, pos + 1) /\ UNCHANGED <<bridge, peer, saved>>
    BY <1>2 DEF Receive, env
  <2>3. cursor'.seq # 0 /\ cursor'.id <= peer
    <3>1. CASE IdOf(peer) # 0 /\ IdOf(peer) # cursor.id
      BY <2>1, <2>2, <3>1 DEF Advanced, IdOf
    <3>2. CASE ~(IdOf(peer) # 0 /\ IdOf(peer) # cursor.id)
      <4>1. CASE pos + 1 > cursor.seq
        <5>1. cursor' = [cursor EXCEPT !.seq = pos + 1]
          BY <2>2, <3>2, <4>1 DEF Advanced
        <5>2. cursor \in [seq : 0..MaxSeq, id : 0..Processes]
          BY DEF TypeOK, Cursors
        <5>3. cursor'.seq = pos + 1 /\ cursor'.id = cursor.id
          BY <5>1, <5>2
        <5> QED
          BY <2>1, <5>3
      <4>2. CASE ~(pos + 1 > cursor.seq)
        <5>1. cursor' = cursor
          BY <2>2, <3>2, <4>2 DEF Advanced
        <5> QED
          BY <2>1, <4>2, <5>1, <1>a
      <4> QED
        BY <4>1, <4>2
    <3> QED
      BY <3>1, <3>2
  <2>4. cursor'.seq \in Nat /\ cursor'.id \in Nat
    <3>1. cursor \in Cursors
      BY DEF TypeOK
    <3>2. cursor' \in Cursors
      BY <2>1, <2>2, <3>1, AdvancedType
    <3> QED
      BY <3>2 DEF Cursors
  <2> QED
    BY <2>1, <2>2, <2>3, <2>4, <1>a DEF CursorInv, WellFormed
<1>3. CASE SaveSucceeds
  BY <1>3 DEF CursorInv, WellFormed, SaveSucceeds, SavedPair, env, socket
<1>4. CASE Stop
  BY <1>4, <1>a DEF CursorInv, WellFormed, Stop, Gone, NoCursor, env
<1>5. CASE Start
  <2>1. peer' = peer /\ bridge' = bridge /\ saved' = saved
        /\ cursor' \in {saved, NoCursor}
    BY <1>5 DEF Start, env, socket
  <2>2. peer = 0
    BY <1>5 DEF Start, LoopInv
  <2> QED
    BY <2>1, <2>2, <1>a DEF CursorInv, WellFormed, NoCursor
<1>6. CASE BridgeRestarts
  BY <1>6, <1>a DEF CursorInv, WellFormed, BridgeRestarts
<1>7. CASE UNCHANGED <<bridge, peer, cursor, saved>>
  BY <1>7 DEF CursorInv, WellFormed
<1>8. ASSUME NEW e \in Events, Settle(e) PROVE UNCHANGED <<bridge, peer, cursor, saved>>
  BY <1>8 DEF Settle, env, socket
<1>9. ConnectFails \/ HandleRaises \/ ConnectionEnds => UNCHANGED <<bridge, peer, cursor, saved>>
  BY DEF ConnectFails, HandleRaises, ConnectionEnds, LosesConnection, env
<1>10. ConnectFatal \/ BackoffEnds \/ SaveFails \/ Handle \/ Ignore \/ WatchStep \/ Emit
          \/ ConnectionLost \/ GatewayTurns => UNCHANGED <<bridge, peer, cursor, saved>>
  BY DEF ConnectFatal, BackoffEnds, SaveFails, Handle, Ignore, WatchStep, CheckBegins,
         BridgeAnswers, CheckEnds, Emit, ConnectionLost, GatewayTurns, env, socket
<1>11. UNCHANGED vars => UNCHANGED <<bridge, peer, cursor, saved>>
  BY DEF vars, env, socket
<1> QED
  BY <1>1, <1>2, <1>3, <1>4, <1>5, <1>6, <1>7, <1>8, <1>9, <1>10, <1>11 DEF Next, LoopStep

(* What is complete stays so when more is seen. *)
LEMMA CompleteStays ==
    ASSUME NEW seen, NEW more, seen \subseteq more, NEW b, NEW n, Complete(b, n, seen)
    PROVE  Complete(b, n, more)
BY DEF Complete

(* A new connection begins where everything before has been received, if its cursor
   tells the truth, or is not to be seen. *)
LEMMA ReplayStartComplete ==
    ASSUME TypeOK, WellFormed(cursor), ClaimsOnlyReceived(cursor), bridge \notin Legacy,
           NEW e \in Events, e[1] = bridge, e[2] <= ReplayStart(cursor)
    PROVE  e \in Seen \cup Jumped(cursor)
<1>1. CASE cursor.id = 0
  BY <1>1 DEF Jumped
<1>2. CASE cursor.id # 0
  <2>1. cursor.seq # 0 /\ cursor.seq \in Nat /\ emitted[bridge] \in Nat /\ e[2] \in Nat
        /\ e[2] # 0
    BY <1>2 DEF WellFormed, TypeOK, Cursors, Events
  <2>2. Asked(cursor) = cursor
    BY <2>1 DEF Asked
  <2>3. CASE cursor.id # bridge
    BY <1>2, <2>1, <2>2, <2>3 DEF ReplayStart
  <2>4. CASE cursor.id = bridge
    <3>1. ReplayStart(cursor) = Fewer(cursor.seq, emitted[bridge])
      BY <2>1, <2>2, <2>4 DEF ReplayStart
    <3>2. e[2] <= cursor.seq
      BY <2>1, <3>1 DEF Fewer
    <3> QED
      BY <2>4, <3>2 DEF ClaimsOnlyReceived, Complete
  <2> QED
    BY <2>3, <2>4
<1> QED
  BY <1>1, <1>2

(* One more event extends what has been received without a gap. *)
LEMMA CompleteGrows ==
    ASSUME NEW seen, NEW b \in 1..Processes, NEW n \in 0..MaxSeq, Complete(b, n, seen)
    PROVE  Complete(b, n + 1, seen \cup {<<b, n + 1>>})
<1> SUFFICES ASSUME NEW e \in Events, e[1] = b, e[2] <= n + 1
             PROVE  e \in seen \cup {<<b, n + 1>>}
  BY DEF Complete
<1>1. e[2] \in 1..MaxSeq /\ e = <<e[1], e[2]>>
  BY DEF Events
<1>2. CASE e[2] <= n
  BY <1>2 DEF Complete
<1>3. CASE ~(e[2] <= n)
  <2>1. e[2] = n + 1
    BY <1>1, <1>3
  <2> QED
    BY <1>1, <2>1
<1> QED
  BY <1>2, <1>3

(* Receiving an event keeps the cursor true: a new id comes with the number of an event
   before which nothing is missing, a cursor of the same process moves on by one, and a
   process without ids cannot touch a cursor that names the running one. *)
LEMMA ReceiveClaims ==
    ASSUME TypeOK, LoopInv, CursorInv, ResumeInv, Receive
    PROVE  ClaimsOnlyReceived(cursor)'
<1>1. /\ peer \in 1..Processes /\ pos + 1 \in 1..MaxSeq /\ pos \in 0..MaxSeq
      /\ peer <= bridge /\ cursor.id <= peer /\ bridge \in Nat /\ cursor \in Cursors
  BY NextEvent DEF LoopInv, CursorInv, TypeOK
<1>2. /\ cursor' = Advanced(cursor, peer, pos + 1)
      /\ bridge' = bridge /\ blind' = blind
      /\ Seen' = Seen \cup {<<peer, pos + 1>>}
  BY DEF Receive, env, Seen
<1> SUFFICES ASSUME cursor'.id = bridge, bridge \notin Legacy
             PROVE  Complete(bridge, cursor'.seq, Seen')
  BY <1>2 DEF ClaimsOnlyReceived
<1>3. peer = bridge
  <2>1. cursor'.id = cursor.id \/ cursor'.id = peer
    BY <1>1, <1>2 DEF Advanced, IdOf, Cursors
  <2> QED
    BY <1>1, <2>1 DEF Cursors
<1>4. IdOf(peer) = bridge /\ bridge # 0
  BY <1>1, <1>3 DEF IdOf
<1>5. Complete(bridge, pos + 1, Seen')
  BY <1>1, <1>2, <1>3, CompleteGrows DEF ResumeInv
<1>6. CASE cursor'.seq = pos + 1
  BY <1>5, <1>6
<1>7. CASE cursor'.seq # pos + 1
  <2>1. cursor' = cursor
    BY <1>1, <1>2, <1>7 DEF Advanced, Cursors
  <2>2. Complete(bridge, cursor.seq, Seen)
    BY <2>1 DEF ResumeInv, ClaimsOnlyReceived
  <2> QED
    BY <1>2, <2>1, <2>2, CompleteStays
<1> QED
  BY <1>6, <1>7

(* Cursors keep telling the truth. *)
LEMMA ResumeStepInv ==
    TypeOK /\ LoopInv /\ CursorInv /\ ResumeInv /\ [Next]_vars => ResumeInv'
<1> SUFFICES ASSUME TypeOK, LoopInv, CursorInv, ResumeInv, [Next]_vars PROVE ResumeInv'
  OBVIOUS
<1> DEFINE Same == UNCHANGED <<bridge, peer, pos, cursor, saved, Seen>>
<1>1. CASE Connect
  <2>1. /\ peer' = bridge /\ pos' = ReplayStart(cursor) /\ bridge' = bridge
        /\ cursor' = cursor /\ saved' = saved /\ received' = received
        /\ Seen' = Seen \cup Jumped(cursor)
    BY <1>1 DEF Connect, env, Seen
  <2>2. ClaimsOnlyReceived(cursor)' /\ ClaimsOnlyReceived(saved)'
    BY <2>1, CompleteStays DEF ResumeInv, ClaimsOnlyReceived
  <2>3. bridge \notin Legacy => Complete(bridge, ReplayStart(cursor), Seen')
    BY <2>1, ReplayStartComplete DEF Complete, CursorInv, ResumeInv
  <2> QED
    BY <2>1, <2>2, <2>3 DEF ResumeInv
<1>2. CASE Receive
  <2>1. /\ peer' = peer /\ pos' = pos + 1 /\ bridge' = bridge /\ saved' = saved
        /\ Seen' = Seen \cup {<<peer, pos + 1>>}
    BY <1>2 DEF Receive, env, Seen
  <2>2. ClaimsOnlyReceived(saved)'
    BY <2>1, CompleteStays DEF ResumeInv, ClaimsOnlyReceived
  <2>3. peer \notin Legacy => Complete(peer, pos + 1, Seen')
    <3>1. peer \in 1..Processes /\ pos + 1 \in 1..MaxSeq /\ pos \in 0..MaxSeq
      BY <1>2, NextEvent DEF TypeOK
    <3> QED
      BY <2>1, <3>1, CompleteGrows DEF ResumeInv
  <2> QED
    BY <1>2, <2>1, <2>2, <2>3, ReceiveClaims DEF ResumeInv
<1>3. CASE SaveSucceeds
  BY <1>3 DEF ResumeInv, ClaimsOnlyReceived, Complete, SaveSucceeds, SavedPair, env, socket, Seen
<1>4. CASE Stop
  <2>1. /\ peer' = 0 /\ cursor' = NoCursor
        /\ UNCHANGED <<bridge, saved, Seen>>
    BY <1>4 DEF Stop, Gone, env, Seen
  <2>2. bridge # 0
    BY DEF TypeOK
  <2> QED
    BY <2>1, <2>2 DEF ResumeInv, ClaimsOnlyReceived, Complete, NoCursor
<1>5. CASE Start
  <2>1. /\ UNCHANGED <<bridge, peer, pos, saved, Seen>>
        /\ cursor' \in {saved, NoCursor}
    BY <1>5 DEF Start, env, socket, Seen
  <2>2. bridge # 0
    BY DEF TypeOK
  <2> QED
    BY <2>1, <2>2 DEF ResumeInv, ClaimsOnlyReceived, Complete, NoCursor
<1>6. CASE BridgeRestarts
  <2>1. /\ bridge' = bridge + 1
        /\ UNCHANGED <<peer, pos, cursor, saved, Seen>>
    BY <1>6 DEF BridgeRestarts, Seen
  <2>2. cursor.id # bridge + 1 /\ saved.id # bridge + 1
    BY DEF CursorInv, WellFormed, TypeOK, Cursors
  <2> QED
    BY <2>1, <2>2 DEF ResumeInv, ClaimsOnlyReceived, Complete
<1>7. CASE Same
  BY <1>7 DEF ResumeInv, ClaimsOnlyReceived, Complete
<1>8. ASSUME NEW e \in Events, Settle(e) PROVE Same
  BY <1>8 DEF Settle, env, socket, Seen
<1>9. ConnectFails \/ HandleRaises \/ ConnectionEnds => Same
  BY DEF ConnectFails, HandleRaises, ConnectionEnds, LosesConnection, env, Seen
<1>10. ConnectFatal \/ BackoffEnds \/ SaveFails \/ Handle \/ Ignore \/ WatchStep \/ Emit
          \/ ConnectionLost \/ GatewayTurns => Same
  BY DEF ConnectFatal, BackoffEnds, SaveFails, Handle, Ignore, WatchStep, CheckBegins,
         BridgeAnswers, CheckEnds, Emit, ConnectionLost, GatewayTurns, env, socket, Seen
<1>11. UNCHANGED vars => Same
  BY DEF vars, env, socket, Seen
<1> HIDE DEF Same
<1> QED
  BY <1>1, <1>2, <1>3, <1>4, <1>5, <1>6, <1>7, <1>8, <1>9, <1>10, <1>11 DEF Next, LoopStep

(* Types, cursors and positions keep to their invariants together. *)
LEMMA InvHolds == Spec => []Inv
<1>1. Init => Inv
  <2>1. Init => LoopInv /\ CursorInv /\ ResumeInv
    BY DEF Init, LoopInv, Connected, CursorInv, WellFormed, ResumeInv, ClaimsOnlyReceived,
           NoCursor
  <2> QED
    BY <2>1, InitType DEF Inv
<1>2. Inv /\ [Next]_vars => Inv'
  BY TypeStep, LoopStepInv, CursorStepInv, ResumeStepInv DEF Inv
<1> QED
  BY <1>1, <1>2, PTL DEF Spec

(* What the cursor claims, in memory and on disk: one that names the running bridge has no
   event before its number that the relay neither received nor was never to see. *)
THEOREM CursorsAreTrue ==
    Spec => [](ClaimsOnlyReceived(cursor) /\ ClaimsOnlyReceived(saved))
<1>1. Inv => ClaimsOnlyReceived(cursor) /\ ClaimsOnlyReceived(saved)
  BY DEF Inv, ResumeInv
<1> QED
  BY <1>1, InvHolds, PTL

(* "The bridge replays exactly the events the relay missed": what the connection to a bridge that
   stamps ids has gone past was received, now or before a restart, or is of before a
   connection that named no process; for any number of bridge processes of either kind,
   faults and stops. *)
THEOREM ResumeIsComplete == Spec => []NothingSkipped
<1>1. Inv => NothingSkipped
  BY DEF Inv, ResumeInv, Complete, Seen, NothingSkipped, TypeOK, Events
<1> QED
  BY <1>1, InvHolds, PTL
=============================================================================
