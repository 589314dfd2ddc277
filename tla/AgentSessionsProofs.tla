------------------------ MODULE AgentSessionsProofs ------------------------
(***************************************************************************)
(* Machine-checked proofs about AgentSessions, for any sets of agents and  *)
(* websockets.  Invariant is the conjunction of TypeOK, ActiveIsServed and *)
(* NoOrphanedConnection: the last needs the second (the socket a new       *)
(* registration replaces, or the watchdog pops, is a session of the same   *)
(* agent), and both need the types.  OnlineHasSession and NoLostSnapshot   *)
(* are inductive relative to it.  ConnectedIsReachable needs that sessions *)
(* which close the sockets they replaced do not wait in a circle.          *)
(***************************************************************************)
EXTENDS AgentSessions, TLAPS

-----------------------------------------------------------------------------
(* Typing.                                                                 *)

\* unregister_agent leaves the runtime's tables well typed.
LEMMA UnregisterType ==
    ASSUME TypeOK, NEW a \in Agent, NEW w, Unregister(a, w)
    PROVE  /\ active' \in [Agent -> Ws \cup {None}]
           /\ conn' \in [Agent -> {"absent", "yes", "no"}]
           /\ silent' \in [Agent -> BOOLEAN]
  <1>1. CASE MayUnregister(a, w)
    BY <1>1 DEF TypeOK, Unregister, ResetConn
  <1>2. CASE ~MayUnregister(a, w)
    BY <1>2 DEF TypeOK, Unregister
  <1> QED
    BY <1>1, <1>2

\* The steps of the network, the senders and the broadcaster keep TypeOK.
LEMMA TypeEnvironment ==
    ASSUME TypeOK,
           \/ \E w \in Ws :
                 \/ \E a \in Agent : Connect(w, a)
                 \/ PeerClose(w) \/ Hang(w) \/ Resume(w) \/ Keepalive(w)
                 \/ SendDone(w) \/ SendFails(w)
           \/ \E a \in Agent : Tick(a) \/ SendBegin(a)
           \/ Broadcast
    PROVE  TypeOK'
  <1>1. ASSUME NEW w \in Ws, NEW a \in Agent, Connect(w, a) PROVE TypeOK'
    BY <1>1 DEF TypeOK, Connect, Transport, Point, Unreferenced
  <1>2. ASSUME NEW w \in Ws,
               PeerClose(w) \/ Hang(w) \/ Resume(w) \/ Keepalive(w)
        PROVE TypeOK'
    BY <1>2 DEF TypeOK, PeerClose, Hang, Resume, Keepalive, Transfer, Transport
  <1>3. ASSUME NEW a \in Agent, Tick(a) \/ SendBegin(a) PROVE TypeOK'
    BY <1>3 DEF TypeOK, Tick, SendBegin
  <1>4. ASSUME NEW w \in Ws, SendDone(w) PROVE TypeOK'
    BY <1>4 DEF TypeOK, SendDone
  <1>5. ASSUME NEW w \in Ws, SendFails(w) PROVE TypeOK'
    <2>1. who[w] \in Agent
      BY DEF TypeOK
    <2> QED
      BY <1>5, <2>1, UnregisterType DEF TypeOK, SendFails
  <1>6. CASE Broadcast
    BY <1>6 DEF TypeOK, Broadcast
  <1> QED
    BY <1>1, <1>2, <1>3, <1>4, <1>5, <1>6

\* The frames a session receives and the steps it takes keep TypeOK.
LEMMA TypeSession ==
    ASSUME TypeOK,
           NEW w \in Ws,
           \/ FirstFrameRejected(w) \/ Handshake(w) \/ Heartbeat(w)
           \/ SessionStep(w)
    PROVE  TypeOK'
  <1> USE DEF Goto, Point, Transport
  <1>1. CASE FirstFrameRejected(w)
    BY <1>1 DEF TypeOK, FirstFrameRejected
  <1>2. CASE Handshake(w)
    BY <1>2 DEF TypeOK, Handshake, AfterFrame
  <1>3. CASE Heartbeat(w)
    BY <1>3 DEF TypeOK, Heartbeat, AfterFrame, MarkConnected
  <1>4. CASE HandshakeRejected(w)
    BY <1>4 DEF TypeOK, HandshakeRejected
  <1>5. CASE HandshakeAccepted(w)
    BY <1>5 DEF TypeOK, HandshakeAccepted
  <1>6. CASE Register(w)
    BY <1>6 DEF TypeOK, Register, MarkConnected
  <1>7. CASE AckFails(w)
    BY <1>7 DEF TypeOK, AckFails
  <1>8. CASE PreviousClosed(w)
    <2>1. held[w] \in Ws /\ AfterClose(sock[held[w]]) \in Transport
      BY <1>8 DEF TypeOK, PreviousClosed, AfterClose
    <2> QED
      BY <1>8, <2>1 DEF TypeOK, PreviousClosed
  <1>9. CASE HandshakeOnline(w)
    <2>1. CASE Goto(w, "loop") /\ UNCHANGED held
      BY <1>9, <2>1 DEF TypeOK, HandshakeOnline
    <2>2. CASE /\ active[who[w]] # None
               /\ held' = [held EXCEPT ![w] = active[who[w]]]
               /\ Goto(w, "track")
      BY <1>9, <2>2 DEF TypeOK, HandshakeOnline
    <2> QED
      BY <1>9, <2>1, <2>2 DEF HandshakeOnline
  <1>10. CASE TrackingSet(w)
    <2>1. who[w] \in Agent
      BY DEF TypeOK
    <2>2. /\ active' \in [Agent -> Ws \cup {None}]
          /\ conn' \in [Agent -> {"absent", "yes", "no"}]
          /\ silent' \in [Agent -> BOOLEAN]
      BY <1>10, <2>1, UnregisterType DEF TypeOK, TrackingSet
    <2> QED
      BY <1>10, <2>2 DEF TypeOK, TrackingSet
  <1>11. CASE HeartbeatStored(w)
    BY <1>11 DEF TypeOK, HeartbeatStored
  <1>12. CASE HeartbeatMismatch(w)
    BY <1>12 DEF TypeOK, HeartbeatMismatch
  <1>13. CASE Disconnect(w)
    BY <1>13 DEF TypeOK, Disconnect
  <1>14. CASE Cleanup(w)
    <2>1. who[w] \in Agent
      BY DEF TypeOK
    <2>2. /\ active' \in [Agent -> Ws \cup {None}]
          /\ conn' \in [Agent -> {"absent", "yes", "no"}]
          /\ silent' \in [Agent -> BOOLEAN]
      BY <1>14, <2>1, UnregisterType DEF Cleanup
    <2>3. snapEvent' \in BOOLEAN
      BY <1>14 DEF TypeOK, Cleanup, MayUnregister
    <2> QED
      BY <1>14, <2>2, <2>3 DEF TypeOK, Cleanup
  <1> QED
    BY <1>1, <1>2, <1>3, <1>4, <1>5, <1>6, <1>7, <1>8, <1>9, <1>10, <1>11,
       <1>12, <1>13, <1>14 DEF SessionStep

\* The watchdog keeps TypeOK.
LEMMA TypeWatchdog ==
    ASSUME TypeOK, WatchdogScan \/ WatchdogClosed
    PROVE  TypeOK'
  <1>1. CASE WatchdogScan
    BY <1>1 DEF TypeOK, WatchdogScan, NextVictim, TimedOut
  <1>2. CASE WatchdogClosed
    BY <1>2, ZenonT(60) DEF TypeOK, WatchdogClosed, NextVictim, ResetConn, AfterClose,
                          Transport
  <1> QED
    BY <1>1, <1>2

\* Every step keeps TypeOK.
LEMMA TypeStep ==
    TypeOK /\ [Next]_vars => TypeOK'
  <1> SUFFICES ASSUME TypeOK, [Next]_vars PROVE TypeOK'
    OBVIOUS
  <1>1. CASE UNCHANGED vars
    BY <1>1 DEF TypeOK, vars
  <1>2. CASE Next
    BY <1>2, TypeEnvironment, TypeSession, TypeWatchdog DEF Next
  <1> QED
    BY <1>1, <1>2

\* The tables stay well typed, and a session waits on another socket exactly
\* while it closes the one it replaced or sets window tracking.
THEOREM TypeCorrect == Spec => []TypeOK
  <1>1. Init => TypeOK
    <2> SUFFICES ASSUME Init PROVE TypeOK
      OBVIOUS
    <2>1. PICK a \in Agent : who = [w \in Ws |-> a]
      BY DEF Init
    <2> QED
      BY <2>1 DEF Init, TypeOK, Transport, Point
  <1> QED
    BY <1>1, TypeStep, PTL DEF Spec

-----------------------------------------------------------------------------
(* The dispatch table.                                                     *)

\* Every step keeps ActiveIsServed.
LEMMA ActiveIsServedStep ==
    ASSUME TypeOK, ActiveIsServed, [Next]_vars
    PROVE  ActiveIsServed'
  <1> USE NoneAssumption DEF TypeOK, ActiveIsServed, Registered, Named
  <1>1. ASSUME NEW w \in Ws, NEW a \in Agent, Connect(w, a) PROVE ActiveIsServed'
    BY <1>1 DEF Connect, Unreferenced
  <1>2. ASSUME NEW w \in Ws, PeerClose(w) PROVE ActiveIsServed'
    BY <1>2 DEF PeerClose, Transfer
  <1>3. ASSUME NEW w \in Ws, Hang(w) PROVE ActiveIsServed'
    BY <1>3 DEF Hang, Transfer
  <1>4. ASSUME NEW w \in Ws, Resume(w) PROVE ActiveIsServed'
    BY <1>4 DEF Resume, Transfer
  <1>5. ASSUME NEW w \in Ws, Keepalive(w) PROVE ActiveIsServed'
    BY <1>5 DEF Keepalive, Transfer
  <1>6. ASSUME NEW w \in Ws, FirstFrameRejected(w) PROVE ActiveIsServed'
    BY <1>6 DEF FirstFrameRejected, Goto
  <1>7. ASSUME NEW w \in Ws, Handshake(w) PROVE ActiveIsServed'
    BY <1>7 DEF Handshake, Goto, AfterFrame
  <1>8. ASSUME NEW w \in Ws, Heartbeat(w) PROVE ActiveIsServed'
    BY <1>8 DEF Heartbeat, Goto, AfterFrame, MarkConnected
  <1>9. ASSUME NEW w \in Ws, HandshakeRejected(w) PROVE ActiveIsServed'
    BY <1>9 DEF HandshakeRejected, Goto
  <1>10. ASSUME NEW w \in Ws, HandshakeAccepted(w) PROVE ActiveIsServed'
    BY <1>10 DEF HandshakeAccepted, Goto
  <1>11. ASSUME NEW w \in Ws, Register(w) PROVE ActiveIsServed'
    BY <1>11 DEF Register, Goto
  <1>12. ASSUME NEW w \in Ws, AckFails(w) PROVE ActiveIsServed'
    BY <1>12 DEF AckFails, Goto
  <1>13. ASSUME NEW w \in Ws, PreviousClosed(w) PROVE ActiveIsServed'
    BY <1>13 DEF PreviousClosed, Goto, AfterClose
  <1>14. ASSUME NEW w \in Ws, HandshakeOnline(w) PROVE ActiveIsServed'
    BY <1>14 DEF HandshakeOnline, Goto
  <1>15. ASSUME NEW w \in Ws, TrackingSet(w) PROVE ActiveIsServed'
    BY <1>15 DEF TrackingSet, Goto, Unregister, MayUnregister
  <1>16. ASSUME NEW w \in Ws, HeartbeatStored(w) PROVE ActiveIsServed'
    BY <1>16 DEF HeartbeatStored, Goto
  <1>17. ASSUME NEW w \in Ws, HeartbeatMismatch(w) PROVE ActiveIsServed'
    BY <1>17 DEF HeartbeatMismatch, Goto
  <1>18. ASSUME NEW w \in Ws, Disconnect(w) PROVE ActiveIsServed'
    BY <1>18 DEF Disconnect, Goto
  <1>19. ASSUME NEW w \in Ws, Cleanup(w) PROVE ActiveIsServed'
    BY <1>19 DEF Cleanup, Goto, Unregister, MayUnregister
  <1>20. ASSUME NEW w \in Ws, SendDone(w) PROVE ActiveIsServed'
    BY <1>20 DEF SendDone
  <1>21. ASSUME NEW w \in Ws, SendFails(w) PROVE ActiveIsServed'
    BY <1>21 DEF SendFails, Unregister, MayUnregister
  <1>22. ASSUME NEW a \in Agent, Tick(a) PROVE ActiveIsServed'
    BY <1>22 DEF Tick
  <1>23. ASSUME NEW a \in Agent, SendBegin(a) PROVE ActiveIsServed'
    BY <1>23 DEF SendBegin
  <1>24. ASSUME WatchdogScan PROVE ActiveIsServed'
    BY <1>24 DEF WatchdogScan, NextVictim, TimedOut
  <1>25. ASSUME WatchdogClosed PROVE ActiveIsServed'
    BY <1>25 DEF WatchdogClosed, NextVictim, AfterClose
  <1>26. ASSUME Broadcast PROVE ActiveIsServed'
    BY <1>26 DEF Broadcast
  <1>27. CASE UNCHANGED vars
    BY <1>27 DEF vars
  <1> QED
    BY <1>1, <1>2, <1>3, <1>4, <1>5, <1>6, <1>7, <1>8, <1>9, <1>10, <1>11,
       <1>12, <1>13, <1>14, <1>15, <1>16, <1>17, <1>18, <1>19, <1>20, <1>21,
       <1>22, <1>23, <1>24, <1>25, <1>26, <1>27 DEF Next, SessionStep

\* Every step keeps NoOrphanedConnection.
LEMMA NoOrphanStep ==
    ASSUME TypeOK, TypeOK', ActiveIsServed, NoOrphanedConnection, [Next]_vars
    PROVE  NoOrphanedConnection'
  <1> USE NoneAssumption
      DEF TypeOK, ActiveIsServed, NoOrphanedConnection, BeingClosed,
          Registered, Named, Down
  <1>1. ASSUME NEW w \in Ws, NEW a \in Agent, Connect(w, a) PROVE NoOrphanedConnection'
    BY <1>1 DEF Connect, Unreferenced
  <1>2. ASSUME NEW w \in Ws, PeerClose(w) PROVE NoOrphanedConnection'
    BY <1>2 DEF PeerClose, Transfer
  <1>3. ASSUME NEW w \in Ws, Hang(w) PROVE NoOrphanedConnection'
    BY <1>3 DEF Hang, Transfer
  <1>4. ASSUME NEW w \in Ws, Resume(w) PROVE NoOrphanedConnection'
    BY <1>4 DEF Resume, Transfer
  <1>5. ASSUME NEW w \in Ws, Keepalive(w) PROVE NoOrphanedConnection'
    BY <1>5 DEF Keepalive, Transfer
  <1>6. ASSUME NEW w \in Ws, FirstFrameRejected(w) PROVE NoOrphanedConnection'
    BY <1>6 DEF FirstFrameRejected, Goto
  <1>7. ASSUME NEW w \in Ws, Handshake(w) PROVE NoOrphanedConnection'
    BY <1>7 DEF Handshake, Goto, AfterFrame
  <1>8. ASSUME NEW w \in Ws, Heartbeat(w) PROVE NoOrphanedConnection'
    BY <1>8 DEF Heartbeat, Goto, AfterFrame, MarkConnected
  <1>9. ASSUME NEW w \in Ws, HandshakeRejected(w) PROVE NoOrphanedConnection'
    BY <1>9 DEF HandshakeRejected, Goto
  <1>10. ASSUME NEW w \in Ws, HandshakeAccepted(w) PROVE NoOrphanedConnection'
    BY <1>10 DEF HandshakeAccepted, Goto
  <1>11. ASSUME NEW w \in Ws, Register(w) PROVE NoOrphanedConnection'
    BY <1>11 DEF Register, Goto
  <1>12. ASSUME NEW w \in Ws, AckFails(w) PROVE NoOrphanedConnection'
    BY <1>12 DEF AckFails, Goto
  <1>13. ASSUME NEW w \in Ws, PreviousClosed(w) PROVE NoOrphanedConnection'
    BY <1>13 DEF PreviousClosed, Goto, AfterClose
  <1>14. ASSUME NEW w \in Ws, HandshakeOnline(w) PROVE NoOrphanedConnection'
    BY <1>14 DEF HandshakeOnline, Goto
  <1>15. ASSUME NEW w \in Ws, TrackingSet(w) PROVE NoOrphanedConnection'
    BY <1>15 DEF TrackingSet, Goto, Unregister, MayUnregister
  <1>16. ASSUME NEW w \in Ws, HeartbeatStored(w) PROVE NoOrphanedConnection'
    BY <1>16 DEF HeartbeatStored, Goto
  <1>17. ASSUME NEW w \in Ws, HeartbeatMismatch(w) PROVE NoOrphanedConnection'
    BY <1>17 DEF HeartbeatMismatch, Goto
  <1>18. ASSUME NEW w \in Ws, Disconnect(w) PROVE NoOrphanedConnection'
    BY <1>18 DEF Disconnect, Goto
  <1>19. ASSUME NEW w \in Ws, Cleanup(w) PROVE NoOrphanedConnection'
    BY <1>19 DEF Cleanup, Goto, Unregister, MayUnregister
  <1>20. ASSUME NEW w \in Ws, SendDone(w) PROVE NoOrphanedConnection'
    BY <1>20 DEF SendDone
  <1>21. ASSUME NEW w \in Ws, SendFails(w) PROVE NoOrphanedConnection'
    BY <1>21 DEF SendFails, Unregister, MayUnregister
  <1>22. ASSUME NEW a \in Agent, Tick(a) PROVE NoOrphanedConnection'
    BY <1>22 DEF Tick
  <1>23. ASSUME NEW a \in Agent, SendBegin(a) PROVE NoOrphanedConnection'
    BY <1>23 DEF SendBegin
  <1>24. ASSUME WatchdogScan PROVE NoOrphanedConnection'
    BY <1>24 DEF WatchdogScan, NextVictim, TimedOut
  <1>25. ASSUME WatchdogClosed PROVE NoOrphanedConnection'
    BY <1>25 DEF WatchdogClosed, NextVictim, AfterClose
  <1>26. ASSUME Broadcast PROVE NoOrphanedConnection'
    BY <1>26 DEF Broadcast
  <1>27. CASE UNCHANGED vars
    BY <1>27 DEF vars
  <1> QED
    BY <1>1, <1>2, <1>3, <1>4, <1>5, <1>6, <1>7, <1>8, <1>9, <1>10, <1>11,
       <1>12, <1>13, <1>14, <1>15, <1>16, <1>17, <1>18, <1>19, <1>20, <1>21,
       <1>22, <1>23, <1>24, <1>25, <1>26, <1>27 DEF Next, SessionStep

\* The inductive invariant of the dispatch table.
Invariant == TypeOK /\ ActiveIsServed /\ NoOrphanedConnection

\* Invariant holds in every reachable state.
THEOREM InvariantCorrect == Spec => []Invariant
  <1>1. Init => ActiveIsServed /\ NoOrphanedConnection
    BY NoneAssumption
       DEF Init, ActiveIsServed, NoOrphanedConnection, Registered, Named
  <1>2. Invariant /\ TypeOK' /\ [Next]_vars => Invariant'
    BY ActiveIsServedStep, NoOrphanStep DEF Invariant
  <1> QED
    BY <1>1, <1>2, TypeCorrect, PTL DEF Spec, Invariant

\* At any number of agents and connections, the socket an agent's tasks are sent
\* on belongs to a registered session of that agent whose cleanup is to come.
THEOREM ActiveIsServedCorrect == Spec => []ActiveIsServed
  BY InvariantCorrect, PTL DEF Invariant

\* At any number of agents and connections, no registered connection that is up
\* is missing from active_agents unless a coroutine is closing it.
THEOREM NoOrphanedConnectionCorrect == Spec => []NoOrphanedConnection
  BY InvariantCorrect, PTL DEF Invariant

-----------------------------------------------------------------------------
(* The registry and the frontends.                                         *)

\* Every step keeps OnlineHasSession.
LEMMA OnlineHasSessionStep ==
    ASSUME TypeOK, OnlineHasSession, [Next]_vars
    PROVE  OnlineHasSession'
  <1> USE DEF TypeOK, OnlineHasSession, Named
  <1>1. ASSUME NEW w \in Ws, NEW a \in Agent, Connect(w, a) PROVE OnlineHasSession'
    BY <1>1 DEF Connect, Unreferenced
  <1>2. ASSUME NEW w \in Ws,
               PeerClose(w) \/ Hang(w) \/ Resume(w) \/ Keepalive(w)
        PROVE OnlineHasSession'
    BY <1>2 DEF PeerClose, Hang, Resume, Keepalive, Transfer
  <1>3. ASSUME NEW w \in Ws, FirstFrameRejected(w) PROVE OnlineHasSession'
    BY <1>3 DEF FirstFrameRejected, Goto
  <1>4. ASSUME NEW w \in Ws, Handshake(w) PROVE OnlineHasSession'
    BY <1>4 DEF Handshake, Goto
  <1>5. ASSUME NEW w \in Ws, Heartbeat(w) PROVE OnlineHasSession'
    BY <1>5 DEF Heartbeat, Goto, MarkConnected
  <1>6. ASSUME NEW w \in Ws, HandshakeRejected(w) PROVE OnlineHasSession'
    BY <1>6 DEF HandshakeRejected, Goto
  <1>7. ASSUME NEW w \in Ws, HandshakeAccepted(w) PROVE OnlineHasSession'
    BY <1>7 DEF HandshakeAccepted, Goto
  <1>8. ASSUME NEW w \in Ws, Register(w) PROVE OnlineHasSession'
    BY <1>8 DEF Register, Goto, MarkConnected
  <1>9. ASSUME NEW w \in Ws, AckFails(w) PROVE OnlineHasSession'
    BY <1>9 DEF AckFails, Goto
  <1>10. ASSUME NEW w \in Ws, PreviousClosed(w) PROVE OnlineHasSession'
    BY <1>10 DEF PreviousClosed, Goto
  <1>11. ASSUME NEW w \in Ws, HandshakeOnline(w) PROVE OnlineHasSession'
    BY <1>11 DEF HandshakeOnline, Goto
  <1>12. ASSUME NEW w \in Ws, TrackingSet(w) PROVE OnlineHasSession'
    BY <1>12 DEF TrackingSet, Goto, Unregister
  <1>13. ASSUME NEW w \in Ws, HeartbeatStored(w) PROVE OnlineHasSession'
    BY <1>13 DEF HeartbeatStored, Goto
  <1>14. ASSUME NEW w \in Ws, HeartbeatMismatch(w) PROVE OnlineHasSession'
    BY <1>14 DEF HeartbeatMismatch, Goto
  <1>15. ASSUME NEW w \in Ws, Disconnect(w) PROVE OnlineHasSession'
    BY <1>15 DEF Disconnect, Goto
  <1>16. ASSUME NEW w \in Ws, Cleanup(w) PROVE OnlineHasSession'
    BY <1>16 DEF Cleanup, Goto, Unregister
  <1>17. ASSUME NEW w \in Ws, SendDone(w) PROVE OnlineHasSession'
    BY <1>17 DEF SendDone
  <1>18. ASSUME NEW w \in Ws, SendFails(w) PROVE OnlineHasSession'
    BY <1>18 DEF SendFails, Unregister
  <1>19. ASSUME NEW a \in Agent, Tick(a) \/ SendBegin(a) PROVE OnlineHasSession'
    BY <1>19 DEF Tick, SendBegin
  <1>20. ASSUME WatchdogScan PROVE OnlineHasSession'
    BY <1>20 DEF WatchdogScan, NextVictim, TimedOut
  <1>21. ASSUME WatchdogClosed PROVE OnlineHasSession'
    BY <1>21 DEF WatchdogClosed, NextVictim, ResetConn
  <1>22. ASSUME Broadcast PROVE OnlineHasSession'
    BY <1>22 DEF Broadcast
  <1>23. CASE UNCHANGED vars
    BY <1>23 DEF vars
  <1> QED
    BY <1>1, <1>2, <1>3, <1>4, <1>5, <1>6, <1>7, <1>8, <1>9, <1>10,
       <1>11, <1>12, <1>13, <1>14, <1>15, <1>16, <1>17, <1>18,
       <1>19, <1>20, <1>21, <1>22, <1>23
       DEF Next, SessionStep

\* The registry shows an agent online only while a session is left to write
\* offline for it.
THEOREM OnlineHasSessionCorrect == Spec => []OnlineHasSession
  <1>1. Init => OnlineHasSession
    BY DEF Init, OnlineHasSession
  <1>2. TypeOK /\ OnlineHasSession /\ [Next]_vars => OnlineHasSession'
    BY OnlineHasSessionStep
  <1> QED
    BY <1>1, <1>2, TypeCorrect, PTL DEF Spec

\* Every step keeps NoLostSnapshot.
LEMMA NoLostSnapshotStep ==
    ASSUME TypeOK, NoLostSnapshot, [Next]_vars
    PROVE  NoLostSnapshot'
  <1> USE NoneAssumption DEF TypeOK, NoLostSnapshot
  <1>1. ASSUME NEW w \in Ws, NEW a \in Agent, Connect(w, a) PROVE NoLostSnapshot'
    BY <1>1 DEF Connect, Unreferenced
  <1>2. ASSUME NEW w \in Ws,
               PeerClose(w) \/ Hang(w) \/ Resume(w) \/ Keepalive(w)
        PROVE NoLostSnapshot'
    BY <1>2 DEF PeerClose, Hang, Resume, Keepalive, Transfer
  <1>3. ASSUME NEW w \in Ws, FirstFrameRejected(w) PROVE NoLostSnapshot'
    BY <1>3 DEF FirstFrameRejected, Goto
  <1>4. ASSUME NEW w \in Ws, Handshake(w) PROVE NoLostSnapshot'
    BY <1>4 DEF Handshake, Goto
  <1>5. ASSUME NEW w \in Ws, Heartbeat(w) PROVE NoLostSnapshot'
    BY <1>5 DEF Heartbeat, Goto, MarkConnected
  <1>6. ASSUME NEW w \in Ws, HandshakeRejected(w) PROVE NoLostSnapshot'
    BY <1>6 DEF HandshakeRejected, Goto
  <1>7. ASSUME NEW w \in Ws, HandshakeAccepted(w) PROVE NoLostSnapshot'
    BY <1>7 DEF HandshakeAccepted, Goto
  <1>8. ASSUME NEW w \in Ws, Register(w) PROVE NoLostSnapshot'
    BY <1>8 DEF Register, Goto, MarkConnected
  <1>9. ASSUME NEW w \in Ws, AckFails(w) PROVE NoLostSnapshot'
    BY <1>9 DEF AckFails, Goto
  <1>10. ASSUME NEW w \in Ws, PreviousClosed(w) PROVE NoLostSnapshot'
    BY <1>10 DEF PreviousClosed, Goto
  <1>11. ASSUME NEW w \in Ws, HandshakeOnline(w) PROVE NoLostSnapshot'
    BY <1>11 DEF HandshakeOnline, Goto
  <1>12. ASSUME NEW w \in Ws, TrackingSet(w) PROVE NoLostSnapshot'
    BY <1>12 DEF TrackingSet, Goto, Unregister
  <1>13. ASSUME NEW w \in Ws, HeartbeatStored(w) PROVE NoLostSnapshot'
    BY <1>13 DEF HeartbeatStored, Goto
  <1>14. ASSUME NEW w \in Ws, HeartbeatMismatch(w) PROVE NoLostSnapshot'
    BY <1>14 DEF HeartbeatMismatch, Goto
  <1>15. ASSUME NEW w \in Ws, Disconnect(w) PROVE NoLostSnapshot'
    BY <1>15 DEF Disconnect, Goto
  <1>16. ASSUME NEW w \in Ws, Cleanup(w) PROVE NoLostSnapshot'
    BY <1>16 DEF Cleanup, Goto, Unregister
  <1>17. ASSUME NEW w \in Ws, SendDone(w) PROVE NoLostSnapshot'
    BY <1>17 DEF SendDone
  <1>18. ASSUME NEW w \in Ws, SendFails(w) PROVE NoLostSnapshot'
    BY <1>18 DEF SendFails, Unregister
  <1>19. ASSUME NEW a \in Agent, Tick(a) \/ SendBegin(a) PROVE NoLostSnapshot'
    BY <1>19 DEF Tick, SendBegin
  <1>20. ASSUME WatchdogScan PROVE NoLostSnapshot'
    BY <1>20 DEF WatchdogScan, NextVictim, TimedOut
  <1>21. ASSUME WatchdogClosed PROVE NoLostSnapshot'
    BY <1>21 DEF WatchdogClosed, NextVictim, ResetConn
  <1>22. ASSUME Broadcast PROVE NoLostSnapshot'
    BY <1>22 DEF Broadcast
  <1>23. CASE UNCHANGED vars
    BY <1>23 DEF vars
  <1> QED
    BY <1>1, <1>2, <1>3, <1>4, <1>5, <1>6, <1>7, <1>8, <1>9, <1>10,
       <1>11, <1>12, <1>13, <1>14, <1>15, <1>16, <1>17, <1>18,
       <1>19, <1>20, <1>21, <1>22, <1>23
       DEF Next, SessionStep

\* Frontends showing a lost agent as connected are always about to be corrected.
THEOREM NoLostSnapshotCorrect == Spec => []NoLostSnapshot
  <1>1. Init => NoLostSnapshot
    BY DEF Init, NoLostSnapshot
  <1>2. TypeOK /\ NoLostSnapshot /\ [Next]_vars => NoLostSnapshot'
    BY NoLostSnapshotStep
  <1> QED
    BY <1>1, <1>2, TypeCorrect, PTL DEF Spec
-----------------------------------------------------------------------------
(* An agent shown as connected can be reached.                             *)

\* The socket a session closes because it replaced it is one of the same agent,
\* registered before it or over by now (agent_runtime.py register_agent).
ReplacedIsOlder ==
    \A v \in Ws : sess[v] = "closePrev" =>
        who[held[v]] = who[v] /\ sess[held[v]] \in Registered \cup {"none"}

\* Sessions that close the socket they replaced do not wait for each other in a
\* circle: of any sessions, one is not being closed by another of them.
NoCircle ==
    \A S \in SUBSET Ws : S # {} =>
        \E x \in S : \A v \in S : ~(sess[v] = "closePrev" /\ held[v] = x)

\* Every step keeps ReplacedIsOlder.
LEMMA ReplacedIsOlderStep ==
    ASSUME TypeOK, ActiveIsServed, ReplacedIsOlder, [Next]_vars
    PROVE  ReplacedIsOlder'
  <1> USE NoneAssumption DEF TypeOK, ReplacedIsOlder, Registered, Named
  <1>1. ASSUME NEW w \in Ws, NEW a \in Agent, Connect(w, a) PROVE ReplacedIsOlder'
    BY <1>1 DEF Connect, Unreferenced
  <1>2. ASSUME NEW w \in Ws, PeerClose(w) PROVE ReplacedIsOlder'
    BY <1>2 DEF PeerClose, Transfer
  <1>3. ASSUME NEW w \in Ws, Hang(w) PROVE ReplacedIsOlder'
    BY <1>3 DEF Hang, Transfer
  <1>4. ASSUME NEW w \in Ws, Resume(w) PROVE ReplacedIsOlder'
    BY <1>4 DEF Resume, Transfer
  <1>5. ASSUME NEW w \in Ws, Keepalive(w) PROVE ReplacedIsOlder'
    BY <1>5 DEF Keepalive, Transfer
  <1>6. ASSUME NEW w \in Ws, FirstFrameRejected(w) PROVE ReplacedIsOlder'
    BY <1>6 DEF FirstFrameRejected, Goto
  <1>7. ASSUME NEW w \in Ws, Handshake(w) PROVE ReplacedIsOlder'
    BY <1>7 DEF Handshake, Goto
  <1>8. ASSUME NEW w \in Ws, Heartbeat(w) PROVE ReplacedIsOlder'
    BY <1>8 DEF Heartbeat, Goto
  <1>9. ASSUME NEW w \in Ws, HandshakeRejected(w) PROVE ReplacedIsOlder'
    BY <1>9 DEF HandshakeRejected, Goto
  <1>10. ASSUME NEW w \in Ws, HandshakeAccepted(w) PROVE ReplacedIsOlder'
    BY <1>10 DEF HandshakeAccepted, Goto
  <1>11. ASSUME NEW w \in Ws, Register(w) PROVE ReplacedIsOlder'
    BY <1>11 DEF Register, Goto, ActiveIsServed
  <1>12. ASSUME NEW w \in Ws, AckFails(w) PROVE ReplacedIsOlder'
    BY <1>12 DEF AckFails, Goto
  <1>13. ASSUME NEW w \in Ws, PreviousClosed(w) PROVE ReplacedIsOlder'
    BY <1>13 DEF PreviousClosed, Goto
  <1>14. ASSUME NEW w \in Ws, HandshakeOnline(w) PROVE ReplacedIsOlder'
    BY <1>14 DEF HandshakeOnline, Goto
  <1>15. ASSUME NEW w \in Ws, TrackingSet(w) PROVE ReplacedIsOlder'
    BY <1>15 DEF TrackingSet, Goto
  <1>16. ASSUME NEW w \in Ws, HeartbeatStored(w) PROVE ReplacedIsOlder'
    BY <1>16 DEF HeartbeatStored, Goto
  <1>17. ASSUME NEW w \in Ws, HeartbeatMismatch(w) PROVE ReplacedIsOlder'
    BY <1>17 DEF HeartbeatMismatch, Goto
  <1>18. ASSUME NEW w \in Ws, Disconnect(w) PROVE ReplacedIsOlder'
    BY <1>18 DEF Disconnect, Goto
  <1>19. ASSUME NEW w \in Ws, Cleanup(w) PROVE ReplacedIsOlder'
    BY <1>19 DEF Cleanup, Goto
  <1>20. ASSUME NEW w \in Ws, SendDone(w) PROVE ReplacedIsOlder'
    BY <1>20 DEF SendDone
  <1>21. ASSUME NEW w \in Ws, SendFails(w) PROVE ReplacedIsOlder'
    BY <1>21 DEF SendFails
  <1>22. ASSUME NEW a \in Agent, Tick(a) \/ SendBegin(a) PROVE ReplacedIsOlder'
    BY <1>22 DEF Tick, SendBegin
  <1>23. ASSUME WatchdogScan PROVE ReplacedIsOlder'
    BY <1>23 DEF WatchdogScan, NextVictim, TimedOut
  <1>24. ASSUME WatchdogClosed PROVE ReplacedIsOlder'
    BY <1>24 DEF WatchdogClosed, NextVictim, ResetConn
  <1>25. ASSUME Broadcast PROVE ReplacedIsOlder'
    BY <1>25 DEF Broadcast
  <1>26. CASE UNCHANGED vars
    BY <1>26 DEF vars
  <1> QED
    BY <1>1, <1>2, <1>3, <1>4, <1>5, <1>6, <1>7, <1>8, <1>9, <1>10, <1>11,
       <1>12, <1>13, <1>14, <1>15, <1>16, <1>17, <1>18, <1>19, <1>20,
       <1>21, <1>22, <1>23, <1>24, <1>25, <1>26
       DEF Next, SessionStep

\* Only Register makes a session close another, and it keeps at it until it is done.
LEMMA ClosersStay ==
    ASSUME TypeOK, [Next]_vars, NEW v \in Ws, ~Register(v), sess'[v] = "closePrev"
    PROVE  sess[v] = "closePrev" /\ held'[v] = held[v]
  <1> DEFINE Stays == sess[v] = "closePrev" /\ held'[v] = held[v]
  <1> USE DEF TypeOK
  <1>1. ASSUME NEW w \in Ws, NEW a \in Agent, Connect(w, a) PROVE Stays
    BY <1>1 DEF Connect, Unreferenced
  <1>2. ASSUME NEW w \in Ws, PeerClose(w) PROVE Stays
    BY <1>2 DEF PeerClose, Transfer
  <1>3. ASSUME NEW w \in Ws, Hang(w) PROVE Stays
    BY <1>3 DEF Hang, Transfer
  <1>4. ASSUME NEW w \in Ws, Resume(w) PROVE Stays
    BY <1>4 DEF Resume, Transfer
  <1>5. ASSUME NEW w \in Ws, Keepalive(w) PROVE Stays
    BY <1>5 DEF Keepalive, Transfer
  <1>6. ASSUME NEW w \in Ws, FirstFrameRejected(w) PROVE Stays
    BY <1>6 DEF FirstFrameRejected, Goto
  <1>7. ASSUME NEW w \in Ws, Handshake(w) PROVE Stays
    BY <1>7 DEF Handshake, Goto
  <1>8. ASSUME NEW w \in Ws, Heartbeat(w) PROVE Stays
    BY <1>8 DEF Heartbeat, Goto
  <1>9. ASSUME NEW w \in Ws, HandshakeRejected(w) PROVE Stays
    BY <1>9 DEF HandshakeRejected, Goto
  <1>10. ASSUME NEW w \in Ws, HandshakeAccepted(w) PROVE Stays
    BY <1>10 DEF HandshakeAccepted, Goto
  <1>11. ASSUME NEW w \in Ws, Register(w) PROVE Stays
    BY <1>11 DEF Register, Goto
  <1>12. ASSUME NEW w \in Ws, AckFails(w) PROVE Stays
    BY <1>12 DEF AckFails, Goto
  <1>13. ASSUME NEW w \in Ws, PreviousClosed(w) PROVE Stays
    BY <1>13 DEF PreviousClosed, Goto
  <1>14. ASSUME NEW w \in Ws, HandshakeOnline(w) PROVE Stays
    BY <1>14 DEF HandshakeOnline, Goto
  <1>15. ASSUME NEW w \in Ws, TrackingSet(w) PROVE Stays
    BY <1>15 DEF TrackingSet, Goto
  <1>16. ASSUME NEW w \in Ws, HeartbeatStored(w) PROVE Stays
    BY <1>16 DEF HeartbeatStored, Goto
  <1>17. ASSUME NEW w \in Ws, HeartbeatMismatch(w) PROVE Stays
    BY <1>17 DEF HeartbeatMismatch, Goto
  <1>18. ASSUME NEW w \in Ws, Disconnect(w) PROVE Stays
    BY <1>18 DEF Disconnect, Goto
  <1>19. ASSUME NEW w \in Ws, Cleanup(w) PROVE Stays
    BY <1>19 DEF Cleanup, Goto
  <1>20. ASSUME NEW w \in Ws, SendDone(w) PROVE Stays
    BY <1>20 DEF SendDone
  <1>21. ASSUME NEW w \in Ws, SendFails(w) PROVE Stays
    BY <1>21 DEF SendFails
  <1>22. ASSUME NEW a \in Agent, Tick(a) \/ SendBegin(a) PROVE Stays
    BY <1>22 DEF Tick, SendBegin
  <1>23. ASSUME WatchdogScan PROVE Stays
    BY <1>23 DEF WatchdogScan, NextVictim, TimedOut
  <1>24. ASSUME WatchdogClosed PROVE Stays
    BY <1>24 DEF WatchdogClosed, NextVictim, ResetConn
  <1>25. ASSUME Broadcast PROVE Stays
    BY <1>25 DEF Broadcast
  <1>26. CASE UNCHANGED vars
    BY <1>26 DEF vars
  <1> QED
    BY <1>1, <1>2, <1>3, <1>4, <1>5, <1>6, <1>7, <1>8, <1>9, <1>10, <1>11,
       <1>12, <1>13, <1>14, <1>15, <1>16, <1>17, <1>18, <1>19, <1>20,
       <1>21, <1>22, <1>23, <1>24, <1>25, <1>26
       DEF Next, SessionStep

\* No step closes a circle: a session that registers is closed by nobody yet.
LEMMA NoCircleStep ==
    ASSUME TypeOK, ReplacedIsOlder, NoCircle, [Next]_vars
    PROVE  NoCircle'
  <1> SUFFICES ASSUME NEW S \in SUBSET Ws, S # {}
               PROVE  \E x \in S : \A v \in S : ~(sess'[v] = "closePrev" /\ held'[v] = x)
    BY DEF NoCircle
  <1>1. PICK x \in S : \A v \in S : ~(sess[v] = "closePrev" /\ held[v] = x)
    BY DEF NoCircle
  <1>2. CASE \A v \in S : sess'[v] = "closePrev" => sess[v] = "closePrev" /\ held'[v] = held[v]
    BY <1>1, <1>2
  <1>3. ASSUME NEW w \in S, Register(w)
        PROVE  \A v \in S : ~(sess'[v] = "closePrev" /\ held'[v] = w)
    <2>1. active[who[w]] # w \/ sess'[w] # "closePrev"
      BY <1>3 DEF Register, Goto, TypeOK
    <2> QED
      BY <1>3, <2>1 DEF Register, Goto, TypeOK, ReplacedIsOlder, Registered, Named
  <1>4. CASE \A v \in S : ~Register(v)
    <2>1. \A v \in S : sess'[v] = "closePrev" => sess[v] = "closePrev" /\ held'[v] = held[v]
      BY <1>4, ClosersStay
    <2> QED
      BY <1>2, <2>1
  <1> QED
    BY <1>3, <1>4

\* A registered connection that is up and no longer in active_agents is of an agent
\* whose socket the watchdog is closing, or one of whose sessions is closing the
\* socket it replaced and is itself down or the one in active_agents.
LEMMA ReplacedIsClosed ==
    ASSUME TypeOK, NoOrphanedConnection, ReplacedIsOlder, NoCircle,
           NEW w \in Ws, sess[w] \in Registered, sock[w] \in {"open", "hung"},
           active[who[w]] # w
    PROVE  \/ wdSock # None /\ who[wdSock] = who[w]
           \/ \E v \in Ws : /\ who[v] = who[w]
                            /\ sess[v] = "closePrev"
                            /\ sock[v] \in Down \/ active[who[w]] = v
  <1> DEFINE S == {x \in Ws : /\ who[x] = who[w]
                              /\ sess[x] \in Registered
                              /\ sock[x] \in {"open", "hung"}
                              /\ active[who[w]] # x
                              /\ wdSock # x}
  <1>1. CASE wdSock = w
    BY <1>1, NoneAssumption
  <1>2. CASE wdSock # w
    <2>1. w \in S /\ S \in SUBSET Ws
      BY <1>2
    <2>2. PICK x \in S : \A v \in S : ~(sess[v] = "closePrev" /\ held[v] = x)
      BY <2>1 DEF NoCircle
    <2>3. PICK v \in Ws : sess[v] = "closePrev" /\ held[v] = x
      BY <2>2 DEF NoOrphanedConnection, BeingClosed
    <2>4. who[v] = who[w] /\ v \notin S
      BY <2>2, <2>3 DEF ReplacedIsOlder
    <2>5. sock[v] \in {"open", "hung"} \cup Down /\ sess[v] \in Registered
      BY <2>3 DEF TypeOK, Transport, Down, Registered, Named
    <2>6. CASE wdSock = v
      BY <2>4, <2>6, NoneAssumption
    <2>7. CASE wdSock # v
      BY <2>3, <2>4, <2>5, <2>7
    <2> QED
      BY <2>6, <2>7
  <1> QED
    BY <1>1, <1>2

\* Every step keeps ConnectedIsReachable.  Only a heartbeat needs the lemma above: it
\* marks its agent connected whichever socket is in active_agents.
LEMMA ConnectedIsReachableStep ==
    ASSUME Invariant, ReplacedIsOlder, NoCircle, ConnectedIsReachable, [Next]_vars
    PROVE  ConnectedIsReachable'
  <1> USE NoneAssumption DEF Invariant, TypeOK, ConnectedIsReachable, Named, Down
  <1>1. ASSUME NEW w \in Ws, NEW a \in Agent, Connect(w, a) PROVE ConnectedIsReachable'
    BY <1>1 DEF Connect, Unreferenced
  <1>2. ASSUME NEW w \in Ws, PeerClose(w) PROVE ConnectedIsReachable'
    BY <1>2 DEF PeerClose, Transfer
  <1>3. ASSUME NEW w \in Ws, Hang(w) PROVE ConnectedIsReachable'
    BY <1>3 DEF Hang, Transfer
  <1>4. ASSUME NEW w \in Ws, Resume(w) PROVE ConnectedIsReachable'
    BY <1>4 DEF Resume, Transfer
  <1>5. ASSUME NEW w \in Ws, Keepalive(w) PROVE ConnectedIsReachable'
    BY <1>5 DEF Keepalive, Transfer
  <1>6. ASSUME NEW w \in Ws, FirstFrameRejected(w) PROVE ConnectedIsReachable'
    BY <1>6 DEF FirstFrameRejected, Goto
  <1>7. ASSUME NEW w \in Ws, Handshake(w) PROVE ConnectedIsReachable'
    BY <1>7 DEF Handshake, Goto
  <1>8. ASSUME NEW w \in Ws, Heartbeat(w) PROVE ConnectedIsReachable'
    <2>1. CASE sock[w] = "open" /\ active[who[w]] = None
      <3>1. sess[w] \in Registered
        BY <1>8 DEF Heartbeat, Registered
      <3>2. \/ wdSock # None /\ who[wdSock] = who[w]
            \/ \E v \in Ws : who[v] = who[w] /\ sess[v] = "closePrev" /\ sock[v] \in Down
        BY <2>1, <3>1, ReplacedIsClosed
      <3> QED
        BY <1>8, <2>1, <3>2 DEF Heartbeat, Goto, AfterFrame, MarkConnected
    <2>2. CASE sock[w] # "open" \/ active[who[w]] # None
      BY <1>8, <2>2 DEF Heartbeat, Goto, AfterFrame, MarkConnected
    <2> QED
      BY <2>1, <2>2
  <1>9. ASSUME NEW w \in Ws, HandshakeRejected(w) PROVE ConnectedIsReachable'
    BY <1>9 DEF HandshakeRejected, Goto
  <1>10. ASSUME NEW w \in Ws, HandshakeAccepted(w) PROVE ConnectedIsReachable'
    BY <1>10 DEF HandshakeAccepted, Goto
  <1>11. ASSUME NEW w \in Ws, Register(w) PROVE ConnectedIsReachable'
    BY <1>11 DEF Register, Goto, MarkConnected
  <1>12. ASSUME NEW w \in Ws, AckFails(w) PROVE ConnectedIsReachable'
    BY <1>12 DEF AckFails, Goto
  <1>13. ASSUME NEW w \in Ws, PreviousClosed(w) PROVE ConnectedIsReachable'
    BY <1>13 DEF PreviousClosed, Goto, AfterClose
  <1>14. ASSUME NEW w \in Ws, HandshakeOnline(w) PROVE ConnectedIsReachable'
    BY <1>14 DEF HandshakeOnline, Goto
  <1>15. ASSUME NEW w \in Ws, TrackingSet(w) PROVE ConnectedIsReachable'
    BY <1>15 DEF TrackingSet, Goto, Unregister, MayUnregister, ResetConn
  <1>16. ASSUME NEW w \in Ws, HeartbeatStored(w) PROVE ConnectedIsReachable'
    BY <1>16 DEF HeartbeatStored, Goto
  <1>17. ASSUME NEW w \in Ws, HeartbeatMismatch(w) PROVE ConnectedIsReachable'
    BY <1>17 DEF HeartbeatMismatch, Goto
  <1>18. ASSUME NEW w \in Ws, Disconnect(w) PROVE ConnectedIsReachable'
    BY <1>18 DEF Disconnect, Goto
  <1>19. ASSUME NEW w \in Ws, Cleanup(w) PROVE ConnectedIsReachable'
    BY <1>19 DEF Cleanup, Goto, Unregister, MayUnregister, ResetConn
  <1>20. ASSUME NEW w \in Ws, SendDone(w) PROVE ConnectedIsReachable'
    BY <1>20 DEF SendDone
  <1>21. ASSUME NEW w \in Ws, SendFails(w) PROVE ConnectedIsReachable'
    BY <1>21 DEF SendFails, Unregister, MayUnregister, ResetConn
  <1>22. ASSUME NEW a \in Agent, Tick(a) \/ SendBegin(a) PROVE ConnectedIsReachable'
    BY <1>22 DEF Tick, SendBegin
  <1>23. ASSUME WatchdogScan PROVE ConnectedIsReachable'
    BY <1>23 DEF WatchdogScan, NextVictim, TimedOut, ActiveIsServed
  <1>24. ASSUME WatchdogClosed PROVE ConnectedIsReachable'
    BY <1>24 DEF WatchdogClosed, NextVictim, ResetConn, AfterClose, ActiveIsServed
  <1>25. ASSUME Broadcast PROVE ConnectedIsReachable'
    BY <1>25 DEF Broadcast
  <1>26. CASE UNCHANGED vars
    BY <1>26 DEF vars
  <1> QED
    BY <1>1, <1>2, <1>3, <1>4, <1>5, <1>6, <1>7, <1>8, <1>9, <1>10, <1>11,
       <1>12, <1>13, <1>14, <1>15, <1>16, <1>17, <1>18, <1>19, <1>20,
       <1>21, <1>22, <1>23, <1>24, <1>25, <1>26
       DEF Next, SessionStep

\* At any number of agents and connections, an agent shown as connected that has no
\* socket in active_agents is about to be reset, by the watchdog or by the cleanup of
\* a session whose transport is down.
THEOREM ConnectedIsReachableCorrect == Spec => []ConnectedIsReachable
  <1> DEFINE Reachable == ReplacedIsOlder /\ NoCircle /\ ConnectedIsReachable
  <1>1. Init => Reachable
    BY DEF Init, ReplacedIsOlder, NoCircle, ConnectedIsReachable
  <1>2. Invariant /\ Reachable /\ [Next]_vars => Reachable'
    BY ReplacedIsOlderStep, NoCircleStep, ConnectedIsReachableStep DEF Invariant
  <1> QED
    BY <1>1, <1>2, InvariantCorrect, PTL DEF Spec
=============================================================================
