------------------------ MODULE ControlChannelProofs ------------------------
(***************************************************************************)
(* ControlChannel for any sets of nodes, networks, tokens and connections:  *)
(* types, the liveness of hub entries, and what the last close leaves.      *)
(***************************************************************************)
EXTENDS ControlChannel, TLAPS

\* A handshake in progress uses a token that was issued.
HelloGranted ==
    \A c \in Conns : conn[c].hello # Nil =>
        grant[conn[c].hello] # Nil /\ conn[c].stage \in {"open", "done"}

\* Every online status has a goroutine that will write "offline".
StatusOwed ==
    \A n \in Nodes \ untidy : status[n] = "online" =>
        \E c \in Conns : IsNode(c, n) /\ conn[c].stage \notin {"free", "done"}

\* All stored endpoints have a goroutine that will delete them.
EndpointsOwed ==
    \A n \in Nodes \ untidy, g \in Networks : <<n, g>> \in endpoints =>
        \E c \in Conns : /\ conn[c].node = n /\ conn[c].net = g
                         /\ conn[c].stage \in {"open", "ended", "unregistered"}

\* The tables, the hub and the goroutines keep their types.
THEOREM TypeCorrect == Spec => [](TypeOK /\ HelloGranted)
  <1>1. Init => TypeOK /\ HelloGranted
    BY DEF Init, TypeOK, HelloGranted, RowStates, Session, Stages
  <1>2. TypeOK /\ HelloGranted /\ [Next]_vars => TypeOK'
    <2> SUFFICES ASSUME TypeOK, HelloGranted, [Next]_vars
                 PROVE  TypeOK'
      OBVIOUS
    <2> USE DEF TypeOK, RowStates, Stages
    <2>1. ASSUME NEW t \in Tokens, NEW n \in Nodes, NEW g \in Networks,
                 Bootstrap(t, n, g)
          PROVE  TypeOK'
      BY <2>1 DEF Bootstrap, Grant
    <2>2. ASSUME NEW t \in Tokens, StoreSession(t)
          PROVE  TypeOK'
      BY <2>2 DEF StoreSession
    <2>3. ASSUME NEW t \in Tokens, GoesStale(t)
          PROVE  TypeOK'
      BY <2>3 DEF GoesStale
    <2>4. ASSUME NEW n \in Nodes, RegisterDevice(n)
          PROVE  TypeOK'
      BY <2>4 DEF RegisterDevice
    <2>5. ASSUME NEW n \in Nodes, NEW g \in Networks, SwitchNetwork(n, g)
          PROVE  TypeOK'
      BY <2>5 DEF SwitchNetwork
    <2>6. ASSUME NEW c \in Conns, Open(c)
          PROVE  TypeOK'
      BY <2>6 DEF Open, Session
    <2>7. ASSUME NEW c \in Conns, NEW t \in Tokens, Hello(c, t)
          PROVE  TypeOK'
      BY <2>7 DEF Hello, Session, Stored, Grant
    <2>8. ASSUME NEW c \in Conns, Register(c)
          PROVE  TypeOK'
      <3>1. grant[conn[c].hello] \in Grant
        BY <2>8 DEF Register, HelloGranted, Session
      <3>2. QED BY <2>8, <3>1 DEF Register, Session, HubEntry, Grant
    <2>9. ASSUME NEW c \in Conns, Heartbeat(c)
          PROVE  TypeOK'
      BY <2>9 DEF Heartbeat, Touched
    <2>10. ASSUME NEW c \in Conns, NEW g \in Networks, MapRequest(c, g)
          PROVE  TypeOK'
      BY <2>10 DEF MapRequest, Touched, Session, Serving
    <2>11. ASSUME NEW c \in Conns, NEW n \in Nodes, NEW g \in Networks, NEW some \in BOOLEAN,
                 Report(c, n, g, some)
          PROVE  TypeOK'
      BY <2>11 DEF Report, Touched, Serving
    <2>12. ASSUME NEW c \in Conns, NEW g \in Networks, Notice(c, g)
          PROVE  TypeOK'
      BY <2>12 DEF Notice, Touched, Session, Serving
    <2>13. ASSUME NEW c \in Conns, Ends(c)
          PROVE  TypeOK'
      BY <2>13 DEF Ends, Session
    <2>14. ASSUME NEW c \in Conns, Unregister(c)
          PROVE  TypeOK'
      BY <2>14 DEF Unregister, Session
    <2>15. ASSUME NEW c \in Conns, Clear(c)
          PROVE  TypeOK'
      BY <2>15 DEF Clear, Session
    <2>16. ASSUME NEW c \in Conns, MarkOffline(c)
          PROVE  TypeOK'
      BY <2>16 DEF MarkOffline, Session
    <2>17. ASSUME NEW c \in Conns, CloseFails(c)
          PROVE  TypeOK'
      BY <2>17 DEF CloseFails, Session
    <2>18. CASE Cleanup
      BY <2>18 DEF Cleanup
    <2>19. CASE Crash
      BY <2>19 DEF Crash, Session
    <2>20. CASE UNCHANGED vars
      BY <2>20 DEF vars
    <2> HIDE DEF TypeOK, RowStates, Stages
    <2>21. QED
      BY <2>1, <2>2, <2>3, <2>4, <2>5, <2>6, <2>7, <2>8, <2>9, <2>10,
         <2>11, <2>12, <2>13, <2>14, <2>15, <2>16, <2>17, <2>18, <2>19, <2>20 DEF Next, Close
  <1>3. TypeOK /\ HelloGranted /\ [Next]_vars => HelloGranted'
    <2> SUFFICES ASSUME TypeOK, HelloGranted, [Next]_vars
                 PROVE  HelloGranted'
      OBVIOUS
    <2> USE NilAssumption, NilRecordAssumption DEF TypeOK, HelloGranted, Session
    <2>1. ASSUME NEW t \in Tokens, NEW n \in Nodes, NEW g \in Networks,
                 Bootstrap(t, n, g)
          PROVE  HelloGranted'
      BY <2>1 DEF Bootstrap, Grant
    <2>2. ASSUME NEW t \in Tokens, StoreSession(t)
          PROVE  HelloGranted'
      BY <2>2 DEF StoreSession
    <2>3. ASSUME NEW t \in Tokens, GoesStale(t)
          PROVE  HelloGranted'
      BY <2>3 DEF GoesStale
    <2>4. ASSUME NEW n \in Nodes, RegisterDevice(n)
          PROVE  HelloGranted'
      BY <2>4 DEF RegisterDevice
    <2>5. ASSUME NEW n \in Nodes, NEW g \in Networks, SwitchNetwork(n, g)
          PROVE  HelloGranted'
      BY <2>5 DEF SwitchNetwork
    <2>6. ASSUME NEW c \in Conns, Open(c)
          PROVE  HelloGranted'
      BY <2>6 DEF Open
    <2>7. ASSUME NEW c \in Conns, NEW t \in Tokens, Hello(c, t)
          PROVE  HelloGranted'
      BY <2>7 DEF Hello, Stored
    <2>8. ASSUME NEW c \in Conns, Register(c)
          PROVE  HelloGranted'
      BY <2>8 DEF Register
    <2>9. ASSUME NEW c \in Conns, Heartbeat(c)
          PROVE  HelloGranted'
      BY <2>9 DEF Heartbeat
    <2>10. ASSUME NEW c \in Conns, NEW g \in Networks, MapRequest(c, g)
          PROVE  HelloGranted'
      BY <2>10 DEF MapRequest
    <2>11. ASSUME NEW c \in Conns, NEW n \in Nodes, NEW g \in Networks, NEW some \in BOOLEAN,
                 Report(c, n, g, some)
          PROVE  HelloGranted'
      BY <2>11 DEF Report
    <2>12. ASSUME NEW c \in Conns, NEW g \in Networks, Notice(c, g)
          PROVE  HelloGranted'
      BY <2>12 DEF Notice
    <2>13. ASSUME NEW c \in Conns, Ends(c)
          PROVE  HelloGranted'
      BY <2>13 DEF Ends
    <2>14. ASSUME NEW c \in Conns, Unregister(c)
          PROVE  HelloGranted'
      BY <2>14 DEF Unregister
    <2>15. ASSUME NEW c \in Conns, Clear(c)
          PROVE  HelloGranted'
      BY <2>15 DEF Clear
    <2>16. ASSUME NEW c \in Conns, MarkOffline(c)
          PROVE  HelloGranted'
      BY <2>16 DEF MarkOffline
    <2>17. ASSUME NEW c \in Conns, CloseFails(c)
          PROVE  HelloGranted'
      BY <2>17 DEF CloseFails
    <2>18. CASE Cleanup
      BY <2>18 DEF Cleanup
    <2>19. CASE Crash
      BY <2>19 DEF Crash
    <2>20. CASE UNCHANGED vars
      BY <2>20 DEF vars
    <2> HIDE DEF TypeOK, HelloGranted, Session
    <2>21. QED
      BY <2>1, <2>2, <2>3, <2>4, <2>5, <2>6, <2>7, <2>8, <2>9, <2>10,
         <2>11, <2>12, <2>13, <2>14, <2>15, <2>16, <2>17, <2>18, <2>19, <2>20 DEF Next, Close
  <1>4. QED
    BY <1>1, <1>2, <1>3, PTL DEF Spec

\* An entry of the hub belongs to a goroutine that has not unregistered yet,
\* or to one that has greeted as another node since.
THEOREM HubEntriesLive == Spec => []HubEntryIsLive
  <1>1. Init => HubEntryIsLive
    BY DEF Init, HubEntryIsLive
  <1>2. TypeOK /\ HelloGranted /\ HubEntryIsLive /\ [Next]_vars => HubEntryIsLive'
    <2> SUFFICES ASSUME TypeOK, HelloGranted, HubEntryIsLive, [Next]_vars
                 PROVE  HubEntryIsLive'
      OBVIOUS
    <2> USE NilAssumption, NilRecordAssumption
        DEF TypeOK, HelloGranted, HubEntryIsLive, Session, HubEntry
    <2>1. ASSUME NEW t \in Tokens, NEW n \in Nodes, NEW g \in Networks,
                 Bootstrap(t, n, g)
          PROVE  HubEntryIsLive'
      BY <2>1 DEF Bootstrap
    <2>2. ASSUME NEW t \in Tokens, StoreSession(t)
          PROVE  HubEntryIsLive'
      BY <2>2 DEF StoreSession
    <2>3. ASSUME NEW t \in Tokens, GoesStale(t)
          PROVE  HubEntryIsLive'
      BY <2>3 DEF GoesStale
    <2>4. ASSUME NEW n \in Nodes, RegisterDevice(n)
          PROVE  HubEntryIsLive'
      BY <2>4 DEF RegisterDevice
    <2>5. ASSUME NEW n \in Nodes, NEW g \in Networks, SwitchNetwork(n, g)
          PROVE  HubEntryIsLive'
      BY <2>5 DEF SwitchNetwork
    <2>6. ASSUME NEW c \in Conns, Open(c)
          PROVE  HubEntryIsLive'
      BY <2>6 DEF Open
    <2>7. ASSUME NEW c \in Conns, NEW t \in Tokens, Hello(c, t)
          PROVE  HubEntryIsLive'
      BY <2>7 DEF Hello
    <2>8. ASSUME NEW c \in Conns, Register(c)
          PROVE  HubEntryIsLive'
      BY <2>8 DEF Register, Grant
    <2>9. ASSUME NEW c \in Conns, Heartbeat(c)
          PROVE  HubEntryIsLive'
      BY <2>9 DEF Heartbeat
    <2>10. ASSUME NEW c \in Conns, NEW g \in Networks, MapRequest(c, g)
          PROVE  HubEntryIsLive'
      BY <2>10 DEF MapRequest, Serving
    <2>11. ASSUME NEW c \in Conns, NEW n \in Nodes, NEW g \in Networks, NEW some \in BOOLEAN,
                 Report(c, n, g, some)
          PROVE  HubEntryIsLive'
      BY <2>11 DEF Report
    <2>12. ASSUME NEW c \in Conns, NEW g \in Networks, Notice(c, g)
          PROVE  HubEntryIsLive'
      BY <2>12 DEF Notice
    <2>13. ASSUME NEW c \in Conns, Ends(c)
          PROVE  HubEntryIsLive'
      BY <2>13 DEF Ends
    <2>14. ASSUME NEW c \in Conns, Unregister(c)
          PROVE  HubEntryIsLive'
      BY <2>14 DEF Unregister
    <2>15. ASSUME NEW c \in Conns, Clear(c)
          PROVE  HubEntryIsLive'
      BY <2>15 DEF Clear
    <2>16. ASSUME NEW c \in Conns, MarkOffline(c)
          PROVE  HubEntryIsLive'
      BY <2>16 DEF MarkOffline
    <2>17. ASSUME NEW c \in Conns, CloseFails(c)
          PROVE  HubEntryIsLive'
      BY <2>17 DEF CloseFails
    <2>18. CASE Cleanup
      BY <2>18 DEF Cleanup
    <2>19. CASE Crash
      BY <2>19 DEF Crash
    <2>20. CASE UNCHANGED vars
      BY <2>20 DEF vars
    <2> HIDE DEF TypeOK, HelloGranted, HubEntryIsLive, Session, HubEntry
    <2>21. QED
      BY <2>1, <2>2, <2>3, <2>4, <2>5, <2>6, <2>7, <2>8, <2>9, <2>10,
         <2>11, <2>12, <2>13, <2>14, <2>15, <2>16, <2>17, <2>18, <2>19, <2>20 DEF Next, Close
  <1>3. QED
    BY <1>1, <1>2, TypeCorrect, PTL DEF Spec

\* Greeting, reporting and closing goroutines keep StatusOwed.
LEMMA StatusStaysOwed ==
  TypeOK /\ HelloGranted /\ StatusOwed /\ [Next]_vars => StatusOwed'
  <1> SUFFICES ASSUME TypeOK, HelloGranted, StatusOwed, [Next]_vars
               PROVE  StatusOwed'
    OBVIOUS
  <1> USE NilAssumption, NilRecordAssumption
      DEF TypeOK, HelloGranted, StatusOwed, IsNode, Session
  <1>1. ASSUME NEW t \in Tokens, NEW n \in Nodes, NEW g \in Networks,
               Bootstrap(t, n, g)
        PROVE  StatusOwed'
    BY <1>1 DEF Bootstrap, Grant
  <1>2. ASSUME NEW t \in Tokens, StoreSession(t)
        PROVE  StatusOwed'
    BY <1>2 DEF StoreSession
  <1>3. ASSUME NEW t \in Tokens, GoesStale(t)
        PROVE  StatusOwed'
    BY <1>3 DEF GoesStale
  <1>4. ASSUME NEW n \in Nodes, RegisterDevice(n)
        PROVE  StatusOwed'
    BY <1>4 DEF RegisterDevice
  <1>5. ASSUME NEW n \in Nodes, NEW g \in Networks, SwitchNetwork(n, g)
        PROVE  StatusOwed'
    BY <1>5 DEF SwitchNetwork
  <1>6. ASSUME NEW c \in Conns, Open(c)
        PROVE  StatusOwed'
    BY <1>6 DEF Open
  <1>7. ASSUME NEW c \in Conns, NEW t \in Tokens, Hello(c, t)
        PROVE  StatusOwed'
    BY <1>7 DEF Hello, Stored, Grant
  <1>8. ASSUME NEW c \in Conns, Register(c)
        PROVE  StatusOwed'
    BY <1>8 DEF Register, Grant
  <1>9. ASSUME NEW c \in Conns, Heartbeat(c)
        PROVE  StatusOwed'
    BY <1>9 DEF Heartbeat
  <1>10. ASSUME NEW c \in Conns, NEW g \in Networks, MapRequest(c, g)
        PROVE  StatusOwed'
    BY <1>10 DEF MapRequest, Serving
  <1>11. ASSUME NEW c \in Conns, NEW n \in Nodes, NEW g \in Networks, NEW some \in BOOLEAN,
               Report(c, n, g, some)
        PROVE  StatusOwed'
    BY <1>11 DEF Report, Serving
  <1>12. ASSUME NEW c \in Conns, NEW g \in Networks, Notice(c, g)
        PROVE  StatusOwed'
    BY <1>12 DEF Notice, Serving
  <1>13. ASSUME NEW c \in Conns, Ends(c)
        PROVE  StatusOwed'
    BY <1>13 DEF Ends
  <1>14. ASSUME NEW c \in Conns, Unregister(c)
        PROVE  StatusOwed'
    BY <1>14 DEF Unregister
  <1>15. ASSUME NEW c \in Conns, Clear(c)
        PROVE  StatusOwed'
    BY <1>15 DEF Clear
  <1>16. ASSUME NEW c \in Conns, MarkOffline(c)
        PROVE  StatusOwed'
    BY <1>16 DEF MarkOffline
  <1>17. ASSUME NEW c \in Conns, CloseFails(c)
        PROVE  StatusOwed'
    BY <1>17 DEF CloseFails
  <1>18. CASE Cleanup
    BY <1>18 DEF Cleanup
  <1>19. CASE Crash
    BY <1>19 DEF Crash
  <1>20. CASE UNCHANGED vars
    BY <1>20 DEF vars
  <1> HIDE DEF TypeOK, HelloGranted, StatusOwed, IsNode, Session
  <1>21. QED
    BY <1>1, <1>2, <1>3, <1>4, <1>5, <1>6, <1>7, <1>8, <1>9, <1>10,
       <1>11, <1>12, <1>13, <1>14, <1>15, <1>16, <1>17, <1>18, <1>19, <1>20 DEF Next, Close

\* Reporting, moving and closing goroutines keep EndpointsOwed.
LEMMA EndpointsStayOwed ==
  TypeOK /\ HelloGranted /\ EndpointsOwed /\ [Next]_vars => EndpointsOwed'
  <1> SUFFICES ASSUME TypeOK, HelloGranted, EndpointsOwed, [Next]_vars
               PROVE  EndpointsOwed'
    OBVIOUS
  <1> USE NilAssumption, NilRecordAssumption
      DEF TypeOK, HelloGranted, EndpointsOwed, Session
  <1>1. ASSUME NEW t \in Tokens, NEW n \in Nodes, NEW g \in Networks,
               Bootstrap(t, n, g)
        PROVE  EndpointsOwed'
    BY <1>1 DEF Bootstrap
  <1>2. ASSUME NEW t \in Tokens, StoreSession(t)
        PROVE  EndpointsOwed'
    BY <1>2 DEF StoreSession
  <1>3. ASSUME NEW t \in Tokens, GoesStale(t)
        PROVE  EndpointsOwed'
    BY <1>3 DEF GoesStale
  <1>4. ASSUME NEW n \in Nodes, RegisterDevice(n)
        PROVE  EndpointsOwed'
    BY <1>4 DEF RegisterDevice
  <1>5. ASSUME NEW n \in Nodes, NEW g \in Networks, SwitchNetwork(n, g)
        PROVE  EndpointsOwed'
    BY <1>5 DEF SwitchNetwork
  <1>6. ASSUME NEW c \in Conns, Open(c)
        PROVE  EndpointsOwed'
    BY <1>6 DEF Open
  <1>7. ASSUME NEW c \in Conns, NEW t \in Tokens, Hello(c, t)
        PROVE  EndpointsOwed'
    BY <1>7 DEF Hello
  <1>8. ASSUME NEW c \in Conns, Register(c)
        PROVE  EndpointsOwed'
    BY <1>8 DEF Register, Grant
  <1>9. ASSUME NEW c \in Conns, Heartbeat(c)
        PROVE  EndpointsOwed'
    BY <1>9 DEF Heartbeat
  <1>10. ASSUME NEW c \in Conns, NEW g \in Networks, MapRequest(c, g)
        PROVE  EndpointsOwed'
    BY <1>10 DEF MapRequest, Serving
  <1>11. ASSUME NEW c \in Conns, NEW n \in Nodes, NEW g \in Networks, NEW some \in BOOLEAN,
               Report(c, n, g, some)
        PROVE  EndpointsOwed'
    BY <1>11 DEF Report, Serving
  <1>12. ASSUME NEW c \in Conns, NEW g \in Networks, Notice(c, g)
        PROVE  EndpointsOwed'
    BY <1>12 DEF Notice
  <1>13. ASSUME NEW c \in Conns, Ends(c)
        PROVE  EndpointsOwed'
    BY <1>13 DEF Ends
  <1>14. ASSUME NEW c \in Conns, Unregister(c)
        PROVE  EndpointsOwed'
    BY <1>14 DEF Unregister
  <1>15. ASSUME NEW c \in Conns, Clear(c)
        PROVE  EndpointsOwed'
    BY <1>15 DEF Clear
  <1>16. ASSUME NEW c \in Conns, MarkOffline(c)
        PROVE  EndpointsOwed'
    BY <1>16 DEF MarkOffline
  <1>17. ASSUME NEW c \in Conns, CloseFails(c)
        PROVE  EndpointsOwed'
    BY <1>17 DEF CloseFails
  <1>18. CASE Cleanup
    BY <1>18 DEF Cleanup
  <1>19. CASE Crash
    BY <1>19 DEF Crash
  <1>20. CASE UNCHANGED vars
    BY <1>20 DEF vars
  <1> HIDE DEF TypeOK, HelloGranted, EndpointsOwed, Session
  <1>21. QED
    BY <1>1, <1>2, <1>3, <1>4, <1>5, <1>6, <1>7, <1>8, <1>9, <1>10,
       <1>11, <1>12, <1>13, <1>14, <1>15, <1>16, <1>17, <1>18, <1>19, <1>20 DEF Next, Close

\* The last goroutine of a node leaves it offline, out of the hub and without
\* endpoints, in any interleaving of greetings and closings.
THEOREM NothingIsLeft == Spec => []LastCloseClears
  <1>1. Init => StatusOwed /\ EndpointsOwed
    BY DEF Init, StatusOwed, EndpointsOwed
  <1>2. TypeOK /\ HubEntryIsLive /\ StatusOwed /\ EndpointsOwed => LastCloseClears
    <2> SUFFICES ASSUME TypeOK, HubEntryIsLive, StatusOwed, EndpointsOwed,
                        NEW n \in Nodes \ untidy,
                        \A c \in Conns : IsNode(c, n) => conn[c].stage \in {"free", "done"}
                 PROVE  /\ status[n] = "offline"
                        /\ hub[n] = Nil
                        /\ \A g \in Networks : <<n, g>> \notin endpoints
      BY DEF LastCloseClears
    <2>1. status[n] = "offline"
      BY DEF StatusOwed, TypeOK
    <2>2. hub[n] = Nil
      BY DEF HubEntryIsLive, IsNode, TypeOK, HubEntry
    <2>3. \A g \in Networks : <<n, g>> \notin endpoints
      BY DEF EndpointsOwed, IsNode
    <2>4. QED BY <2>1, <2>2, <2>3
  <1>3. QED
    BY <1>1, <1>2, TypeCorrect, HubEntriesLive, StatusStaysOwed, EndpointsStayOwed, PTL DEF Spec
=============================================================================
