------------------------- MODULE ClientPathsProofs -------------------------
(***************************************************************************)
(* Theorems about ClientPaths for any sets of peers, DERP nodes, clusters   *)
(* and packet lengths, and any bounds.                                      *)
(***************************************************************************)
EXTENDS ClientPaths, TLAPS

\* The paths of the path manager are paths.
LEMMA PathTypes ==
    /\ NoPath \in Path
    /\ \A p \in Peers : P2P(p) \in Path /\ Relay(p) \in Path
    /\ \A n \in Nodes : Derp(n) \in Path
  BY DEF NoPath, P2P, Relay, Derp, Path

\* on_p2p_failed names a path.
LEMMA FallbackType ==
    ASSUME NEW p \in Peers, NEW pl, pl.active \in Nodes \cup {Nil}
    PROVE  FallbackPath(p, pl) \in Path
  BY PathTypes DEF FallbackPath

\* warm_up and install_cluster keep a link for every node.
LEMMA LinkTypes ==
    ASSUME NEW c, NEW p \in Peers, NEW k, NEW all
    PROVE  /\ NoLink \in Link
           /\ Installed(p, c) \in [Nodes -> Link]
           /\ Warmed(Installed(p, c), p, c, k, all) \in [Nodes -> Link]
  <1>1. /\ NoLink \in Link
        /\ Opening \in Link
        /\ Closed \in Link
        /\ Attached(p) \in Link
    BY DEF NoLink, Opening, Closed, Attached, Link
  <1>2. Installed(p, c) \in [Nodes -> Link]
    BY <1>1 DEF Installed
  <1>3. Warmed(Installed(p, c), p, c, k, all) \in [Nodes -> Link]
    BY <1>1, <1>2 DEF Warmed
  <1>4. QED
    BY <1>1, <1>2, <1>3

\* A process that starts has its types.
LEMMA StartTypes ==
    /\ NoPool \in [ticket : Peers \cup {Nil}, active : Nodes \cup {Nil}, links : [Nodes -> Link]]
    /\ NoSnap \in [state : {"none", "connected", "disconnected"}, path : Path, probe : Path]
  BY PathTypes DEF NoPool, NoSnap, NoLink, Link

\* A connect that goes on has a peer.
CallHasPeer == call.at \in {"fallback", "finalize"} => call.peer \in Peers

\* The steps of a connect keep the types.
LEMMA ConnectsType ==
    ASSUME TypeOK, CallHasPeer, Connects
    PROVE  TypeOK' /\ CallHasPeer'
  <1> USE DEF TypeOK, CallHasPeer, At, Goto, Idle, data, Begins, ConnectFails
  <1>1. ASSUME NEW p \in Peers, ConnectDirect(p) PROVE TypeOK' /\ CallHasPeer'
    <2>1. call' = [at |-> "finalize", peer |-> p, size |-> 0, id |-> 0]
      BY <1>1 DEF ConnectDirect
    <2>2. QED
      BY <1>1, <2>1, PathTypes DEF ConnectDirect
  <1>2. ASSUME NEW p \in Peers, NEW t \in BOOLEAN, NEW a \in BOOLEAN, ConnectFallsBack(p, t, a)
        PROVE  TypeOK' /\ CallHasPeer'
    <2>1. call' \in {[at |-> "fallback", peer |-> p, size |-> 0, id |-> 0], Idle}
      BY <1>2 DEF ConnectFallsBack, ConnectFails
    <2>2. path' \in Path
      BY <1>2, FallbackType DEF ConnectFallsBack
    <2>3. goal' = Nil /\ connects' \in Nat
      BY <1>2 DEF ConnectFallsBack, ConnectFails
    <2>4. QED
      BY <1>2, <2>1, <2>2, <2>3 DEF ConnectFallsBack
  <1>3. ASSUME NEW c \in Clusters, UseDerp(c) PROVE TypeOK' /\ CallHasPeer'
    <2> DEFINE links == Warmed(Installed(call.peer, c), call.peer, c, WarmCount(c), TRUE)
    <2>1. PICK n \in Best(links) :
             /\ pool' = [ticket |-> call.peer, active |-> n, links |-> links]
             /\ path' = FallbackPath(call.peer, pool')
      BY <1>3 DEF UseDerp, Switched
    <2>2. call.peer \in Peers /\ n \in Nodes /\ links \in [Nodes -> Link]
      BY <1>3, <2>1, LinkTypes DEF UseDerp, Best
    <2>3. path' \in Path
      BY <2>1, <2>2, FallbackType
    <2>4. QED
      BY <1>3, <2>1, <2>2, <2>3 DEF UseDerp
  <1>4. ASSUME NEW c \in Clusters, DerpFails(c) PROVE TypeOK' /\ CallHasPeer'
    <2>1. call.peer \in Peers
      BY <1>4 DEF DerpFails
    <2>2. PICK k \in 0..(WarmCount(c) - 1) :
             pool' = [ticket |-> call.peer, active |-> Nil,
                      links |-> Warmed(Installed(call.peer, c), call.peer, c, k, FALSE)]
      BY <1>4 DEF DerpFails
    <2>3. pool' \in [ticket : Peers \cup {Nil}, active : Nodes \cup {Nil}, links : [Nodes -> Link]]
      BY <2>1, <2>2, LinkTypes
    <2>4. QED
      BY <1>4, <2>3 DEF DerpFails, ConnectFails
  <1>5. CASE UseRelay
    BY <1>5, FallbackType DEF UseRelay, NewSession, NoPacket, Packet
  <1>6. CASE FallbackFails
    BY <1>6 DEF FallbackFails, ConnectFails
  <1>7. CASE Finalize
    BY <1>7, PathTypes DEF Finalize
  <1>8. CASE FinalizeFails
    BY <1>8 DEF FinalizeFails, ConnectFails
  <1>9. QED
    BY <1>1, <1>2, <1>3, <1>4, <1>5, <1>6, <1>7, <1>8 DEF Connects

\* The steps of a probe keep the types.
LEMMA ProbesType ==
    ASSUME TypeOK, CallHasPeer,
           Sends \/ Written(TRUE) \/ Written(FALSE) \/ Answers \/ PollAgain \/ ProbeEnds
    PROVE  TypeOK' /\ CallHasPeer'
  <1> USE DEF TypeOK, CallHasPeer, At, Goto, Idle, data, SendFails, Recorded
  <1>1. ASSUME NEW size \in Sizes, SendRefused(size) PROVE TypeOK' /\ CallHasPeer'
    BY <1>1 DEF SendRefused
  <1>2. ASSUME NEW size \in Sizes, SendStream(size) PROVE TypeOK' /\ CallHasPeer'
    <2>1. call' = [at |-> "write", peer |-> Nil, size |-> size, id |-> 0]
      BY <1>2 DEF SendStream
    <2>2. QED
      BY <1>2, <2>1, SizesAssumption DEF SendStream
  <1>3. ASSUME NEW size \in Sizes, SendForward(size) PROVE TypeOK' /\ CallHasPeer'
    <2>1. size \in Nat /\ sends' \in Nat /\ [id |-> sends', size |-> size] \in Packet
      BY <1>3, SizesAssumption DEF SendForward, Packet
    <2>2. QED
      BY <1>3, <2>1 DEF SendForward
  <1>4. ASSUME NEW d \in inbox, ReadAck(d) PROVE TypeOK' /\ CallHasPeer'
    BY <1>4 DEF ReadAck, Read, Packet, AckMatches
  <1>5. ASSUME NEW d \in inbox, PollRelay(d) PROVE TypeOK' /\ CallHasPeer'
    BY <1>5 DEF PollRelay, Read
  <1>6. CASE AckTimeout
    BY <1>6 DEF AckTimeout
  <1>7. CASE PollNothing
    BY <1>7 DEF PollNothing
  <1>8. ASSUME NEW ok \in BOOLEAN, PollStream(ok) PROVE TypeOK' /\ CallHasPeer'
    BY <1>8 DEF PollStream
  <1>9. CASE PollAgain \/ ProbeEnds
    BY <1>9 DEF PollAgain, ProbeEnds
  <1>10. ASSUME NEW ok \in BOOLEAN, Written(ok) PROVE TypeOK' /\ CallHasPeer'
    BY <1>10 DEF Written
  <1>11. QED
    BY <1>1, <1>2, <1>3, <1>4, <1>5, <1>6, <1>7, <1>8, <1>9, <1>10 DEF Sends, Answers

\* The steps of the daemon, the network and the host keep the types.
LEMMA NetworkType ==
    ASSUME TypeOK, CallHasPeer, Network \/ Disconnect \/ Restart \/ CommandEnds
    PROVE  TypeOK' /\ CallHasPeer'
  <1> USE DEF TypeOK, CallHasPeer, data, Arrives, Packet, Datagram, NoPacket
  <1>1. ASSUME NEW r \in net, RelayRefuses(r) \/ RequestLost(r) PROVE TypeOK' /\ CallHasPeer'
    <2>1. CASE RelayRefuses(r)
      <3>1. inbox' = inbox \cup {[kind |-> "error", id |-> 0, size |-> 0]}
        BY <2>1 DEF RelayRefuses
      <3>2. QED
        BY <2>1, <3>1 DEF RelayRefuses
    <2>2. CASE RequestLost(r)
      BY <2>2 DEF RequestLost
    <2>3. QED
      BY <1>1, <2>1, <2>2
  <1>2. ASSUME NEW r \in net, NEW lost \in BOOLEAN, RelayForwards(r, lost)
        PROVE  TypeOK' /\ CallHasPeer'
    BY <1>2 DEF RelayForwards
  <1>3. ASSUME NEW id \in 1..MaxPackets, PeerSends(id) PROVE TypeOK' /\ CallHasPeer'
    BY <1>3, BoundsAssumption DEF PeerSends
  <1>4. CASE Disconnect
    BY <1>4, PathTypes DEF Disconnect
  <1>5. CASE Restart \/ CommandEnds
    BY <1>5, PathTypes, StartTypes DEF Restart, CommandEnds, Starts, NewSession, Idle
  <1>6. QED
    BY <1>1, <1>2, <1>3, <1>4, <1>5 DEF Network

\* Types, and the peer of a connect that goes on, in every reachable state.
LEMMA TypeAlways == Spec => [](TypeOK /\ CallHasPeer)
  <1>1. Init => TypeOK /\ CallHasPeer
    BY PathTypes, StartTypes DEF Init, TypeOK, CallHasPeer, Idle, NoPacket, Packet
  <1>2. TypeOK /\ CallHasPeer /\ [Next]_vars => TypeOK' /\ CallHasPeer'
    <2> SUFFICES ASSUME TypeOK, CallHasPeer, [Next]_vars PROVE TypeOK' /\ CallHasPeer'
      OBVIOUS
    <2>1. CASE UNCHANGED vars
      BY <2>1 DEF vars, data, TypeOK, CallHasPeer
    <2>2. QED
      BY <2>1, ConnectsType, ProbesType, NetworkType DEF Next
  <1>3. QED
    BY <1>1, <1>2, PTL DEF Spec

\* Calls, links, paths and datagrams have their types in every reachable state.
THEOREM TypeCorrect == Spec => []TypeOK
  BY TypeAlways, PTL
-----------------------------------------------------------------------------
(* The pool of DERP links. *)

\* Only a connect over DERP and a restart touch the pool.
LEMMA PoolChanges ==
    ASSUME [Next]_vars, pool' # pool
    PROVE  Restart \/ CommandEnds \/ \E c \in Clusters : UseDerp(c) \/ DerpFails(c)
  BY DEF Next, vars, Connects, ConnectDirect, ConnectFallsBack, UseRelay, FallbackFails,
         Finalize, FinalizeFails, Disconnect, Sends, SendRefused, SendForward, SendStream,
         Written, Answers, ReadAck, PollRelay, AckTimeout, PollNothing, PollStream, PollAgain, ProbeEnds,
         Network, RelayRefuses, RequestLost, RelayForwards, PeerSends

\* warm_up: an open link carries the ticket it was installed with.
LEMMA WarmedTickets ==
    ASSUME NEW c, NEW p \in Peers, NEW k, NEW all, NEW n \in Nodes,
           Warmed(Installed(p, c), p, c, k, all)[n].state = "ready"
    PROVE  Warmed(Installed(p, c), p, c, k, all)[n].ticket = p
  <1>1. Installed(p, c)[n].state # "ready"
    BY DEF Installed, NoLink, Opening
  <1>2. QED
    BY <1>1 DEF Warmed, Attached, Closed

\* The active link of the pool is open.
ActiveIsOpen == pool.active # Nil => pool.links[pool.active].state = "ready"
\* The links of the pool carry the installed ticket, and the active one is open.
PoolInv == LinksCarryTicket /\ ActiveIsOpen

\* Every step keeps the links' tickets and the state of the active link.
LEMMA PoolStep ==
    ASSUME TypeOK, CallHasPeer, PoolInv, [Next]_vars
    PROVE  PoolInv'
  <1>1. CASE pool' = pool
    BY <1>1 DEF PoolInv, LinksCarryTicket, ActiveIsOpen
  <1>2. CASE Restart \/ CommandEnds
    <2>1. /\ pool'.active = Nil
          /\ \A n \in Nodes : pool'.links[n] = NoLink
      BY <1>2 DEF Restart, CommandEnds, Starts, NoPool
    <2>2. QED
      BY <2>1 DEF PoolInv, LinksCarryTicket, ActiveIsOpen, NoLink
  <1>3. ASSUME NEW c \in Clusters, UseDerp(c) PROVE PoolInv'
    <2> DEFINE links == Warmed(Installed(call.peer, c), call.peer, c, WarmCount(c), TRUE)
    <2>1. call.peer \in Peers
      BY <1>3 DEF UseDerp, CallHasPeer, At
    <2>2. PICK n \in Best(links) : pool' = [ticket |-> call.peer, active |-> n, links |-> links]
      BY <1>3 DEF UseDerp, Switched
    <2>3. pool'.ticket = call.peer /\ pool'.active = n /\ pool'.links = links
      BY <2>2
    <2> HIDE DEF links
    <2>4. \A m \in Nodes : links[m].state = "ready" => links[m].ticket = call.peer
      BY <2>1, WarmedTickets DEF links
    <2>5. LinksCarryTicket'
      BY <2>1, <2>3, <2>4, NilAssumption DEF LinksCarryTicket
    <2>6. n \in Nodes /\ links[n].state = "ready"
      BY <2>2 DEF Best
    <2>7. ActiveIsOpen'
      BY <2>3, <2>6 DEF ActiveIsOpen
    <2>8. QED
      BY <2>5, <2>7 DEF PoolInv
  <1>4. ASSUME NEW c \in Clusters, DerpFails(c) PROVE PoolInv'
    <2>1. call.peer \in Peers
      BY <1>4 DEF DerpFails, CallHasPeer, At
    <2>2. PICK k \in 0..(WarmCount(c) - 1) :
             pool' = [ticket |-> call.peer, active |-> Nil,
                      links |-> Warmed(Installed(call.peer, c), call.peer, c, k, FALSE)]
      BY <1>4 DEF DerpFails
    <2>3. /\ pool'.ticket = call.peer /\ pool'.active = Nil
          /\ pool'.links = Warmed(Installed(call.peer, c), call.peer, c, k, FALSE)
      BY <2>2
    <2> DEFINE links == Warmed(Installed(call.peer, c), call.peer, c, k, FALSE)
    <2> HIDE DEF links
    <2>4. \A m \in Nodes : links[m].state = "ready" => links[m].ticket = call.peer
      BY <2>1, WarmedTickets DEF links
    <2>5. LinksCarryTicket'
      BY <2>1, <2>3, <2>4, NilAssumption DEF LinksCarryTicket, links
    <2>6. QED
      BY <2>3, <2>5 DEF PoolInv, ActiveIsOpen
  <1>5. QED
    BY <1>1, <1>2, <1>3, <1>4, PoolChanges

\* The invariant of the DERP pool, with the types it needs.
LEMMA PoolAlways == Spec => [](TypeOK /\ CallHasPeer /\ PoolInv)
  <1>1. Init => PoolInv
    BY DEF Init, PoolInv, LinksCarryTicket, ActiveIsOpen, NoLink, NoPool
  <1>2. TypeOK /\ CallHasPeer /\ PoolInv /\ [Next]_vars => PoolInv'
    BY PoolStep
  <1>3. QED
    BY <1>1, <1>2, TypeAlways, PTL DEF Spec

\* install_cluster and warm_up: whatever connects failed half way before, an
\* open DERP link carries the ticket that was installed last.
THEOREM LinksAlwaysCarryTicket == Spec => []LinksCarryTicket
  <1>1. PoolInv => LinksCarryTicket
    BY DEF PoolInv
  <1>2. QED
    BY <1>1, PoolAlways, PTL
-----------------------------------------------------------------------------
(* Acknowledgements of the relay daemon. *)

\* Packets are numbered; an acknowledgement that waits at the socket answers
\* a packet of this session that the daemon forwarded, and a send that waits
\* for one is the last of the session.
AcksInv ==
    /\ \A r \in net \cup forwarded : r.id <= sends
    /\ \A d \in inbox : d.kind = "ack" => [id |-> d.id, size |-> d.size] \in forwarded
    /\ call.at = "ack" => call.id = sends
    /\ ConfirmedWasForwarded

\* Only these steps touch the session or wait for an acknowledgement.
LEMMA SessionChanges ==
    ASSUME [Next]_vars, ~(UNCHANGED data)
    PROVE  \/ UseRelay \/ Restart \/ CommandEnds \/ Network
           \/ \E size \in Sizes : SendForward(size)
           \/ \E d \in inbox : ReadAck(d) \/ PollRelay(d)
  <1>1. Next
    BY DEF vars, data
  <1>2. ASSUME Connects, ~UseRelay PROVE UNCHANGED data
    BY <1>2 DEF Connects, ConnectDirect, ConnectFallsBack, UseDerp, DerpFails, FallbackFails,
                Finalize, FinalizeFails
  <1>3. ASSUME Sends, ~\E size \in Sizes : SendForward(size) PROVE UNCHANGED data
    BY <1>3 DEF Sends, SendRefused, SendStream
  <1>4. ASSUME Answers, ~\E d \in inbox : ReadAck(d) \/ PollRelay(d) PROVE UNCHANGED data
    BY <1>4 DEF Answers, AckTimeout, PollNothing, PollStream
  <1>5. ASSUME Disconnect \/ PollAgain \/ ProbeEnds \/ Written(TRUE) \/ Written(FALSE)
        PROVE  UNCHANGED data
    BY <1>5 DEF Disconnect, PollAgain, ProbeEnds, Written
  <1>6. QED
    BY <1>1, <1>2, <1>3, <1>4, <1>5 DEF Next

\* Only a packet sent over the relay begins to wait for an acknowledgement.
LEMMA AckCalls ==
    ASSUME TypeOK, [Next]_vars, call'.at = "ack", ~\E size \in Sizes : SendForward(size)
    PROVE  call' = call
  <1> USE DEF TypeOK, Idle, Goto, At
  <1>1. ASSUME Connects PROVE FALSE
    <2>1. ASSUME NEW p \in Peers, ConnectDirect(p) PROVE call'.at = "finalize"
      BY <2>1 DEF ConnectDirect
    <2>2. ASSUME NEW p \in Peers, NEW t \in BOOLEAN, NEW a \in BOOLEAN, ConnectFallsBack(p, t, a)
          PROVE  call'.at \in {"fallback", "idle"}
      <3>1. call' \in {[at |-> "fallback", peer |-> p, size |-> 0, id |-> 0], Idle}
        BY <2>2 DEF ConnectFallsBack, ConnectFails
      <3>2. QED
        BY <3>1
    <2>3. ASSUME \/ UseRelay \/ \E c \in Clusters : UseDerp(c)
          PROVE  call'.at = "finalize"
      BY <2>3 DEF UseRelay, UseDerp
    <2>4. ASSUME \/ FallbackFails \/ Finalize \/ FinalizeFails
                 \/ \E c \in Clusters : DerpFails(c)
          PROVE  call'.at = "idle"
      <3>1. call' = Idle
        BY <2>4 DEF FallbackFails, Finalize, FinalizeFails, DerpFails, ConnectFails
      <3>2. QED
        BY <3>1
    <2>5. QED
      BY <1>1, <2>1, <2>2, <2>3, <2>4 DEF Connects
  <1>2. ASSUME Sends PROVE FALSE
    <2>1. ASSUME NEW size \in Sizes, SendRefused(size) PROVE call'.at = "idle"
      BY <2>1 DEF SendRefused, SendFails
    <2>2. ASSUME NEW size \in Sizes, SendStream(size)
          PROVE  call'.at = "write"
      <3>1. call' = [at |-> "write", peer |-> Nil, size |-> size, id |-> 0]
        BY <2>2 DEF SendStream
      <3>2. QED
        BY <3>1
    <2>3. QED
      BY <1>2, <2>1, <2>2 DEF Sends
  <1>3. ASSUME Answers PROVE FALSE
    <2>1. ASSUME NEW d \in inbox, ReadAck(d) PROVE call'.at \in {"poll", "idle"}
      BY <2>1 DEF ReadAck, SendFails
    <2>2. ASSUME NEW d \in inbox, PollRelay(d) PROVE call'.at \in {"wait", "idle"}
      BY <2>2 DEF PollRelay, Recorded
    <2>3. ASSUME AckTimeout \/ PollNothing PROVE call'.at \in {"wait", "idle"}
      BY <2>3 DEF AckTimeout, PollNothing, SendFails
    <2>4. ASSUME NEW ok \in BOOLEAN, PollStream(ok) PROVE call'.at = "idle"
      BY <2>4 DEF PollStream, Recorded
    <2>5. QED
      BY <1>3, <2>1, <2>2, <2>3, <2>4 DEF Answers
  <1>4. ASSUME PollAgain \/ ProbeEnds \/ Restart \/ CommandEnds \/ Written(TRUE) \/ Written(FALSE)
        PROVE  FALSE
    BY <1>4 DEF PollAgain, ProbeEnds, Recorded, Restart, CommandEnds, Starts, Written, SendFails
  <1>5. ASSUME Network \/ Disconnect PROVE call' = call
    BY <1>5 DEF Network, RelayRefuses, RequestLost, RelayForwards, PeerSends, Disconnect
  <1>6. ASSUME UNCHANGED vars PROVE call' = call
    BY <1>6 DEF vars
  <1>7. QED
    BY <1>1, <1>2, <1>3, <1>4, <1>5, <1>6 DEF Next

\* Every step keeps the relation of acknowledgements to forwarded packets.
LEMMA AcksStep ==
    ASSUME TypeOK, AcksInv, [Next]_vars
    PROVE  AcksInv'
  <1> USE DEF AcksInv, ConfirmedWasForwarded
  <1>1. CASE UNCHANGED data
    <2>1. ASSUME NEW size \in Sizes, SendForward(size) PROVE FALSE
      BY <1>1, <2>1 DEF SendForward, data, TypeOK
    <2>2. call'.at = "ack" => call' = call
      BY <2>1, AckCalls
    <2>3. QED
      BY <1>1, <2>2 DEF data
  <1>2. CASE UseRelay \/ Restart \/ CommandEnds
    <2>1. net' = {} /\ inbox' = {} /\ forwarded' = {} /\ confirmed' = NoPacket
      BY <1>2 DEF UseRelay, Restart, CommandEnds, Starts, NewSession
    <2>2. call'.at # "ack"
      BY <1>2 DEF UseRelay, Restart, CommandEnds, Starts, Goto, Idle, TypeOK
    <2>3. QED
      BY <2>1, <2>2
  <1>3. ASSUME NEW size \in Sizes, SendForward(size) PROVE AcksInv'
    <2>1. /\ sends' = sends + 1 /\ sends \in Nat
          /\ net' = net \cup {[id |-> sends', size |-> size]}
          /\ UNCHANGED <<inbox, forwarded, confirmed>>
          /\ call'.id = sends'
      BY <1>3 DEF SendForward, TypeOK, Idle
    <2>2. \A r \in net \cup forwarded : r.id \in Nat
      BY DEF TypeOK, Packet
    <2>3. \A r \in net' \cup forwarded' : r.id <= sends'
      BY <2>1, <2>2
    <2>4. QED
      BY <2>1, <2>3
  <1>4. ASSUME NEW d \in inbox, ReadAck(d) PROVE AcksInv'
    <2>1. /\ UNCHANGED <<net, forwarded, sends>> /\ inbox' \subseteq inbox
          /\ call.at = "ack"
      BY <1>4 DEF ReadAck, Read, At
    <2>2. call'.at # "ack"
      BY <1>4 DEF ReadAck, SendFails, Goto, Idle, TypeOK
    <2>3. CASE AckMatches(d)
      <3>1. confirmed' = [id |-> call.id, size |-> call.size]
        BY <1>4, <2>3 DEF ReadAck
      <3>2. [id |-> d.id, size |-> d.size] \in forwarded /\ d.size = call.size
        BY <2>3 DEF AckMatches
      <3>3. d.id <= sends /\ call.id = sends
        BY <2>1, <3>2
      <3>4. QED
        BY <2>1, <2>2, <3>1, <3>2, <3>3
    <2>4. CASE ~AckMatches(d)
      BY <1>4, <2>1, <2>2, <2>4 DEF ReadAck
    <2>5. QED
      BY <2>3, <2>4
  <1>5. ASSUME NEW d \in inbox, PollRelay(d) PROVE AcksInv'
    <2>1. UNCHANGED <<net, forwarded, sends, confirmed>> /\ inbox' \subseteq inbox
      BY <1>5 DEF PollRelay, Read
    <2>2. call'.at # "ack"
      BY <1>5 DEF PollRelay, Recorded, Goto, Idle, TypeOK, At
    <2>3. QED
      BY <2>1, <2>2
  <1>6. CASE Network
    <2>1. UNCHANGED <<call, sends, confirmed>>
      BY <1>6 DEF Network, RelayRefuses, RequestLost, RelayForwards, PeerSends
    <2>2. ASSUME NEW r \in net, RelayRefuses(r) PROVE AcksInv'
      BY <2>1, <2>2 DEF RelayRefuses, Arrives
    <2>3. ASSUME NEW r \in net, RequestLost(r) PROVE AcksInv'
      BY <2>1, <2>3 DEF RequestLost
    <2>4. ASSUME NEW r \in net, NEW lost \in BOOLEAN, RelayForwards(r, lost) PROVE AcksInv'
      <3>1. net' \subseteq net /\ forwarded' = forwarded \cup {r}
        BY <2>4 DEF RelayForwards
      <3>2. r = [id |-> r.id, size |-> r.size]
        BY DEF TypeOK, Packet
      <3>3. \A d \in inbox' : d \in inbox \/ (d.id = r.id /\ d.size = r.size)
        BY <2>4 DEF RelayForwards, Arrives
      <3>4. \A d \in inbox' : d.kind = "ack" => [id |-> d.id, size |-> d.size] \in forwarded'
        BY <3>1, <3>2, <3>3
      <3>5. QED
        BY <2>1, <3>1, <3>4
    <2>5. ASSUME NEW id \in 1..MaxPackets, PeerSends(id) PROVE AcksInv'
      BY <2>1, <2>5 DEF PeerSends
    <2>6. QED
      BY <1>6, <2>2, <2>3, <2>4, <2>5 DEF Network
  <1>7. QED
    BY <1>1, <1>2, <1>3, <1>4, <1>5, <1>6, SessionChanges

\* A send that succeeds over the relay is backed by a packet of its length
\* that the daemon forwarded in the same session.
THEOREM ConfirmedAlwaysForwarded == Spec => []ConfirmedWasForwarded
  <1>1. Init => AcksInv
    BY DEF Init, AcksInv, ConfirmedWasForwarded, Idle
  <1>2. TypeOK /\ AcksInv /\ [Next]_vars => AcksInv'
    BY AcksStep
  <1>3. AcksInv => ConfirmedWasForwarded
    BY DEF AcksInv
  <1>4. QED
    BY <1>1, <1>2, <1>3, TypeCorrect, PTL DEF Spec
-----------------------------------------------------------------------------
(* The path of a connection. *)

\* A connect that has found a path leads to its peer, unless it is a DERP
\* path, which leads where the ticket of the pool does.
PathFound ==
    call.at = "finalize" =>
        /\ path.kind \in {"p2p", "relay", "derp"}
        /\ path.kind = "p2p" => stream = call.peer
        /\ path.kind = "relay" => relay = call.peer
        /\ path.kind = "derp" => pool.active # Nil

\* The path manager chooses the relay only if no link is active.
LEMMA FallbackKinds ==
    ASSUME NEW p, NEW pl
    PROVE  \/ FallbackPath(p, pl).kind = "relay"
           \/ FallbackPath(p, pl).kind = "derp" /\ pl.active # Nil
  BY DEF FallbackPath, Derp, Relay

\* Every step keeps that a connect about to finish has a path to its peer.
LEMMA PathFoundStep ==
    ASSUME TypeOK, PathFound, [Next]_vars
    PROVE  PathFound'
  <1> USE DEF PathFound, TypeOK, At, Goto
  <1>1. ASSUME NEW p \in Peers, ConnectDirect(p) PROVE PathFound'
    <2>1. call' = [at |-> "finalize", peer |-> p, size |-> 0, id |-> 0] /\ stream' = p
      BY <1>1 DEF ConnectDirect, Idle
    <2>2. path'.kind = "p2p"
      BY <1>1 DEF ConnectDirect, P2P
    <2>3. QED
      BY <2>1, <2>2
  <1>2. ASSUME NEW p \in Peers, NEW t \in BOOLEAN, NEW a \in BOOLEAN, ConnectFallsBack(p, t, a)
        PROVE  PathFound'
    <2>1. call' \in {[at |-> "fallback", peer |-> p, size |-> 0, id |-> 0], Idle}
      BY <1>2 DEF ConnectFallsBack, ConnectFails, Idle
    <2>2. QED
      BY <2>1 DEF Idle
  <1>3. ASSUME NEW c \in Clusters, UseDerp(c) PROVE PathFound'
    <2>1. PICK n \in Nodes : pool'.active = n /\ path' = FallbackPath(call.peer, pool')
      BY <1>3 DEF UseDerp, Switched, Best
    <2>2. pool'.active # Nil
      BY <2>1, NilAssumption
    <2>3. path'.kind = "derp"
      BY <2>1, <2>2 DEF FallbackPath, Derp
    <2>4. QED
      BY <2>2, <2>3
  <1>4. CASE UseRelay
    <2>1. /\ path' = FallbackPath(call.peer, pool) /\ pool' = pool
          /\ relay' = call.peer /\ call'.peer = call.peer
      BY <1>4 DEF UseRelay
    <2>2. QED
      BY <2>1, FallbackKinds
  <1>5. ASSUME \/ FallbackFails \/ Finalize \/ FinalizeFails
               \/ \E c \in Clusters : DerpFails(c)
        PROVE  PathFound'
    <2>1. call' = Idle
      BY <1>5 DEF FallbackFails, Finalize, FinalizeFails, DerpFails, ConnectFails
    <2>2. QED
      BY <2>1 DEF Idle
  <1>6. CASE Sends
    <2>1. ASSUME NEW size \in Sizes, SendRefused(size) PROVE call'.at # "finalize"
      BY <2>1 DEF SendRefused, SendFails, Idle
    <2>2. ASSUME NEW size \in Sizes, SendStream(size) PROVE call'.at # "finalize"
      <3>1. call' = [at |-> "write", peer |-> Nil, size |-> size, id |-> 0]
        BY <2>2 DEF SendStream, Idle
      <3>2. QED
        BY <3>1
    <2>3. ASSUME NEW size \in Sizes, SendForward(size) PROVE call'.at # "finalize"
      <3>1. call' = [at |-> "ack", peer |-> Nil, size |-> size, id |-> sends']
        BY <2>3 DEF SendForward, Idle
      <3>2. QED
        BY <3>1
    <2>4. QED
      BY <1>6, <2>1, <2>2, <2>3 DEF Sends
  <1>7. CASE Answers
    <2>1. ASSUME NEW d \in inbox, ReadAck(d) PROVE call'.at # "finalize"
      BY <2>1 DEF ReadAck, SendFails, Idle
    <2>2. ASSUME NEW d \in inbox, PollRelay(d) PROVE call'.at # "finalize"
      BY <2>2 DEF PollRelay, Recorded, Idle
    <2>3. ASSUME AckTimeout \/ PollNothing PROVE call'.at # "finalize"
      BY <2>3 DEF AckTimeout, PollNothing, SendFails, Idle
    <2>4. ASSUME NEW ok \in BOOLEAN, PollStream(ok) PROVE call'.at # "finalize"
      BY <2>4 DEF PollStream, Recorded, Idle
    <2>5. QED
      BY <1>7, <2>1, <2>2, <2>3, <2>4 DEF Answers
  <1>8. CASE PollAgain \/ ProbeEnds \/ Restart \/ CommandEnds \/ Written(TRUE) \/ Written(FALSE)
    BY <1>8 DEF PollAgain, ProbeEnds, Recorded, Restart, CommandEnds, Starts, Written, SendFails,
                Idle
  <1>9. CASE Network \/ Disconnect
    <2>1. UNCHANGED <<call, stream, relay, pool, path>>
      BY <1>9 DEF Network, RelayRefuses, RequestLost, RelayForwards, PeerSends, Disconnect
    <2>2. QED
      BY <2>1
  <1>10. CASE UNCHANGED vars
    BY <1>10 DEF vars
  <1>11. QED
    BY <1>1, <1>2, <1>3, <1>4, <1>5, <1>6, <1>7, <1>8, <1>9, <1>10 DEF Next, Connects

\* Only a connect and a new process touch what packets are sent on.
LEMMA TransportChanges ==
    ASSUME [Next]_vars, ~UNCHANGED <<stream, relay, pool, path>>
    PROVE  \/ Restart \/ CommandEnds \/ UseRelay
           \/ \E p \in Peers : \/ ConnectDirect(p)
                               \/ \E t, a \in BOOLEAN : ConnectFallsBack(p, t, a)
           \/ \E c \in Clusters : UseDerp(c) \/ DerpFails(c)
  BY DEF Next, vars, Connects, FallbackFails, Finalize, FinalizeFails, Disconnect, Sends,
         SendRefused, SendForward, SendStream, Written, Answers, ReadAck, PollRelay, AckTimeout,
         PollNothing, PollStream, PollAgain, ProbeEnds, Network, RelayRefuses, RequestLost,
         RelayForwards, PeerSends

\* on_p2p_failed never names a direct path, and of the links the active one.
LEMMA FallbackNames ==
    ASSUME NEW p, NEW pl
    PROVE  /\ FallbackPath(p, pl).kind # "p2p"
           /\ FallbackPath(p, pl).kind = "derp" => FallbackPath(p, pl).node = pl.active
  BY DEF FallbackPath, Derp, Relay

\* Every step keeps that the path names what packets are sent on.
LEMMA NamesStep ==
    ASSUME TypeOK, CallHasPeer, PathNamesTransport, [Next]_vars
    PROVE  PathNamesTransport'
  <1> USE DEF PathNamesTransport
  <1>1. CASE UNCHANGED <<stream, relay, pool, path>>
    BY <1>1
  <1>2. ASSUME NEW p \in Peers, ConnectDirect(p) PROVE PathNamesTransport'
    BY <1>2, NilAssumption DEF ConnectDirect, P2P
  <1>3. ASSUME NEW p \in Peers, NEW t \in BOOLEAN, NEW a \in BOOLEAN, ConnectFallsBack(p, t, a)
        PROVE  PathNamesTransport'
    BY <1>3, FallbackNames DEF ConnectFallsBack
  <1>4. ASSUME NEW c \in Clusters, UseDerp(c) PROVE PathNamesTransport'
    <2>1. path' = FallbackPath(call.peer, pool')
      BY <1>4 DEF UseDerp
    <2>2. QED
      BY <2>1, FallbackNames
  <1>5. ASSUME NEW c \in Clusters, DerpFails(c) PROVE PathNamesTransport'
    <2>1. pool'.active = Nil /\ UNCHANGED <<stream, path>>
      BY <1>5 DEF DerpFails
    <2>2. QED
      BY <2>1
  <1>6. CASE UseRelay
    BY <1>6, FallbackNames DEF UseRelay
  <1>7. CASE Restart \/ CommandEnds
    BY <1>7 DEF Restart, CommandEnds, Starts, NoPath
  <1>8. QED
    BY <1>1, <1>2, <1>3, <1>4, <1>5, <1>6, <1>7, TransportChanges

\* The path manager, the pool and the connector: after every connect, also one
\* that failed half way, the path named is the one packets take.
THEOREM PathAlwaysNamesTransport == Spec => []PathNamesTransport
  <1>1. Init => PathNamesTransport
    BY DEF Init, PathNamesTransport, NoPath
  <1>2. TypeOK /\ CallHasPeer /\ PathNamesTransport /\ [Next]_vars => PathNamesTransport'
    BY NamesStep
  <1>3. QED
    BY <1>1, <1>2, TypeAlways, PTL DEF Spec

\* A connect that succeeds leads to its peer, or to the peer of the pool's ticket.
LEMMA FinalizeReaches ==
    ASSUME TypeOK, PoolInv, PathFound, Finalize
    PROVE  ConnectReachesPeer'
  <1>1. /\ call.at = "finalize" /\ goal' = call.peer
        /\ snap'.path = path /\ snap'.probe = NoPath
        /\ UNCHANGED <<stream, relay, pool, path>>
    BY DEF Finalize, At
  <1>2. CASE path.kind = "derp"
    <2>1. /\ pool.active \in Nodes /\ pool.links[pool.active].ticket = pool.ticket
          /\ pool.ticket # Nil
      BY <1>1, <1>2 DEF PathFound, PoolInv, LinksCarryTicket, ActiveIsOpen, TypeOK
    <2>2. LeadsTo' = pool.ticket
      BY <1>1, <1>2, <2>1, NilAssumption DEF LeadsTo
    <2>3. QED
      BY <1>1, <1>2, <2>1, <2>2 DEF ConnectReachesPeer
  <1>3. CASE path.kind = "p2p"
    BY <1>1, <1>3 DEF PathFound, LeadsTo, ConnectReachesPeer
  <1>4. CASE path.kind = "relay"
    BY <1>1, <1>4 DEF PathFound, LeadsTo, ConnectReachesPeer
  <1>5. QED
    BY <1>1, <1>2, <1>3, <1>4 DEF PathFound

\* A connect under way has no success to speak of yet.
NoGoalYet == call.at \in {"fallback", "finalize"} => goal = Nil

\* Every step keeps that a connect that succeeded leads to its peer.
LEMMA ReachesStep ==
    ASSUME TypeOK, PoolInv, PathFound, NoGoalYet, ConnectReachesPeer, [Next]_vars
    PROVE  NoGoalYet' /\ ConnectReachesPeer'
  <1> USE DEF TypeOK, At, Goto
  <1>1. ASSUME UNCHANGED <<stream, relay, pool, path, goal>>,
               snap' = snap \/ snap' = [snap EXCEPT !.probe = path] \/ snap'.state # "connected",
               call'.at \in {call.at} \cup {"idle", "write", "ack", "poll", "wait"}
        PROVE  NoGoalYet' /\ ConnectReachesPeer'
    BY <1>1 DEF NoGoalYet, ConnectReachesPeer, LeadsTo
  <1>2. ASSUME goal' = Nil PROVE NoGoalYet' /\ ConnectReachesPeer'
    BY <1>2 DEF NoGoalYet, ConnectReachesPeer
  <1>3. ASSUME NEW p \in Peers,
               \/ ConnectDirect(p)
               \/ \E t, a \in BOOLEAN : ConnectFallsBack(p, t, a)
        PROVE  NoGoalYet' /\ ConnectReachesPeer'
    BY <1>2, <1>3 DEF ConnectDirect, ConnectFallsBack, Begins
  <1>4. ASSUME \/ UseRelay \/ FallbackFails \/ FinalizeFails
               \/ \E c \in Clusters : UseDerp(c) \/ DerpFails(c)
        PROVE  NoGoalYet' /\ ConnectReachesPeer'
    <2>1. goal = Nil
      BY <1>4 DEF UseRelay, FallbackFails, FinalizeFails, UseDerp, DerpFails, NoGoalYet
    <2>2. goal' = goal
      BY <1>4 DEF UseRelay, FallbackFails, FinalizeFails, UseDerp, DerpFails
    <2>3. QED
      BY <1>2, <2>1, <2>2
  <1>5. CASE Finalize
    <2>1. call'.at = "idle"
      BY <1>5 DEF Finalize, Idle
    <2>2. QED
      BY <1>5, <2>1, FinalizeReaches DEF NoGoalYet
  <1>6. CASE Restart \/ CommandEnds
    BY <1>2, <1>6 DEF Restart, CommandEnds, Starts
  <1>7. CASE Disconnect
    BY <1>1, <1>7 DEF Disconnect
  <1>8. CASE Sends
    <2>1. ASSUME NEW size \in Sizes, SendForward(size) PROVE NoGoalYet' /\ ConnectReachesPeer'
      <3>1. call'.at = "ack"
        BY <2>1 DEF SendForward, Idle
      <3>2. QED
        BY <1>1, <2>1, <3>1 DEF SendForward
    <2>2. ASSUME NEW size \in Sizes, SendStream(size) PROVE NoGoalYet' /\ ConnectReachesPeer'
      <3>1. call'.at = "write"
        BY <2>2 DEF SendStream, Idle
      <3>2. QED
        BY <1>1, <2>2, <3>1 DEF SendStream
    <2>3. ASSUME NEW size \in Sizes, SendRefused(size) PROVE NoGoalYet' /\ ConnectReachesPeer'
      BY <1>1, <2>3 DEF SendRefused, SendFails, Idle
    <2>4. QED
      BY <1>8, <2>1, <2>2, <2>3 DEF Sends
  <1>9. CASE Answers
    BY <1>1, <1>9 DEF Answers, ReadAck, SendFails, PollRelay, Recorded, AckTimeout, PollNothing,
                      PollStream, Idle
  <1>10. CASE PollAgain \/ ProbeEnds \/ Written(TRUE) \/ Written(FALSE)
    BY <1>1, <1>10 DEF PollAgain, ProbeEnds, Recorded, Written, SendFails, Idle
  <1>11. CASE Network \/ UNCHANGED vars
    <2>1. UNCHANGED <<call, stream, relay, pool, path, snap, goal>>
      BY <1>11 DEF Network, RelayRefuses, RequestLost, RelayForwards, PeerSends, vars
    <2>2. QED
      BY <1>1, <2>1
  <1>12. QED
    BY <1>3, <1>4, <1>5, <1>6, <1>7, <1>8, <1>9, <1>10, <1>11 DEF Next, Connects

\* finalize_connected_path: from a connect that succeeds until the next one
\* begins, packets reach its peer or the peer of the DERP pool's ticket.
THEOREM ConnectAlwaysReachesPeer == Spec => []ConnectReachesPeer
  <1>1. Init => PathFound /\ NoGoalYet /\ ConnectReachesPeer
    BY DEF Init, PathFound, NoGoalYet, ConnectReachesPeer, Idle
  <1>2. TypeOK /\ PoolInv /\ PathFound /\ NoGoalYet /\ ConnectReachesPeer /\ [Next]_vars
        => PathFound' /\ NoGoalYet' /\ ConnectReachesPeer'
    BY PathFoundStep, ReachesStep
  <1>3. QED
    BY <1>1, <1>2, PoolAlways, PTL DEF Spec
=============================================================================
