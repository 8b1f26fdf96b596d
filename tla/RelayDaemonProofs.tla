------------------------- MODULE RelayDaemonProofs -------------------------
(***************************************************************************)
(* Theorems about RelayDaemon for any sets of nodes, sessions, networks,   *)
(* addresses and tickets, and any clock.                                    *)
(***************************************************************************)
EXTENDS RelayDaemon, TLAPS

\* HashMap::insert keeps a map a map.
LEMMA InsertMap ==
    ASSUME NEW D, NEW R, NEW f \in Maps(D, R), NEW k \in D, NEW v \in R
    PROVE  /\ Insert(f, k, v) \in Maps(D, R)
           /\ DOMAIN Insert(f, k, v) = DOMAIN f \cup {k}
           /\ Insert(f, k, v)[k] = v
           /\ \A x \in DOMAIN f : x # k => Insert(f, k, v)[x] = f[x]
  <1>1. PICK S \in SUBSET D : f \in [S -> R]
    BY DEF Maps
  <1>2. Insert(f, k, v) \in [S \cup {k} -> R] /\ S \cup {k} \in SUBSET D
    BY <1>1 DEF Insert
  <1>3. QED
    BY <1>1, <1>2 DEF Maps, Insert

\* HashMap::remove keeps a map a map and the other entries as they were.
LEMMA RemoveMap ==
    ASSUME NEW D, NEW R, NEW f \in Maps(D, R), NEW k
    PROVE  /\ Remove(f, k) \in Maps(D, R)
           /\ DOMAIN Remove(f, k) = DOMAIN f \ {k}
           /\ \A x \in DOMAIN Remove(f, k) : Remove(f, k)[x] = f[x]
  <1>1. PICK S \in SUBSET D : f \in [S -> R]
    BY DEF Maps
  <1>2. Remove(f, k) \in [S \ {k} -> R] /\ S \ {k} \in SUBSET D
    BY <1>1 DEF Remove
  <1>3. QED
    BY <1>1, <1>2 DEF Maps, Remove

\* The empty map is a map of any type.
LEMMA EmptyIsMap ==
    ASSUME NEW D, NEW R
    PROVE  EmptyMap \in Maps(D, R) /\ DOMAIN EmptyMap = {}
  BY DEF Maps, EmptyMap

\* The values of a map are values of its type, its keys keys.
LEMMA MapValues ==
    ASSUME NEW D, NEW R, NEW f \in Maps(D, R)
    PROVE  DOMAIN f \subseteq D /\ \A x \in DOMAIN f : f[x] \in R
  BY DEF Maps

\* A ticket in the model names a session, its parties and an expiry.
LEMMA TicketFields ==
    ASSUME NEW t \in Tickets
    PROVE  t.sid \in Sids /\ SessionOf(t) \in SessionType
  BY TicketsAssumption DEF TicketType, SessionType, SessionOf

\* The tables of the daemon keep their types.
THEOREM TypeCorrect == Spec => []TypeOK
  <1>1. Init => TypeOK
    BY EmptyIsMap DEF Init, TypeOK
  <1>2. TypeOK /\ [Next]_vars => TypeOK'
    <2> SUFFICES ASSUME TypeOK, [Next]_vars PROVE TypeOK'
      OBVIOUS
    <2>1. ASSUME NEW a \in Addrs, NEW p \in Nodes, NEW t \in Tickets, Attach(a, p, t)
          PROVE  TypeOK'
      <3>1. CASE AttachAccepted(a, p, t)
        <4> DEFINE old == IF t.sid \in DOMAIN endpoints THEN endpoints[t.sid] ELSE EmptyMap
        <4>1. old \in Maps(Nodes, Addrs)
          BY EmptyIsMap, MapValues DEF TypeOK
        <4>2. endpoints' \in Maps(Sids, Maps(Nodes, Addrs))
          BY <3>1, <4>1, InsertMap, TicketFields DEF AttachAccepted, TypeOK
        <4>3. sessions' \in Maps(Sids, SessionType)
          BY <3>1, InsertMap, TicketFields DEF AttachAccepted, TypeOK
        <4>4. QED
          BY <3>1, <4>2, <4>3 DEF AttachAccepted, TypeOK
      <3>2. CASE ~AttachAccepted(a, p, t)
        BY <2>1, <3>2 DEF Attach, Refuse, TypeOK
      <3>3. QED BY <3>1, <3>2
    <2>2. ASSUME NEW a \in Addrs, NEW sid \in Sids, NEW p \in Nodes, Detach(a, sid, p)
          PROVE  TypeOK'
      <3>1. CASE DetachAccepted(a, sid, p)
        <4> DEFINE left == Remove(endpoints[sid], p)
        <4>1. sid \in DOMAIN endpoints
          BY <3>1 DEF DetachAccepted, BoundCheck
        <4>2. left \in Maps(Nodes, Addrs)
          BY <4>1, MapValues, RemoveMap DEF TypeOK
        <4>3. /\ Remove(endpoints, sid) \in Maps(Sids, Maps(Nodes, Addrs))
              /\ Insert(endpoints, sid, left) \in Maps(Sids, Maps(Nodes, Addrs))
              /\ Remove(sessions, sid) \in Maps(Sids, SessionType)
          BY <4>2, InsertMap, RemoveMap DEF TypeOK
        <4>4. QED
          BY <3>1, <4>3 DEF DetachAccepted, TypeOK
      <3>2. CASE ~DetachAccepted(a, sid, p)
        BY <2>2, <3>2 DEF Detach, Refuse, TypeOK
      <3>3. QED BY <3>1, <3>2
    <2>3. ASSUME NEW a \in Addrs, NEW sid \in Sids, NEW p \in Nodes,
                 NEW b \in Payloads \cup {Empty, Garbled}, Forward(a, sid, p, b)
          PROVE  TypeOK'
      BY <2>3 DEF Forward, ForwardAccepted, Refuse, TypeOK
    <2>4. ASSUME NEW sent, Exit(sent)
          PROVE  TypeOK'
      BY <2>4, EmptyIsMap DEF Exit, TypeOK
    <2>5. CASE \E a \in Addrs : Ping(a)
      BY <2>5 DEF Ping, TypeOK
    <2>6. CASE Restart
      BY <2>6 DEF Restart, TypeOK
    <2>7. CASE Tick
      BY <2>7 DEF Tick, TypeOK
    <2>8. CASE UNCHANGED vars
      BY <2>8 DEF vars, TypeOK
    <2>9. QED
      BY <2>1, <2>2, <2>3, <2>4, <2>5, <2>6, <2>7, <2>8 DEF Next, ServeFails, AckFails
  <1>3. QED
    BY <1>1, <1>2, PTL DEF Spec

\* The session store and the endpoint table never disagree: every stored
\* session has an attached participant, every attached participant a stored
\* session it is a party of.  The invariant is inductive as it stands: an
\* attach writes both tables, a refused request neither, the last detach
\* clears both, and a process that ends loses both.
THEOREM TablesAgree == Spec => []StoreMatchesEndpoints
  <1>1. Init => StoreMatchesEndpoints
    BY EmptyIsMap DEF Init, StoreMatchesEndpoints
  <1>2. StoreMatchesEndpoints /\ [Next]_vars => StoreMatchesEndpoints'
    <2> SUFFICES ASSUME StoreMatchesEndpoints, [Next]_vars
                 PROVE  StoreMatchesEndpoints'
      OBVIOUS
    <2>1. ASSUME NEW a \in Addrs, NEW p \in Nodes, NEW t \in Tickets, Attach(a, p, t)
          PROVE  StoreMatchesEndpoints'
      <3>1. CASE AttachAccepted(a, p, t)
        <4> DEFINE old == IF t.sid \in DOMAIN endpoints THEN endpoints[t.sid] ELSE EmptyMap
                   new == Insert(old, p, a)
        <4>1. /\ p \in {t.src, t.dst}
              /\ t.sid \in DOMAIN sessions => sessions[t.sid] = SessionOf(t)
          BY <3>1 DEF AttachAccepted, AttachCheck
        <4>2. DOMAIN new = DOMAIN old \cup {p}
          BY DEF Insert
        <4>3. endpoints' = Insert(endpoints, t.sid, new)
          BY <3>1 DEF AttachAccepted
        <4>4. /\ DOMAIN endpoints' = DOMAIN endpoints \cup {t.sid}
              /\ endpoints'[t.sid] = new
              /\ \A x \in DOMAIN endpoints : x # t.sid => endpoints'[x] = endpoints[x]
          <5> HIDE DEF new
          <5> QED BY <4>3 DEF Insert
        <4>5. /\ DOMAIN sessions' = DOMAIN sessions \cup {t.sid}
              /\ sessions'[t.sid] = SessionOf(t)
              /\ \A x \in DOMAIN sessions : x # t.sid => sessions'[x] = sessions[x]
          <5>1. CASE t.sid \in DOMAIN sessions
            BY <3>1, <4>1, <5>1 DEF AttachAccepted
          <5>2. CASE t.sid \notin DOMAIN sessions
            <6>1. sessions' = Insert(sessions, t.sid, SessionOf(t))
              BY <3>1, <5>2 DEF AttachAccepted
            <6>2. QED BY <6>1 DEF Insert
          <5>3. QED BY <5>1, <5>2
        <4>6. \A q \in DOMAIN old : Involves(SessionOf(t), q)
          BY <4>1, EmptyIsMap DEF StoreMatchesEndpoints
        <4>7. Involves(SessionOf(t), p)
          BY <4>1 DEF Involves, SessionOf
        <4>8. QED
          BY <4>2, <4>4, <4>5, <4>6, <4>7 DEF StoreMatchesEndpoints
      <3>2. CASE ~AttachAccepted(a, p, t)
        BY <2>1, <3>2 DEF Attach, Refuse, StoreMatchesEndpoints
      <3>3. QED BY <3>1, <3>2
    <2>2. ASSUME NEW a \in Addrs, NEW sid \in Sids, NEW p \in Nodes, Detach(a, sid, p)
          PROVE  StoreMatchesEndpoints'
      <3>1. CASE DetachAccepted(a, sid, p)
        <4> DEFINE left == Remove(endpoints[sid], p)
        <4>1. sid \in DOMAIN endpoints
          BY <3>1 DEF DetachAccepted, BoundCheck
        <4>2. DOMAIN left \subseteq DOMAIN endpoints[sid]
          BY DEF Remove
        <4>3. CASE DOMAIN left = {}
          <5>1. endpoints' = Remove(endpoints, sid) /\ sessions' = Remove(sessions, sid)
            BY <3>1, <4>3 DEF DetachAccepted
          <5>2. /\ DOMAIN endpoints' = DOMAIN endpoints \ {sid}
                /\ \A x \in DOMAIN endpoints' : endpoints'[x] = endpoints[x]
            BY <5>1 DEF Remove
          <5>3. /\ DOMAIN sessions' = DOMAIN sessions \ {sid}
                /\ \A x \in DOMAIN sessions' : sessions'[x] = sessions[x]
            BY <5>1 DEF Remove
          <5>4. QED
            BY <5>2, <5>3 DEF StoreMatchesEndpoints
        <4>4. CASE DOMAIN left # {}
          <5>1. endpoints' = Insert(endpoints, sid, left) /\ sessions' = sessions
            BY <3>1, <4>4 DEF DetachAccepted
          <5>2. /\ DOMAIN endpoints' = DOMAIN endpoints
                /\ endpoints'[sid] = left
                /\ \A x \in DOMAIN endpoints : x # sid => endpoints'[x] = endpoints[x]
            BY <4>1, <5>1 DEF Insert
          <5>3. QED
            BY <4>1, <4>2, <4>4, <5>1, <5>2 DEF StoreMatchesEndpoints
        <4>5. QED BY <4>3, <4>4
      <3>2. CASE ~DetachAccepted(a, sid, p)
        BY <2>2, <3>2 DEF Detach, Refuse, StoreMatchesEndpoints
      <3>3. QED BY <3>1, <3>2
    <2>3. ASSUME NEW a \in Addrs, NEW sid \in Sids, NEW p \in Nodes,
                 NEW b \in Payloads \cup {Empty, Garbled}, Forward(a, sid, p, b)
          PROVE  StoreMatchesEndpoints'
      BY <2>3 DEF Forward, ForwardAccepted, Refuse, StoreMatchesEndpoints
    <2>4. ASSUME NEW sent, Exit(sent)
          PROVE  StoreMatchesEndpoints'
      BY <2>4, EmptyIsMap DEF Exit, StoreMatchesEndpoints
    <2>5. CASE \E a \in Addrs : Ping(a)
      BY <2>5 DEF Ping, StoreMatchesEndpoints
    <2>6. CASE Restart
      BY <2>6 DEF Restart, StoreMatchesEndpoints
    <2>7. CASE Tick
      BY <2>7 DEF Tick, StoreMatchesEndpoints
    <2>8. CASE UNCHANGED vars
      BY <2>8 DEF vars, StoreMatchesEndpoints
    <2>9. QED
      BY <2>1, <2>2, <2>3, <2>4, <2>5, <2>6, <2>7, <2>8 DEF Next, ServeFails, AckFails
  <1>3. QED
    BY <1>1, <1>2, PTL DEF Spec
-----------------------------------------------------------------------------
\* Every address in the endpoint table was admitted, for the participant it is
\* bound to, with a ticket of the session stored under that id.
AdmittedBack ==
    \A sid \in DOMAIN endpoints : \A p \in DOMAIN endpoints[sid] :
        \E x \in admitted :
            /\ x[1] = p /\ x[2] = endpoints[sid][p]
            /\ x[3].sid = sid /\ SessionOf(x[3]) = sessions[sid]

\* A process that is not running holds nothing: Restart finds empty tables.
DownIsEmpty == ~up => DOMAIN endpoints = {}

\* A packet whose sender and receiver are in the endpoint table, the receiver
\* as the peer the session names, is one ExchangeWithinTicket allows.
LEMMA PacketFromTable ==
    ASSUME AdmittedBack,
           NEW sid \in DOMAIN endpoints, NEW p \in DOMAIN endpoints[sid],
           PeerOf(sessions[sid], p) \in DOMAIN endpoints[sid]
    PROVE  \E x, y \in admitted :
              /\ x[1] = p
              /\ y[2] = endpoints[sid][PeerOf(sessions[sid], p)]
              /\ x[3].sid = sid /\ y[3].sid = sid
              /\ SessionOf(x[3]) = SessionOf(y[3])
              /\ y[1] = PeerOf(SessionOf(x[3]), x[1])
  <1> DEFINE q == PeerOf(sessions[sid], p)
  <1>1. PICK x \in admitted : /\ x[1] = p
                              /\ x[3].sid = sid /\ SessionOf(x[3]) = sessions[sid]
    BY DEF AdmittedBack
  <1>2. PICK y \in admitted : /\ y[1] = q /\ y[2] = endpoints[sid][q]
                              /\ y[3].sid = sid /\ SessionOf(y[3]) = sessions[sid]
    BY DEF AdmittedBack
  <1>3. QED BY <1>1, <1>2

\* What an accepted forward has established about sender and peer.
LEMMA ForwardFacts ==
    ASSUME NEW a, NEW sid, NEW p, NEW b, ForwardCheck(a, sid, p, b) = "ok"
    PROVE  /\ sid \in DOMAIN endpoints /\ sid \in DOMAIN sessions
           /\ p \in DOMAIN endpoints[sid] /\ endpoints[sid][p] = a
           /\ Involves(sessions[sid], p)
           /\ PeerOf(sessions[sid], p) \in DOMAIN endpoints[sid]
           /\ b \notin {Empty, Garbled}
  BY DEF ForwardCheck, BoundCheck

\* An admission is never lost while an address of its session stays bound.
LEMMA AdmittedBackStep ==
    ASSUME StoreMatchesEndpoints, AdmittedBack, DownIsEmpty, [Next]_vars
    PROVE  AdmittedBack'
  <1>1. ASSUME NEW a \in Addrs, NEW p \in Nodes, NEW t \in Tickets, AttachAccepted(a, p, t)
        PROVE  AdmittedBack'
    <2> DEFINE old == IF t.sid \in DOMAIN endpoints THEN endpoints[t.sid] ELSE EmptyMap
               new == Insert(old, p, a)
    <2>1. t.sid \in DOMAIN sessions => sessions[t.sid] = SessionOf(t)
      BY <1>1 DEF AttachAccepted, AttachCheck
    <2>2. /\ DOMAIN new = DOMAIN old \cup {p} /\ new[p] = a
          /\ \A q \in DOMAIN old : q # p => new[q] = old[q]
      BY DEF Insert
    <2>3. /\ DOMAIN endpoints' = DOMAIN endpoints \cup {t.sid}
          /\ endpoints'[t.sid] = new
          /\ \A s \in DOMAIN endpoints : s # t.sid => endpoints'[s] = endpoints[s]
      <3>1. endpoints' = Insert(endpoints, t.sid, new)
        BY <1>1 DEF AttachAccepted
      <3> HIDE DEF new
      <3>2. QED BY <3>1 DEF Insert
    <2>4. /\ sessions'[t.sid] = SessionOf(t)
          /\ \A s \in DOMAIN sessions : s # t.sid => sessions'[s] = sessions[s]
      <3>1. CASE t.sid \in DOMAIN sessions
        BY <1>1, <2>1, <3>1 DEF AttachAccepted
      <3>2. CASE t.sid \notin DOMAIN sessions
        <4>1. sessions' = Insert(sessions, t.sid, SessionOf(t))
          BY <1>1, <3>2 DEF AttachAccepted
        <4>2. QED BY <4>1 DEF Insert
      <3>3. QED BY <3>1, <3>2
    <2>5. admitted' = admitted \cup {<<p, a, t>>}
      BY <1>1 DEF AttachAccepted
    <2>6. ASSUME NEW s \in DOMAIN endpoints', NEW q \in DOMAIN endpoints'[s]
          PROVE  \E x \in admitted' :
                    /\ x[1] = q /\ x[2] = endpoints'[s][q]
                    /\ x[3].sid = s /\ SessionOf(x[3]) = sessions'[s]
      <3>1. CASE s # t.sid
        <4>1. s \in DOMAIN endpoints /\ endpoints'[s] = endpoints[s] /\ s \in DOMAIN sessions
          BY <2>3, <2>6, <3>1 DEF StoreMatchesEndpoints
        <4>2. QED BY <2>4, <2>5, <2>6, <3>1, <4>1 DEF AdmittedBack
      <3>2. CASE s = t.sid /\ q = p
        <4>1. endpoints'[s][q] = a /\ sessions'[s] = SessionOf(t)
          BY <2>2, <2>3, <2>4, <3>2
        <4>2. <<p, a, t>> \in admitted'
          BY <2>5
        <4> WITNESS <<p, a, t>> \in admitted'
        <4>3. QED BY <3>2, <4>1
      <3>3. CASE s = t.sid /\ q # p
        <4>1. /\ t.sid \in DOMAIN endpoints /\ t.sid \in DOMAIN sessions
              /\ q \in DOMAIN endpoints[t.sid] /\ endpoints'[s][q] = endpoints[s][q]
          BY <2>2, <2>3, <2>6, <3>3, EmptyIsMap DEF StoreMatchesEndpoints
        <4>2. QED BY <2>1, <2>4, <2>5, <3>3, <4>1 DEF AdmittedBack
      <3>4. QED BY <3>1, <3>2, <3>3
    <2>7. QED BY <2>6 DEF AdmittedBack
  <1>2. ASSUME NEW a \in Addrs, NEW sid \in Sids, NEW p \in Nodes, DetachAccepted(a, sid, p)
        PROVE  AdmittedBack'
    <2> DEFINE left == Remove(endpoints[sid], p)
    <2>1. sid \in DOMAIN endpoints
      BY <1>2 DEF DetachAccepted, BoundCheck
    <2>2. /\ DOMAIN left \subseteq DOMAIN endpoints[sid]
          /\ \A q \in DOMAIN left : left[q] = endpoints[sid][q]
      BY DEF Remove
    <2>3. CASE DOMAIN left = {}
      <3>1. /\ endpoints' = Remove(endpoints, sid) /\ sessions' = Remove(sessions, sid)
            /\ admitted' = {x \in admitted : x[3].sid # sid}
        BY <1>2, <2>3 DEF DetachAccepted
      <3>2. /\ DOMAIN endpoints' = DOMAIN endpoints \ {sid}
            /\ \A s \in DOMAIN endpoints' : endpoints'[s] = endpoints[s]
        BY <3>1 DEF Remove
      <3>3. \A s \in DOMAIN endpoints' : sessions'[s] = sessions[s]
        BY <3>1, <3>2 DEF Remove, StoreMatchesEndpoints
      <3>4. QED BY <3>1, <3>2, <3>3 DEF AdmittedBack
    <2>4. CASE DOMAIN left # {}
      <3>1. /\ endpoints' = Insert(endpoints, sid, left) /\ sessions' = sessions
            /\ admitted' = admitted
        BY <1>2, <2>4 DEF DetachAccepted
      <3>2. /\ DOMAIN endpoints' = DOMAIN endpoints
            /\ endpoints'[sid] = left
            /\ \A s \in DOMAIN endpoints : s # sid => endpoints'[s] = endpoints[s]
        <4> HIDE DEF left
        <4> QED BY <2>1, <3>1 DEF Insert
      <3>3. QED BY <2>1, <2>2, <3>1, <3>2 DEF AdmittedBack
    <2>5. QED BY <2>3, <2>4
  <1>3. ASSUME NEW sent, Exit(sent)
        PROVE  AdmittedBack'
    BY <1>3, EmptyIsMap DEF Exit, AdmittedBack
  <1>4. CASE Restart
    BY <1>4 DEF Restart, AdmittedBack, DownIsEmpty
  <1>5. CASE UNCHANGED <<sessions, endpoints, admitted>>
    BY <1>5 DEF AdmittedBack
  <1>6. QED
    BY <1>1, <1>2, <1>3, <1>4, <1>5
    DEF Next, vars, Attach, Detach, Forward, ForwardAccepted, AckFails, Refuse, Ping, ServeFails, Tick

\* What leaves the daemon comes from the endpoint table at that moment, and the
\* admissions behind it are still recorded after the step.
LEMMA ExchangeStep ==
    ASSUME AdmittedBack, ExchangeWithinTicket, [Next]_vars
    PROVE  ExchangeWithinTicket'
  <1>1. ASSUME NEW a, NEW sid, NEW p, NEW b,
               ForwardCheck(a, sid, p, b) = "ok", admitted' = admitted,
               NEW rest, \A i \in DOMAIN out' : out'[i] # rest =>
                   out'[i] = Packet(endpoints[sid][PeerOf(sessions[sid], p)], sid, p, b),
               rest.kind # "packet"
        PROVE  ExchangeWithinTicket'
    <2> DEFINE pk == Packet(endpoints[sid][PeerOf(sessions[sid], p)], sid, p, b)
    <2>1. /\ pk.from = p /\ pk.sid = sid
          /\ pk.to = endpoints[sid][PeerOf(sessions[sid], p)]
      BY DEF Packet
    <2>2. SUFFICES ASSUME NEW i \in DOMAIN out', out'[i] = pk
                   PROVE  \E x, y \in admitted :
                            /\ x[1] = pk.from
                            /\ y[2] = pk.to
                            /\ x[3].sid = pk.sid /\ y[3].sid = pk.sid
                            /\ SessionOf(x[3]) = SessionOf(y[3])
                            /\ y[1] = PeerOf(SessionOf(x[3]), x[1])
      <3> HIDE DEF pk
      <3> QED BY <1>1 DEF ExchangeWithinTicket, pk
    <2>3. /\ sid \in DOMAIN endpoints /\ p \in DOMAIN endpoints[sid]
          /\ PeerOf(sessions[sid], p) \in DOMAIN endpoints[sid]
      BY <1>1, ForwardFacts
    <2> HIDE DEF pk
    <2>4. QED BY <2>1, <2>3, PacketFromTable
  <1>2. ASSUME NEW a, NEW sid, NEW p, NEW b, ForwardAccepted(a, sid, p, b)
        PROVE  ExchangeWithinTicket'
    <2> DEFINE q == PeerOf(sessions[sid], p)
    <2>1. /\ Forwarded(a, sid, q, b).kind # "packet"
          /\ ForwardCheck(a, sid, p, b) = "ok" /\ admitted' = admitted
      BY <1>2 DEF Forwarded, ForwardAccepted
    <2>2. out' = <<Packet(endpoints[sid][q], sid, p, b), Forwarded(a, sid, q, b)>>
      BY <1>2 DEF ForwardAccepted
    <2>3. \A i \in DOMAIN out' : out'[i] # Forwarded(a, sid, q, b)
             => out'[i] = Packet(endpoints[sid][q], sid, p, b)
      BY <2>2
    <2>4. QED BY <1>1, <2>1, <2>3
  <1>3. ASSUME NEW a, NEW sid, NEW p, NEW b, AckFails(a, sid, p, b)
        PROVE  ExchangeWithinTicket'
    <2> DEFINE q == PeerOf(sessions[sid], p)
    <2>1. /\ out' = <<Packet(endpoints[sid][q], sid, p, b)>>
          /\ ForwardCheck(a, sid, p, b) = "ok" /\ admitted' = admitted
      BY <1>3 DEF AckFails, Exit
    <2>2. Forwarded(a, sid, q, b).kind # "packet"
      BY DEF Forwarded
    <2>3. \A i \in DOMAIN out' : out'[i] # Forwarded(a, sid, q, b)
             => out'[i] = Packet(endpoints[sid][q], sid, p, b)
      BY <2>1
    <2>4. QED BY <1>1, <2>1, <2>2, <2>3
  <1>4. ASSUME NEW r, r.kind # "packet", out' = <<r>>
        PROVE  ExchangeWithinTicket'
    BY <1>4 DEF ExchangeWithinTicket
  <1>5. ASSUME NEW a \in Addrs, NEW p \in Nodes, NEW t \in Tickets, Attach(a, p, t)
        PROVE  ExchangeWithinTicket'
    BY <1>4, <1>5 DEF Attach, AttachAccepted, Refuse, Response, ErrorTo
  <1>6. ASSUME NEW a \in Addrs, NEW sid \in Sids, NEW p \in Nodes, Detach(a, sid, p)
        PROVE  ExchangeWithinTicket'
    <2>1. out' = <<Response(a, "detached", sid)>> \/ \E c : out' = <<ErrorTo(a, c)>>
      BY <1>6 DEF Detach, DetachAccepted, Refuse
    <2>2. QED BY <1>4, <2>1 DEF Response, ErrorTo
  <1>7. ASSUME NEW a \in Addrs, NEW sid \in Sids, NEW p \in Nodes,
               NEW b \in Payloads \cup {Empty, Garbled}, Forward(a, sid, p, b)
        PROVE  ExchangeWithinTicket'
    BY <1>2, <1>4, <1>7 DEF Forward, Refuse, ErrorTo
  <1>8. CASE \E a \in Addrs : Ping(a)
    BY <1>4, <1>8 DEF Ping
  <1>9. CASE ServeFails \/ Restart \/ Tick
    <2>1. out' = << >>
      BY <1>9 DEF ServeFails, Exit, Restart, Tick
    <2>2. QED BY <2>1 DEF ExchangeWithinTicket
  <1>10. CASE UNCHANGED vars
    BY <1>10 DEF vars, ExchangeWithinTicket
  <1>11. QED
    BY <1>3, <1>5, <1>6, <1>7, <1>8, <1>9, <1>10 DEF Next

\* A packet leaves the daemon only for an address admitted with a validated
\* ticket, as the peer of a sender admitted with a ticket of the same session,
\* whatever the participants attach, rebind and detach in between.  The packet
\* is read from the endpoint table, so the invariant that carries the proof is
\* AdmittedBack: each binding of that table still has its admission.
THEOREM ExchangesTicketed == Spec => []ExchangeWithinTicket
  <1>1. Init => AdmittedBack /\ DownIsEmpty /\ ExchangeWithinTicket
    BY EmptyIsMap DEF Init, AdmittedBack, DownIsEmpty, ExchangeWithinTicket
  <1>2. DownIsEmpty /\ [Next]_vars => DownIsEmpty'
    BY EmptyIsMap
    DEF DownIsEmpty, Next, vars, Attach, AttachAccepted, Detach, DetachAccepted, Forward,
        ForwardAccepted, AckFails, Refuse, Ping, ServeFails, Exit, Restart, Tick
  <1>3. QED
    BY <1>1, <1>2, TablesAgree, AdmittedBackStep, ExchangeStep, PTL DEF Spec
-----------------------------------------------------------------------------
(* The refinement of RelayService. *)

\* A step that sends one datagram that is no packet, or none, delivers nothing.
LEMMA NoDeliveryOne ==
    ASSUME NEW r, r.kind # "packet", out' = <<r>> \/ out' = << >>
    PROVE  Delivery' = {}
  <1>1. \A i \in DOMAIN out' : out'[i].kind # "packet"
    OBVIOUS
  <1>2. QED BY <1>1 DEF Delivery

\* Tables that do not change look the same to the service.
LEMMA SameTables ==
    ASSUME UNCHANGED <<sessions, endpoints>>
    PROVE  UNCHANGED <<Pact, Present>>
  BY DEF Pact, Present

\* A refused request is a quiet step of the service.
LEMMA RefuseQuiet ==
    ASSUME NEW a, NEW code, Refuse(a, code)
    PROVE  Service!Quiet
  <1>1. Delivery' = {}
    BY NoDeliveryOne DEF Refuse, ErrorTo
  <1>2. QED
    BY <1>1, SameTables DEF Refuse, Service!Quiet

\* An accepted attach is a join of the ticket's pact.
LEMMA AttachJoins ==
    ASSUME TypeOK, StoreMatchesEndpoints,
           NEW a \in Addrs, NEW p \in Nodes, NEW t \in Tickets, AttachAccepted(a, p, t)
    PROVE  Service!Join(t.sid, SessionOf(t), p, a)
  <1> DEFINE old == IF t.sid \in DOMAIN endpoints THEN endpoints[t.sid] ELSE EmptyMap
             new == Insert(old, p, a)
  <1>1. /\ p \in {t.src, t.dst} /\ t.sid \in Sids
        /\ t.sid \in DOMAIN sessions => sessions[t.sid] = SessionOf(t)
    BY TicketFields DEF AttachAccepted, AttachCheck
  <1>2. Pact[t.sid] \in {NoPact, SessionOf(t)}
    BY <1>1 DEF Pact
  <1>3. p \in {SessionOf(t).src, SessionOf(t).dst}
    BY <1>1 DEF SessionOf
  <1>4. Pact' = [Pact EXCEPT ![t.sid] = SessionOf(t)]
    <2>1. /\ DOMAIN sessions' = DOMAIN sessions \cup {t.sid}
          /\ sessions'[t.sid] = SessionOf(t)
          /\ \A s \in DOMAIN sessions : s # t.sid => sessions'[s] = sessions[s]
      BY <1>1 DEF AttachAccepted, Insert
    <2>2. QED BY <1>1, <2>1 DEF Pact
  <1>5. Present' = [Present EXCEPT ![t.sid][p] = a]
    <2>1. /\ DOMAIN new = DOMAIN old \cup {p} /\ new[p] = a
          /\ \A q \in DOMAIN old : q # p => new[q] = old[q]
      BY DEF Insert
    <2>2. /\ DOMAIN endpoints' = DOMAIN endpoints \cup {t.sid}
          /\ endpoints'[t.sid] = new
          /\ \A s \in DOMAIN endpoints : s # t.sid => endpoints'[s] = endpoints[s]
      <3>1. endpoints' = Insert(endpoints, t.sid, new)
        BY DEF AttachAccepted
      <3> HIDE DEF new
      <3>2. QED BY <3>1 DEF Insert
    <2>3. ASSUME NEW s \in Sids, NEW q \in Nodes
          PROVE  Present'[s][q] = IF s = t.sid /\ q = p THEN a ELSE Present[s][q]
      <3> HIDE DEF new
      <3>1. CASE s # t.sid
        BY <2>2, <3>1 DEF Present
      <3>2. CASE s = t.sid /\ t.sid \in DOMAIN endpoints
        BY <2>1, <2>2, <3>2 DEF Present
      <3>3. CASE s = t.sid /\ t.sid \notin DOMAIN endpoints
        BY <2>1, <2>2, <3>3, EmptyIsMap DEF Present
      <3>4. QED BY <3>1, <3>2, <3>3
    <2>4. \A s \in Sids :
             Present'[s] = IF s = t.sid THEN [Present[s] EXCEPT ![p] = a] ELSE Present[s]
      BY <2>3 DEF Present
    <2>5. DOMAIN Present = Sids /\ Present' = [s \in Sids |-> Present'[s]]
      BY DEF Present
    <2>6. Present' = [Present EXCEPT ![t.sid] = [Present[t.sid] EXCEPT ![p] = a]]
      <3> HIDE DEF Present
      <3> QED BY <1>1, <2>4, <2>5
    <2>7. QED BY <2>6
  <1>6. Delivery' = {}
    BY NoDeliveryOne DEF AttachAccepted, Response
  <1>7. QED
    BY <1>2, <1>3, <1>4, <1>5, <1>6 DEF Service!Join

\* An accepted detach is a leave, and the last one ends the pact.
LEMMA DetachLeaves ==
    ASSUME TypeOK, StoreMatchesEndpoints,
           NEW a \in Addrs, NEW sid \in Sids, NEW p \in Nodes, DetachAccepted(a, sid, p)
    PROVE  Service!Leave(sid, p)
  <1> DEFINE left == Remove(endpoints[sid], p)
  <1>1. sid \in DOMAIN endpoints /\ sid \in DOMAIN sessions /\ p \in DOMAIN endpoints[sid]
    BY DEF DetachAccepted, BoundCheck, StoreMatchesEndpoints
  <1>2. /\ DOMAIN left = DOMAIN endpoints[sid] \ {p}
        /\ \A q \in DOMAIN left : left[q] = endpoints[sid][q]
    BY DEF Remove
  <1>3. \A q \in DOMAIN endpoints[sid] : q \in Nodes /\ endpoints[sid][q] \in Addrs
    <2>1. endpoints[sid] \in Maps(Nodes, Addrs)
      BY <1>1, MapValues DEF TypeOK
    <2>2. QED BY <2>1, MapValues
  <1>4. Present[sid][p] # NoAddr
    BY <1>1, <1>3, NoAddrAssumption DEF Present
  <1>5. \A s \in Sids : s # sid =>
           /\ s \in DOMAIN endpoints' <=> s \in DOMAIN endpoints
           /\ s \in DOMAIN sessions' <=> s \in DOMAIN sessions
           /\ s \in DOMAIN endpoints => endpoints'[s] = endpoints[s]
           /\ s \in DOMAIN sessions => sessions'[s] = sessions[s]
    <2> HIDE DEF left
    <2>1. CASE DOMAIN left = {}
      BY <2>1 DEF DetachAccepted, Remove, left
    <2>2. CASE DOMAIN left # {}
      <3>1. endpoints' = Insert(endpoints, sid, left) /\ sessions' = sessions
        BY <2>2 DEF DetachAccepted, left
      <3>2. QED BY <3>1 DEF Insert
    <2>3. QED BY <2>1, <2>2
  <1>6. /\ sid \in DOMAIN endpoints' <=> DOMAIN left # {}
        /\ sid \in DOMAIN sessions' <=> DOMAIN left # {}
        /\ sid \in DOMAIN endpoints' => endpoints'[sid] = left
        /\ sid \in DOMAIN sessions' => sessions'[sid] = sessions[sid]
    <2> HIDE DEF left
    <2>1. CASE DOMAIN left = {}
      BY <2>1 DEF DetachAccepted, Remove, left
    <2>2. CASE DOMAIN left # {}
      <3>1. endpoints' = Insert(endpoints, sid, left) /\ sessions' = sessions
        BY <2>2 DEF DetachAccepted, left
      <3>2. QED BY <1>1, <2>2, <3>1 DEF Insert
    <2>3. QED BY <2>1, <2>2
  <1>7. Present' = [Present EXCEPT ![sid][p] = NoAddr]
    <2>1. ASSUME NEW s \in Sids, NEW q \in Nodes
          PROVE  Present'[s][q] = IF s = sid /\ q = p THEN NoAddr ELSE Present[s][q]
      <3> HIDE DEF left
      <3>1. CASE s # sid
        BY <1>5, <3>1 DEF Present
      <3>2. CASE s = sid
        BY <1>1, <1>2, <1>6, <3>2 DEF Present
      <3>3. QED BY <3>1, <3>2
    <2>2. \A s \in Sids :
             Present'[s] = IF s = sid THEN [Present[s] EXCEPT ![p] = NoAddr] ELSE Present[s]
      BY <2>1 DEF Present
    <2>3. QED BY <2>2 DEF Present
  <1>8. Present'[sid] = Service!Nobody <=> DOMAIN left = {}
    <2> HIDE DEF left
    <2>1. ASSUME DOMAIN left = {}
          PROVE  Present'[sid] = Service!Nobody
      BY <1>6, <2>1 DEF Present, Service!Nobody
    <2>2. ASSUME NEW q \in DOMAIN left
          PROVE  Present'[sid] # Service!Nobody
      <3>1. q \in Nodes /\ left[q] \in Addrs
        BY <1>2, <1>3, <2>2
      <3>2. Present'[sid][q] = left[q]
        BY <1>6, <2>2, <3>1 DEF Present
      <3>3. QED BY <3>1, <3>2, NoAddrAssumption DEF Service!Nobody
    <2>3. QED BY <2>1, <2>2
  <1>9. Pact' = IF Present'[sid] = Service!Nobody THEN [Pact EXCEPT ![sid] = NoPact] ELSE Pact
    <2> HIDE DEF left
    <2>1. CASE DOMAIN left = {}
      <3>1. Pact' = [Pact EXCEPT ![sid] = NoPact]
        BY <1>5, <1>6, <2>1 DEF Pact
      <3>2. QED BY <1>8, <2>1, <3>1
    <2>2. CASE DOMAIN left # {}
      <3>1. Pact' = Pact
        BY <1>1, <1>5, <1>6, <2>2 DEF Pact
      <3>2. QED BY <1>8, <2>2, <3>1
    <2>3. QED BY <2>1, <2>2
  <1>10. Delivery' = {}
    <2>1. out' = <<Response(a, "detached", sid)>> \/ \E c : out' = <<ErrorTo(a, c)>>
      BY DEF DetachAccepted
    <2>2. QED BY <2>1, NoDeliveryOne DEF Response, ErrorTo
  <1>11. QED
    BY <1>4, <1>7, <1>9, <1>10 DEF Service!Leave

\* The datagrams of an accepted forward, with or without the acknowledgement,
\* hand the payload over between the present parties of the pact.
LEMMA ForwardHandsOver ==
    ASSUME TypeOK, NEW a \in Addrs, NEW sid \in Sids, NEW p \in Nodes,
           NEW b \in Payloads \cup {Empty, Garbled}, ForwardCheck(a, sid, p, b) = "ok",
           NEW pk, pk = Packet(endpoints[sid][PeerOf(sessions[sid], p)], sid, p, b),
           \/ out' = <<pk>>
           \/ out' = <<pk, Forwarded(a, sid, PeerOf(sessions[sid], p), b)>>
    PROVE  Service!Handover
  <1> DEFINE q == PeerOf(sessions[sid], p)
  <1>1. /\ sid \in DOMAIN endpoints /\ sid \in DOMAIN sessions
        /\ p \in DOMAIN endpoints[sid] /\ q \in DOMAIN endpoints[sid]
        /\ Involves(sessions[sid], p) /\ b \in Payloads
    BY ForwardFacts
  <1>2. sessions[sid] \in SessionType /\ endpoints[sid] \in Maps(Nodes, Addrs)
    BY <1>1, MapValues DEF TypeOK
  <1>3. q \in Nodes /\ endpoints[sid][p] \in Addrs /\ endpoints[sid][q] \in Addrs
    BY <1>1, <1>2, MapValues
  <1>4. Pact[sid] = sessions[sid] /\ Pact[sid] # NoPact
    BY <1>1, <1>2, NoPactAssumption DEF Pact
  <1>5. <<p, q>> \in {<<Pact[sid].src, Pact[sid].dst>>, <<Pact[sid].dst, Pact[sid].src>>}
    BY <1>1, <1>4 DEF Involves, PeerOf
  <1>6. /\ Present[sid][p] # NoAddr /\ Present[sid][q] # NoAddr
        /\ Present[sid][q] = endpoints[sid][q]
    BY <1>1, <1>3, NoAddrAssumption DEF Present
  <1>7. Delivery' = {[to |-> Present[sid][q], sid |-> sid, from |-> p, payload |-> b]}
    <2>1. /\ pk.kind = "packet" /\ pk.to = endpoints[sid][q] /\ pk.sid = sid
          /\ pk.from = p /\ pk.payload = b
      BY DEF Packet
    <2>2. Forwarded(a, sid, q, b).kind # "packet"
      BY DEF Forwarded
    <2>3. {j \in DOMAIN out' : out'[j].kind = "packet"} = {1} /\ out'[1] = pk
      BY <2>1, <2>2
    <2>4. QED BY <1>6, <2>1, <2>3 DEF Delivery
  <1>8. Service!Exchange(sid, p, q, b)
    BY <1>4, <1>5, <1>6, <1>7 DEF Service!Exchange
  <1>9. QED
    BY <1>1, <1>3, <1>8 DEF Service!Handover

\* When the process ends, the service has forgotten everything.
LEMMA ExitForgets ==
    ASSUME NEW sent, Exit(sent)
    PROVE  Service!Forget
  BY EmptyIsMap DEF Exit, Service!Forget, Service!Nobody, Pact, Present

\* Every step of the daemon is a step of the service.
LEMMA StepRefines ==
    ASSUME TypeOK, StoreMatchesEndpoints, [Next]_vars
    PROVE  [Service!Next]_(Service!vars)
  <1>1. ASSUME NEW a \in Addrs, NEW p \in Nodes, NEW t \in Tickets, Attach(a, p, t)
        PROVE  Service!Next
    <2>1. CASE AttachAccepted(a, p, t)
      <3>1. Service!Join(t.sid, SessionOf(t), p, a)
        BY <2>1, AttachJoins
      <3>2. t.sid \in Sids /\ SessionOf(t) \in Service!Pacts
        BY TicketFields DEF SessionType, Service!Pacts
      <3>3. QED BY <3>1, <3>2 DEF Service!Next
    <2>2. CASE ~AttachAccepted(a, p, t)
      BY <1>1, <2>2, RefuseQuiet DEF Attach, Service!Next
    <2>3. QED BY <2>1, <2>2
  <1>2. ASSUME NEW a \in Addrs, NEW sid \in Sids, NEW p \in Nodes, Detach(a, sid, p)
        PROVE  Service!Next
    BY <1>2, DetachLeaves, RefuseQuiet DEF Detach, Service!Next
  <1>3. ASSUME NEW a \in Addrs, NEW sid \in Sids, NEW p \in Nodes,
               NEW b \in Payloads \cup {Empty, Garbled}, Forward(a, sid, p, b)
        PROVE  Service!Next
    <2>1. CASE ForwardAccepted(a, sid, p, b)
      <3>1. Service!Handover
        BY <2>1, ForwardHandsOver DEF ForwardAccepted
      <3>2. UNCHANGED <<Pact, Present>>
        BY <2>1, SameTables DEF ForwardAccepted
      <3>3. QED BY <3>1, <3>2 DEF Service!Next
    <2>2. CASE ~ForwardAccepted(a, sid, p, b)
      BY <1>3, <2>2, RefuseQuiet DEF Forward, Service!Next
    <2>3. QED BY <2>1, <2>2
  <1>4. ASSUME NEW a \in Addrs, NEW sid \in Sids, NEW p \in Nodes,
               NEW b \in Payloads \cup {Empty, Garbled}, AckFails(a, sid, p, b)
        PROVE  Service!Next
    <2>1. Service!Handover
      BY <1>4, ForwardHandsOver DEF AckFails, Exit
    <2>2. Service!Forget
      BY <1>4, ExitForgets DEF AckFails
    <2>3. QED BY <2>1, <2>2 DEF Service!Next
  <1>5. CASE ServeFails
    <2>1. Delivery' = {}
      BY <1>5 DEF ServeFails, Exit, Delivery
    <2>2. QED BY <1>5, <2>1, ExitForgets DEF ServeFails, Service!Next
  <1>6. CASE (\E a \in Addrs : Ping(a)) \/ Restart \/ Tick
    <2>1. UNCHANGED <<Pact, Present>>
      BY <1>6, SameTables DEF Ping, Restart, Tick
    <2>2. Delivery' = {}
      <3>1. PICK r : r.kind # "packet" /\ (out' = <<r>> \/ out' = << >>)
        <4>1. [kind |-> "pong"].kind # "packet"
          OBVIOUS
        <4>2. QED BY <1>6, <4>1 DEF Ping, Restart, Tick
      <3>2. QED BY <3>1, NoDeliveryOne
    <2>3. QED BY <2>1, <2>2 DEF Service!Next, Service!Quiet
  <1>7. CASE UNCHANGED vars
    <2>1. UNCHANGED <<Pact, Present, Delivery>>
      BY <1>7 DEF vars, Pact, Present, Delivery
    <2>2. QED BY <2>1 DEF Service!vars
  <1>8. QED
    BY <1>1, <1>2, <1>3, <1>4, <1>5, <1>6, <1>7 DEF Next

\* The daemon implements RelayService: its initial state is the service's, and
\* every step is one of the service's or leaves what the service sees alone.
\* The two tables must agree for it (TablesAgree): a session whose endpoints
\* and store differ would be a pact nobody is party to.
THEOREM DaemonImplementsService == Spec => ImplementsService
  <1>1. Init => Service!Init
    BY EmptyIsMap DEF Init, Service!Init, Service!Nobody, Pact, Present, Delivery
  <1>2. QED
    BY <1>1, TypeCorrect, TablesAgree, StepRefines, PTL DEF Spec, ImplementsService, Service!Spec
=============================================================================
