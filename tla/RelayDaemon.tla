---------------------------- MODULE RelayDaemon ----------------------------
(***************************************************************************)
(* server/server-relay: one UDP relay daemon.  The process is a single     *)
(* loop: receive a datagram, decode it, handle it, send the peer packet    *)
(* and then the response.  Its only state is in memory: the session store  *)
(* (crate session) and the address each participant attached from (crate   *)
(* relay-daemon), and both are lost when the process ends.                 *)
(***************************************************************************)
EXTENDS Naturals, Sequences

CONSTANTS Nodes,      \* participant (node) ids
          Sids,       \* relay session ids
          Networks,   \* network ids
          Addrs,      \* UDP source addresses
          Tickets,    \* the tickets that can be presented, genuine or not
          Payloads,   \* decoded payloads
          Empty,      \* the payload of length 0
          Garbled,    \* a payload_b64 that does not decode
          MaxNow      \* bound on the clock

\* A ticket keeps the fields the relay looks at.  filled, here, dated and
\* genuine say whether the required fields are there, the url has the prefix
\* of this relay, expires_at can be parsed and the signature is the right one.
TicketType == [sid : Sids, net : Networks, src : Nodes, dst : Nodes, exp : Nat,
               filled : BOOLEAN, here : BOOLEAN, dated : BOOLEAN, genuine : BOOLEAN]

\* relay_core::RelaySession; the session id is the key of the store.
SessionType == [net : Networks, src : Nodes, dst : Nodes]

ASSUME TicketsAssumption == Tickets \subseteq TicketType
ASSUME MaxNowAssumption == MaxNow \in Nat

VARIABLES up,        \* the process is running
          sessions,  \* InMemorySessionStore: session id -> RelaySession
          endpoints, \* RelayRuntime.endpoints: session id -> participant -> address
          now,       \* unix time, in seconds
          out,       \* what the last datagram made the daemon send, in order
          admitted   \* history: <<participant, address, ticket>> of every attach
                     \* accepted since the session was created

vars == <<up, sessions, endpoints, now, out, admitted>>
-----------------------------------------------------------------------------
\* HashMap: insert (overwriting) and remove.
Insert(f, k, v) == [x \in DOMAIN f \cup {k} |-> IF x = k THEN v ELSE f[x]]
Remove(f, k) == [x \in DOMAIN f \ {k} |-> f[x]]
EmptyMap == [x \in {} |-> x]

\* Mutant: the source node is copied into the network field.
SessionOfWrongField(t) == [net |-> t.src, src |-> t.src, dst |-> t.dst]
SessionOf(t) == [net |-> t.net, src |-> t.src, dst |-> t.dst]
Involves(s, p) == p \in {s.src, s.dst}
PeerOf(s, p) == IF p = s.src THEN s.dst ELSE s.src

Response(to, kind, sid) == [to |-> to, kind |-> kind, sid |-> sid]
ErrorTo(to, code) == [to |-> to, kind |-> "error", code |-> code]
\* ServerResponse::Packet, and the acknowledgement of a forward.
Packet(to, sid, from, payload) ==
    [to |-> to, kind |-> "packet", sid |-> sid, from |-> from, payload |-> payload]
Forwarded(to, sid, peer, payload) ==
    [to |-> to, kind |-> "forwarded", sid |-> sid, peer |-> peer, payload |-> payload]

IsExpired(t) == now >= t.exp

\* StaticTicketValidator::validate: required fields, relay url prefix,
\* expiration, signature, in that order.
Validate(t) ==
    IF ~t.filled \/ ~t.here THEN "invalid_ticket"
    ELSE IF ~t.dated THEN "invalid_timestamp"
    ELSE IF IsExpired(t) THEN "ticket_expired"
    ELSE IF ~t.genuine THEN "invalid_signature"
    ELSE "ok"

\* Mutant: an existing session is joined without comparing its parties.
AttachCheckNoConflict(p, t) ==
    IF p \notin {t.src, t.dst} THEN "participant_not_in_ticket" ELSE Validate(t)
AttachCheck(p, t) ==
    IF p \notin {t.src, t.dst} THEN "participant_not_in_ticket"
    ELSE IF Validate(t) # "ok" THEN Validate(t)
    ELSE IF t.sid \in DOMAIN sessions /\ sessions[t.sid] # SessionOf(t)
         THEN "session_conflict"
    ELSE "ok"

\* The three checks detach and forward share: the session has endpoints, the
\* participant is one of them, and it sends from the address it attached from.
BoundCheck(a, sid, p) ==
    IF sid \notin DOMAIN endpoints THEN "session_not_attached"
    ELSE IF p \notin DOMAIN endpoints[sid] THEN "participant_not_attached"
    ELSE IF endpoints[sid][p] # a THEN "participant_address_mismatch"
    ELSE "ok"

\* Mutant: an empty payload is relayed like any other.
ForwardCheckNoEmpty(a, sid, p, payload) ==
    IF BoundCheck(a, sid, p) # "ok" THEN BoundCheck(a, sid, p)
    ELSE IF payload = Garbled THEN "invalid_payload_b64"
    ELSE IF PeerOf(sessions[sid], p) \notin DOMAIN endpoints[sid] THEN "peer_not_attached"
    ELSE "ok"

\* UdpRelay::forward and the lookup of the peer's address.
ForwardCheck(a, sid, p, payload) ==
    IF BoundCheck(a, sid, p) # "ok" THEN BoundCheck(a, sid, p)
    ELSE IF payload = Garbled THEN "invalid_payload_b64"
    ELSE IF payload = Empty THEN "empty_payload"
    ELSE IF sid \notin DOMAIN sessions THEN "session_not_found"
    ELSE IF ~Involves(sessions[sid], p) THEN "unauthorized_peer"
    ELSE IF PeerOf(sessions[sid], p) \notin DOMAIN endpoints[sid] THEN "peer_not_attached"
    ELSE "ok"
-----------------------------------------------------------------------------
Init ==
    /\ up = TRUE
    /\ sessions = EmptyMap
    /\ endpoints = EmptyMap
    /\ now = 0
    /\ out = << >>
    /\ admitted = {}

\* The daemon answers from address a with an error and changes nothing else.
Refuse(a, code) ==
    /\ out' = <<ErrorTo(a, code)>>
    /\ UNCHANGED <<up, sessions, endpoints, now, admitted>>

\* RelayRuntime::handle_attach, accepted: the session is created unless the
\* same one is stored already, and the participant is (re)bound to a.
AttachAccepted(a, p, t) ==
    /\ AttachCheck(p, t) = "ok"
    /\ sessions' = IF t.sid \in DOMAIN sessions THEN sessions
                   ELSE Insert(sessions, t.sid, SessionOf(t))
    /\ endpoints' = Insert(endpoints, t.sid,
                           Insert(IF t.sid \in DOMAIN endpoints THEN endpoints[t.sid]
                                  ELSE EmptyMap, p, a))
    /\ out' = <<Response(a, "attached", t.sid)>>
    /\ admitted' = admitted \cup {<<p, a, t>>}
    /\ UNCHANGED <<up, now>>

Attach(a, p, t) ==
    /\ up
    /\ \/ AttachAccepted(a, p, t)
       \/ /\ AttachCheck(p, t) # "ok"
          /\ Refuse(a, AttachCheck(p, t))

\* Mutant: the last detach drops the endpoints but leaves the stored session.
DetachKeepsSession(a, sid, p) ==
    /\ BoundCheck(a, sid, p) = "ok"
    /\ LET left == Remove(endpoints[sid], p) IN
         endpoints' = IF DOMAIN left = {} THEN Remove(endpoints, sid)
                      ELSE Insert(endpoints, sid, left)
    /\ out' = <<Response(a, "detached", sid)>>
    /\ UNCHANGED <<up, now, sessions, admitted>>

\* RelayRuntime::handle_detach, accepted.  The last participant to leave
\* takes the endpoints entry and the stored session with it.
DetachAccepted(a, sid, p) ==
    /\ BoundCheck(a, sid, p) = "ok"
    /\ LET left == Remove(endpoints[sid], p) IN
         IF DOMAIN left = {}
         THEN /\ endpoints' = Remove(endpoints, sid)
              /\ sessions' = Remove(sessions, sid)
              /\ admitted' = {x \in admitted : x[3].sid # sid}
              /\ out' = IF sid \in DOMAIN sessions
                        THEN <<Response(a, "detached", sid)>>
                        ELSE <<ErrorTo(a, "session_not_found")>>
         ELSE /\ endpoints' = Insert(endpoints, sid, left)
              /\ out' = <<Response(a, "detached", sid)>>
              /\ UNCHANGED <<sessions, admitted>>
    /\ UNCHANGED <<up, now>>

Detach(a, sid, p) ==
    /\ up
    /\ \/ DetachAccepted(a, sid, p)
       \/ /\ BoundCheck(a, sid, p) # "ok"
          /\ Refuse(a, BoundCheck(a, sid, p))

\* RelayRuntime::handle_forward, accepted: the packet goes to the address
\* bound to the peer, then the acknowledgement goes to the sender.
ForwardAccepted(a, sid, p, payload) ==
    /\ ForwardCheck(a, sid, p, payload) = "ok"
    /\ LET peer == PeerOf(sessions[sid], p) IN
         out' = <<Packet(endpoints[sid][peer], sid, p, payload),
                  Forwarded(a, sid, peer, payload)>>
    /\ UNCHANGED <<up, sessions, endpoints, now, admitted>>

Forward(a, sid, p, payload) ==
    /\ up
    /\ \/ ForwardAccepted(a, sid, p, payload)
       \/ /\ ForwardCheck(a, sid, p, payload) # "ok"
          /\ Refuse(a, ForwardCheck(a, sid, p, payload))

Ping(a) ==
    /\ up
    /\ out' = <<[to |-> a, kind |-> "pong"]>>
    /\ UNCHANGED <<up, sessions, endpoints, now, admitted>>

\* serve() returns an error, main exits and everything the process held is
\* gone; sent is what left the socket before that.
Exit(sent) ==
    /\ up
    /\ up' = FALSE
    /\ sessions' = EmptyMap
    /\ endpoints' = EmptyMap
    /\ out' = sent
    /\ UNCHANGED <<now, admitted>>

\* A datagram that is not a ClientRequest, a failed receive, or a failed first
\* send ends the loop.
ServeFails == Exit(<< >>)

\* The packet has gone to the peer and the acknowledgement cannot be sent.
AckFails(a, sid, p, payload) ==
    /\ ForwardCheck(a, sid, p, payload) = "ok"
    /\ Exit(<<Packet(endpoints[sid][PeerOf(sessions[sid], p)], sid, p, payload)>>)

\* An operator starts the process again: RelayRuntime::new.
Restart ==
    /\ ~up
    /\ up' = TRUE
    /\ out' = << >>
    /\ admitted' = {}
    /\ UNCHANGED <<sessions, endpoints, now>>

Tick ==
    /\ now < MaxNow
    /\ now' = now + 1
    /\ out' = << >>
    /\ UNCHANGED <<up, sessions, endpoints, admitted>>

Next ==
    \/ \E a \in Addrs, p \in Nodes, t \in Tickets : Attach(a, p, t)
    \/ \E a \in Addrs, sid \in Sids, p \in Nodes : Detach(a, sid, p)
    \/ \E a \in Addrs, sid \in Sids, p \in Nodes, b \in Payloads \cup {Empty, Garbled} :
           Forward(a, sid, p, b) \/ AckFails(a, sid, p, b)
    \/ \E a \in Addrs : Ping(a)
    \/ ServeFails
    \/ Restart
    \/ Tick

Spec == Init /\ [][Next]_vars
-----------------------------------------------------------------------------
\* The maps with keys in D and values in R.
Maps(D, R) == UNION {[S -> R] : S \in SUBSET D}

\* The tables of the daemon hold sessions and addresses under known ids.
TypeOK ==
    /\ up \in BOOLEAN
    /\ sessions \in Maps(Sids, SessionType)
    /\ endpoints \in Maps(Sids, Maps(Nodes, Addrs))
    /\ now \in Nat
    /\ admitted \subseteq Nodes \X Addrs \X Tickets

\* The session store (crate session) and the endpoint table (crate
\* relay-daemon) are written by different code on attach and detach; they
\* always hold the same sessions, a stored session has at least one attached
\* participant, and only the two parties of a session are ever attached.
StoreMatchesEndpoints ==
    /\ DOMAIN sessions = DOMAIN endpoints
    /\ \A sid \in DOMAIN endpoints :
          /\ DOMAIN endpoints[sid] # {}
          /\ \A p \in DOMAIN endpoints[sid] : Involves(sessions[sid], p)

\* Whatever addresses participants rebind, leave and return from: a packet
\* leaves the daemon only for an address that was admitted with a validated
\* ticket, as the peer of a sender admitted with a ticket of the same session,
\* network and pair of nodes.
ExchangeWithinTicket ==
    \A i \in DOMAIN out : out[i].kind = "packet" =>
        \E x, y \in admitted :
            /\ x[1] = out[i].from
            /\ y[2] = out[i].to
            /\ x[3].sid = out[i].sid /\ y[3].sid = out[i].sid
            /\ SessionOf(x[3]) = SessionOf(y[3])
            /\ y[1] = PeerOf(SessionOf(x[3]), x[1])
-----------------------------------------------------------------------------
CONSTANTS NoPact, NoAddr

ASSUME NoPactAssumption == NoPact \notin SessionType
ASSUME NoAddrAssumption == NoAddr \notin Addrs

\* The daemon's tables as the promise of RelayService sees them.
Pact == [sid \in Sids |-> IF sid \in DOMAIN sessions THEN sessions[sid] ELSE NoPact]
Present ==
    [sid \in Sids |-> [p \in Nodes |->
        IF sid \in DOMAIN endpoints /\ p \in DOMAIN endpoints[sid]
        THEN endpoints[sid][p] ELSE NoAddr]]
Delivery ==
    {[to |-> out[i].to, sid |-> out[i].sid, from |-> out[i].from, payload |-> out[i].payload]
     : i \in {j \in DOMAIN out : out[j].kind = "packet"}}

Service == INSTANCE RelayService WITH pact <- Pact, present <- Present, delivery <- Delivery

\* The daemon implements RelayService: with its two tables, its error paths
\* and its failures, every datagram is a join, a leave, an exchange between
\* the present parties of one pact, the loss of everything, or no change.
ImplementsService == Service!Spec
=============================================================================
