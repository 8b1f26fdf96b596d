----------------------------- MODULE ClientPaths -----------------------------
(***************************************************************************)
(* client/app_core: how a connected device reaches its peer.  A connect     *)
(* tries a direct stream, then the pool of DERP links if the bootstrap      *)
(* names a cluster, else a session of the relay daemon; the path manager    *)
(* remembers which of them carries packets, and the snapshot what connect   *)
(* reported.  Calls run one after the other; between and during them the    *)
(* network fails, delays, duplicates and loses what it carries, and the     *)
(* process ends: a command line then leaves its snapshot to the next one.   *)
(***************************************************************************)
EXTENDS Naturals, Sequences

CONSTANTS Peers,      \* nodes this device may connect to
          Nodes,      \* DERP nodes
          Priority,   \* node -> its priority, the lowest is preferred
          Clusters,   \* DERP clusters: records [nodes, fanout]
          Sizes,      \* lengths of packets
          MaxSends,   \* bound on packets this device sends in a relay session
          MaxPackets, \* bound on packets of the peer waiting at the relay socket
          MaxConnects,\* bound on connects
          Nil

ASSUME PriorityAssumption == Priority \in [Nodes -> Nat]
ASSUME ClustersAssumption == Clusters \subseteq [nodes : Seq(Nodes) \ {<<>>}, fanout : Nat]
ASSUME SizesAssumption == Sizes \subseteq Nat
ASSUME BoundsAssumption == MaxSends \in Nat /\ MaxPackets \in Nat /\ MaxConnects \in Nat
ASSUME NilAssumption == Nil \notin Peers \cup Nodes

VARIABLES call,      \* the call being served: its stage, peer, packet length and number
          stream,    \* peer of the connector's direct stream, or Nil
          relay,     \* peer of the session the relay client is attached to, or Nil
          pool,      \* DERP pool: installed ticket (its peer), active node, links
          path,      \* active path of the path manager
          snap,      \* snapshot: connection state, active path, path of the last probe
          saved,     \* the snapshot in the command line's state file
          net,       \* requests of the session on their way to the relay daemon
          inbox,     \* datagrams waiting at the session's socket
          forwarded, \* history: packets of the session the daemon forwarded
          confirmed, \* history: the last packet reported as sent in the session
          sends,     \* number of packets sent in the session
          connects,  \* number of connects
          goal       \* history: peer of the last connect of this process, once it succeeded
vars == <<call, stream, relay, pool, path, snap, saved, net, inbox, forwarded, confirmed, sends,
          connects, goal>>
data == <<net, inbox, forwarded, confirmed, sends>>

NoPath == [kind |-> "none", peer |-> Nil, node |-> Nil]
P2P(p) == [kind |-> "p2p", peer |-> p, node |-> Nil]
Relay(p) == [kind |-> "relay", peer |-> p, node |-> Nil]
Derp(n) == [kind |-> "derp", peer |-> Nil, node |-> n]
Path == [kind : {"none", "p2p", "relay", "derp"}, peer : Peers \cup {Nil}, node : Nodes \cup {Nil}]

NoLink == [state |-> "absent", ticket |-> Nil]
Link == [state : {"absent", "connecting", "ready", "closed"}, ticket : Peers \cup {Nil}]
\* A link that is installed, one with a socket and a ticket, and a closed one.
Opening == [state |-> "connecting", ticket |-> Nil]
Attached(p) == [state |-> "ready", ticket |-> p]
Closed == [state |-> "closed", ticket |-> Nil]
NoPacket == [id |-> 0, size |-> 0]
Packet == [id : Nat, size : Nat]
Datagram == [kind : {"ack", "packet", "error"}, id : Nat, size : Nat]
Idle == [at |-> "idle", peer |-> Nil, size |-> 0, id |-> 0]
NoPool == [ticket |-> Nil, active |-> Nil, links |-> [n \in Nodes |-> NoLink]]
NoSnap == [state |-> "none", path |-> NoPath, probe |-> NoPath]

Init ==
    /\ call = Idle
    /\ stream = Nil
    /\ relay = Nil
    /\ pool = NoPool
    /\ path = NoPath
    /\ snap = NoSnap /\ saved = NoSnap
    /\ net = {} /\ inbox = {} /\ forwarded = {} /\ confirmed = NoPacket /\ sends = 0
    /\ connects = 0 /\ goal = Nil
-----------------------------------------------------------------------------
(* The path manager and the pool. *)

\* Mutants: a link is kept by its peer; the pool is not asked; the link of the
\* highest priority value is named instead of the one the pool sends on.
FallbackPathByPeer(p, pl) == IF pl.active # Nil THEN Derp(p) ELSE Relay(p)
FallbackPathRelay(p, pl) == Relay(p)
FallbackPathLast(p, pl) ==
    IF pl.active = Nil THEN Relay(p)
    ELSE Derp(CHOOSE n \in Nodes : /\ pl.links[n].state = "ready"
                                   /\ \A m \in Nodes : pl.links[m].state = "ready"
                                                       => Priority[m] <= Priority[n])
\* on_p2p_failed: whatever the pool has active, else the relay.
FallbackPath(p, pl) == IF pl.active # Nil THEN Derp(pl.active) ELSE Relay(p)

\* Mutant: links of the former cluster that are open are kept.
InstalledKept(p, c) == [n \in Nodes |-> IF pool.links[n].state = "ready" THEN pool.links[n]
                                         ELSE Opening]
\* install_cluster: every former link is closed and replaced.
Installed(p, c) ==
    [n \in Nodes |-> IF \E i \in DOMAIN c.nodes : c.nodes[i] = n
                     THEN Opening ELSE NoLink]

\* warm_up made the first k of its links ready; if these are all it wants,
\* the others are closed.
Warmed(links, p, c, k, all) ==
    [n \in Nodes |->
        CASE links[n].state = "ready" -> links[n]
          [] links[n].state # "ready" /\ \E i \in 1..k : c.nodes[i] = n -> Attached(p)
          [] all /\ links[n].state = "connecting" /\ ~\E i \in 1..k : c.nodes[i] = n -> Closed
          [] OTHER -> links[n]]

WarmCount(c) ==
    LET fanout == IF c.fanout = 0 THEN 1 ELSE c.fanout
    IN  IF fanout <= Len(c.nodes) THEN fanout ELSE Len(c.nodes)

\* choose_active_index: probes of this client never time out, so that the
\* score of a link is its priority.
Best(links) == {n \in Nodes : /\ links[n].state = "ready"
                              /\ \A m \in Nodes : links[m].state = "ready"
                                                  => Priority[n] <= Priority[m]}

\* tick_health_check probes the links, none of which times out, and
\* maybe_switch takes the best one, which warm_up chose already.
Switched(p, n, links) ==
    [ticket |-> p, active |-> IF n \in Best(links) THEN n ELSE CHOOSE m \in Best(links) : TRUE,
     links |-> links]
-----------------------------------------------------------------------------
(* connect. *)

At(stage) == call.at = stage
Goto(stage) == call' = [call EXCEPT !.at = stage]

Begins == At("idle") /\ connects < MaxConnects /\ connects' = connects + 1 /\ goal' = Nil

\* The call ends with an error: what it changed so far stays.
ConnectFails == call' = Idle

\* The direct stream to the peer's first endpoint is up.
ConnectDirect(p) ==
    /\ Begins
    /\ stream' = p
    /\ path' = P2P(p)
    /\ call' = [Idle EXCEPT !.at = "finalize", !.peer = p]
    /\ UNCHANGED <<relay, pool, snap, saved, data>>

\* It is not, or the peer has no endpoint; the relay may be forbidden to it.
ConnectFallsBack(p, tried, allowed) ==
    /\ Begins
    /\ path' = IF tried THEN FallbackPath(p, pool) ELSE path
    /\ IF allowed THEN call' = [Idle EXCEPT !.at = "fallback", !.peer = p] ELSE ConnectFails
    /\ UNCHANGED <<stream, relay, pool, snap, saved, data>>

\* connect_via_derp_pool: ticket, install_cluster, warm_up, tick_health_check,
\* maybe_switch and on_p2p_failed.
UseDerp(c) ==
    /\ At("fallback")
    /\ LET links == Warmed(Installed(call.peer, c), call.peer, c, WarmCount(c), TRUE)
       IN  \E n \in Best(links) :
              /\ pool' = Switched(call.peer, n, links)
              /\ path' = FallbackPath(call.peer, pool')
    /\ Goto("finalize")
    /\ UNCHANGED <<stream, relay, snap, saved, data, connects, goal>>

\* A link refuses: those before it stay open, and nothing is active.
DerpFails(c) ==
    /\ At("fallback")
    /\ \E k \in 0..(WarmCount(c) - 1) :
          pool' = [ticket |-> call.peer, active |-> Nil,
                   links |-> Warmed(Installed(call.peer, c), call.peer, c, k, FALSE)]
    /\ ConnectFails
    /\ UNCHANGED <<stream, relay, path, snap, saved, data, connects, goal>>

\* A session has a socket of its own: what belongs to the former one, answers
\* still on their way included, is out of reach.
NewSession == net' = {} /\ inbox' = {} /\ forwarded' = {} /\ confirmed' = NoPacket /\ sends' = 0

\* The relay daemon attached a new socket; the pool is not looked at.
UseRelay ==
    /\ At("fallback")
    /\ relay' = call.peer
    /\ NewSession
    /\ path' = FallbackPath(call.peer, pool)
    /\ Goto("finalize")
    /\ UNCHANGED <<stream, pool, snap, saved, connects, goal>>

\* No ticket, no answer, an error, or another datagram before the answer.
FallbackFails ==
    /\ At("fallback")
    /\ ConnectFails
    /\ UNCHANGED <<stream, relay, pool, path, snap, saved, data, connects, goal>>

\* finalize_connected_path, with the tunnel replaced.
Finalize ==
    /\ At("finalize")
    /\ snap' = [state |-> "connected", path |-> path, probe |-> NoPath]
    /\ goal' = call.peer
    /\ call' = Idle
    /\ UNCHANGED <<stream, relay, pool, path, saved, data, connects>>

FinalizeFails ==
    /\ At("finalize")
    /\ ConnectFails
    /\ UNCHANGED <<stream, relay, pool, path, snap, saved, data, connects, goal>>

\* disconnect leaves the path, the pool and the relay session as they are.
Disconnect ==
    /\ At("idle")
    /\ snap' = [state |-> "disconnected", path |-> NoPath, probe |-> NoPath]
    /\ UNCHANGED <<call, stream, relay, pool, path, saved, data, connects, goal>>
-----------------------------------------------------------------------------
(* probe and send. *)

\* The error is remembered, and nothing else changes.
SendFails == call' = Idle /\ UNCHANGED snap

\* Nothing is sent: an empty packet, no path, or no link or session behind it.
SendRefused(size) ==
    /\ At("idle")
    /\ \/ size = 0 \/ path.kind = "none"
       \/ path.kind = "derp" /\ pool.active = Nil
       \/ path.kind = "relay" /\ relay = Nil
    /\ SendFails
    /\ UNCHANGED <<stream, relay, pool, path, saved, data, connects, goal>>

\* The packet goes to the direct stream or the active DERP link: the socket
\* blocks and has no timeout for writes, so that the call stays here as long
\* as the other side takes nothing.
SendStream(size) ==
    /\ At("idle") /\ size > 0
    /\ path.kind = "p2p" \/ (path.kind = "derp" /\ pool.active # Nil)
    /\ call' = [Idle EXCEPT !.at = "write", !.size = size]
    /\ UNCHANGED <<stream, relay, pool, path, snap, saved, data, connects, goal>>

\* write_all returns: the socket took the packet, or broke.
Written(ok) ==
    /\ At("write")
    /\ IF ok THEN Goto("poll") /\ UNCHANGED snap ELSE SendFails
    /\ UNCHANGED <<stream, relay, pool, path, saved, data, connects, goal>>

SendForward(size) ==
    /\ At("idle") /\ size > 0 /\ path.kind = "relay" /\ relay # Nil
    /\ sends < MaxSends
    /\ sends' = sends + 1
    /\ net' = net \cup {[id |-> sends', size |-> size]}
    /\ call' = [Idle EXCEPT !.at = "ack", !.size = size, !.id = sends']
    /\ UNCHANGED <<stream, relay, pool, path, snap, saved, inbox, forwarded, confirmed,
                   connects, goal>>

\* Mutant: the length an acknowledgement names is not compared.
AckMatchesAny(d) == d.kind = "ack"
AckMatches(d) == d.kind = "ack" /\ d.size = call.size

\* A datagram is read; the network may deliver it again.
Read(d) == d \in inbox /\ (inbox' = inbox \ {d} \/ inbox' = inbox)

\* One datagram is read: it confirms the packet or fails the send.
ReadAck(d) ==
    /\ At("ack") /\ Read(d)
    /\ IF AckMatches(d)
       THEN /\ confirmed' = [id |-> call.id, size |-> call.size]
            /\ Goto("poll") /\ UNCHANGED snap
       ELSE SendFails /\ UNCHANGED confirmed
    /\ UNCHANGED <<stream, relay, pool, path, saved, net, forwarded, sends, connects, goal>>

\* Mutant: the client waits for an acknowledgement as long as it takes.
AckTimeoutNever == FALSE /\ UNCHANGED vars
AckTimeout ==
    /\ At("ack") /\ inbox = {}
    /\ SendFails
    /\ UNCHANGED <<stream, relay, pool, path, saved, data, connects, goal>>

\* record_probe_result names the path that was active when the probe began.
Recorded ==
    /\ snap' = [snap EXCEPT !.probe = path]
    /\ call' = Idle

\* poll_transport_packet of the relay client: a packet is the reply, an error
\* ends the probe without a record, a late acknowledgement is skipped.
PollRelay(d) ==
    /\ At("poll") /\ path.kind = "relay" /\ Read(d)
    /\ CASE d.kind = "packet" -> Recorded
         [] d.kind = "error" -> call' = Idle /\ UNCHANGED snap
         [] OTHER -> Goto("wait") /\ UNCHANGED snap
    /\ UNCHANGED <<stream, relay, pool, path, saved, net, forwarded, confirmed, sends,
                   connects, goal>>

PollNothing ==
    /\ At("poll") /\ (path.kind = "relay" => inbox = {})
    /\ Goto("wait")
    /\ UNCHANGED <<stream, relay, pool, path, snap, saved, data, connects, goal>>

\* A reply on the stream, or an error of its socket.
PollStream(ok) ==
    /\ At("poll") /\ path.kind # "relay"
    /\ IF ok THEN Recorded ELSE call' = Idle /\ UNCHANGED snap
    /\ UNCHANGED <<stream, relay, pool, path, saved, data, connects, goal>>

PollAgain ==
    /\ At("wait")
    /\ Goto("poll")
    /\ UNCHANGED <<stream, relay, pool, path, snap, saved, data, connects, goal>>

ProbeEnds ==
    /\ At("wait")
    /\ Recorded
    /\ UNCHANGED <<stream, relay, pool, path, saved, data, connects, goal>>
-----------------------------------------------------------------------------
(* The relay daemon, the network and the host process. *)

Arrives(kind, r) ==
    inbox' = inbox \cup {[kind |-> kind, id |-> r.id, size |-> r.size]}

\* The daemon forwards a packet and says so; the answer may be lost.
RelayForwards(r, lost) ==
    /\ r \in net
    /\ net' = net \ {r}
    /\ forwarded' = forwarded \cup {r}
    /\ IF lost THEN UNCHANGED inbox ELSE Arrives("ack", r)
    /\ UNCHANGED <<call, stream, relay, pool, path, snap, saved, confirmed, sends, connects, goal>>

\* It refuses: the session expired, or the peer is not attached.
RelayRefuses(r) ==
    /\ r \in net
    /\ net' = net \ {r}
    /\ Arrives("error", NoPacket)
    /\ UNCHANGED <<call, stream, relay, pool, path, snap, saved, forwarded, confirmed, sends,
                   connects, goal>>

RequestLost(r) ==
    /\ r \in net
    /\ net' = net \ {r}
    /\ UNCHANGED <<call, stream, relay, pool, path, snap, saved, inbox, forwarded, confirmed, sends,
                   connects, goal>>

PeerSends(id) ==
    /\ relay # Nil
    /\ inbox' = inbox \cup {[kind |-> "packet", id |-> id, size |-> 0]}
    /\ UNCHANGED <<call, stream, relay, pool, path, snap, saved, net, forwarded, confirmed, sends,
                   connects, goal>>

\* The process is gone with its sockets, and another one starts with the
\* snapshot given; a helper keeps none.
Starts(kept) ==
    /\ call' = Idle /\ stream' = Nil /\ relay' = Nil
    /\ NewSession
    /\ pool' = NoPool /\ path' = NoPath
    /\ snap' = kept
    /\ goal' = Nil
    /\ UNCHANGED connects

\* It is killed, or a command fails: nothing is saved.
Restart == Starts(saved) /\ UNCHANGED saved

\* A command succeeded and saves what it leaves; the next one restores it.
CommandEnds ==
    /\ At("idle")
    /\ saved' = snap
    /\ Starts(snap)

Connects ==
    \/ \E p \in Peers : \/ ConnectDirect(p)
                        \/ \E tried, allowed \in BOOLEAN : ConnectFallsBack(p, tried, allowed)
    \/ \E c \in Clusters : UseDerp(c) \/ DerpFails(c)
    \/ UseRelay \/ FallbackFails \/ Finalize \/ FinalizeFails

Answers == \/ \E d \in inbox : ReadAck(d) \/ PollRelay(d)
           \/ AckTimeout \/ PollNothing \/ PollStream(TRUE) \/ PollStream(FALSE)

Network ==
    \/ \E r \in net : \/ RelayRefuses(r) \/ RequestLost(r)
                      \/ RelayForwards(r, TRUE) \/ RelayForwards(r, FALSE)
    \/ \E id \in 1..MaxPackets : PeerSends(id)

Sends == \E size \in Sizes : \/ SendRefused(size) \/ SendForward(size)
                             \/ SendStream(size)

Next == \/ Connects \/ Disconnect \/ Sends \/ Written(TRUE) \/ Written(FALSE) \/ Answers
        \/ PollAgain \/ ProbeEnds \/ Network \/ Restart \/ CommandEnds

Spec == Init /\ [][Next]_vars

\* A call goes on until it returns: connects and reads end by their timeouts,
\* and the deadline of a probe passes however often it is polled before.  A
\* write has no timeout, and nothing is assumed of it.
FairSpec == Spec /\ WF_vars(Connects /\ ~At("idle")) /\ WF_vars(Answers) /\ SF_vars(ProbeEnds)
-----------------------------------------------------------------------------
(* Properties. *)

\* Calls, links, paths and datagrams have their types.
TypeOK ==
    /\ call \in [at : {"idle", "fallback", "finalize", "write", "ack", "poll", "wait"},
                 peer : Peers \cup {Nil}, size : Nat, id : Nat]
    /\ stream \in Peers \cup {Nil}
    /\ relay \in Peers \cup {Nil}
    /\ pool \in [ticket : Peers \cup {Nil}, active : Nodes \cup {Nil}, links : [Nodes -> Link]]
    /\ path \in Path
    /\ {snap, saved} \subseteq [state : {"none", "connected", "disconnected"}, path : Path,
                             probe : Path]
    /\ net \subseteq Packet /\ inbox \subseteq Datagram /\ forwarded \subseteq Packet
    /\ confirmed \in Packet /\ sends \in Nat
    /\ connects \in Nat /\ goal \in Peers \cup {Nil}

\* Whatever connects failed half way before, an open DERP link carries the
\* ticket that was installed last, never one of an earlier connect.
LinksCarryTicket ==
    \A n \in Nodes : pool.links[n].state = "ready" =>
        pool.links[n].ticket = pool.ticket /\ pool.ticket # Nil

\* The path that snapshot and probes name is the one packets take, after every
\* connect, also one that failed half way: a direct path names the peer of the
\* stream, a DERP path the link the pool sends on, or the pool sends nothing.
PathNamesTransport ==
    /\ path.kind = "p2p" => stream = path.peer /\ stream # Nil
    /\ path.kind = "derp" => pool.active \in {path.node, Nil}

\* The peer that the next packet reaches, or Nil if none is sent.
LeadsTo ==
    CASE path.kind = "p2p" -> stream
      [] path.kind = "derp" /\ pool.active # Nil -> pool.links[pool.active].ticket
      [] path.kind = "relay" -> relay
      [] OTHER -> Nil

\* From a connect that succeeds until the next one begins, packets reach its
\* peer, or the peer the DERP pool has its ticket for, but never one of a
\* former stream or relay session; and the snapshot names the path they take.
ConnectReachesPeer ==
    goal # Nil =>
        /\ LeadsTo = goal \/ (path.kind = "derp" /\ LeadsTo = pool.ticket /\ pool.ticket # Nil)
        /\ snap.state = "connected" => snap.path = path /\ snap.probe \in {NoPath, path}

\* A send that succeeds over the relay is backed by a packet of its length
\* that the daemon forwarded in the same session, at the latest this one.
ConfirmedWasForwarded ==
    confirmed # NoPacket =>
        \E f \in forwarded : f.size = confirmed.size /\ f.id <= confirmed.id

\* Every call returns, unless it is stuck in the write to a stream.
CallsReturn == ~At("idle") ~> At("idle") \/ At("write")
=============================================================================
