----------------------------- MODULE ControlSync -----------------------------
(***************************************************************************)
(* client/app_core with server/server-biz: how a device learns of changes   *)
(* in its network.  A control_sync asks the control plane for the network   *)
(* map, reads the events that arrive before and shortly after the answer,   *)
(* applies them to the map, and brings the address of the device and its    *)
(* tunnel up to date.  Events are confirmed when they are read.  The server *)
(* commits a change before it announces it, knows the connection of a node  *)
(* by an entry of its hub, and sends unconfirmed messages again.            *)
(***************************************************************************)
EXTENDS Naturals, Sequences

CONSTANTS Networks,   \* networks the device is a member of
          Peers,      \* the other nodes, each with a device of its own
          Home,       \* peer -> the network it is online in
          Self,       \* this device
          Hosts,      \* kinds of host: "facade" or "cli"
          Kinds,      \* kinds of path: "p2p", the relay included, or "derp"
          MaxDrain,   \* events read after the answer (32)
          MaxChanges, \* bound on the changes of the control plane
          MaxFaults,  \* bound on failures and on what is announced or sent again
          Nil

ASSUME HomeAssumption == Home \in [Peers -> Networks]
ASSUME HostsAssumption == Hosts \subseteq {"facade", "cli"}
ASSUME KindsAssumption == Kinds \subseteq {"p2p", "derp"}
ASSUME MaxDrainAssumption == MaxDrain \in Nat
ASSUME NilAssumption == Nil \notin Networks \cup Peers \cup {Self} /\ Self \notin Peers

VARIABLES online,  \* peers with a fresh control session
          addr,    \* peer -> version of its virtual address
          own,     \* network -> version of this device's address in it
          said,    \* history: network -> how often its address was announced
                   \* to this device, and which one last
          rev,     \* network -> revision counter, 0 if there is none yet
          pending, \* changes that are committed and not yet announced
          token,   \* no connection with the token of the bootstrap was refused
          hub,     \* session of this node in the hub: network, and whether its
                   \* connection is the one the client reads
          unacked, \* messages to this node that are not confirmed
          stream,  \* what the connection carries to the client
          host,    \* kind of host
          conn,    \* the client's connection: none, open or broken
          queued,  \* events read while an answer was awaited
          call,    \* the control_sync under way
          map,     \* network map of the current bootstrap
          plans,   \* peers with a connect plan
          dev,     \* address of this device in the current bootstrap
          tunnel,  \* kind of the active path, its peer, the address the tunnel leads to
          changes, \* changes so far
          faults,  \* failures so far
          past     \* history: why an address may be out of date

server == <<online, addr, own, said, rev, pending, token, changes>>
link == <<hub, unacked, stream, conn, queued>>
client == <<map, plans, dev, tunnel>>
vars == <<server, link, host, call, client, faults, past>>

NoHub == [net |-> Nil, here |-> FALSE]
NoTunnel == [kind |-> "none", peer |-> Nil, at |-> 0]
NoPeers == [p \in Peers |-> 0]

\* currentNetworkRevision.
CurrentRev(n) == IF rev[n] > 0 THEN rev[n] ELSE 1

\* buildNetworkMap; counted says that the counter was read.
PeersOf(n) == [p \in Peers |-> IF p \in online /\ Home[p] = n THEN addr[p] ELSE 0]
Map(n) == [net |-> n, rev |-> CurrentRev(n), counted |-> TRUE, peers |-> PeersOf(n)]
Maps == [net : Networks, rev : Nat, counted : BOOLEAN, peers : [Peers -> Nat]]
NoMap == [net |-> Nil, rev |-> 0, counted |-> TRUE, peers |-> NoPeers]

\* The maps the server may build: if the counter cannot be read, the revision is 1.
Built(n) == {Map(n), [Map(n) EXCEPT !.rev = 1, !.counted = FALSE]}

\* A message: the address it names, its revision, and a number that tells
\* announcements of an address apart.
Msg(kind, n, w, v, r, i) ==
    [kind |-> kind, net |-> n, who |-> w, v |-> v, rev |-> r, no |-> i]
Message == [kind : {"update", "remove", "address", "plan", "candidate", "enabled", "restart"},
            net : Networks, who : Peers \cup {Self}, v : Nat, rev : Nat, no : Nat]

\* A change to be announced: an address with its value, once by the handler of
\* the request and once for the copy that it published.
Change ==
    [kind : {"update", "remove"}, net : Networks, who : Peers, v : {0}, left : {1}]
    \cup [kind : {"address"}, net : Networks, who : Peers \cup {Self}, v : Nat, left : 1..2]
Came(kind, p) == [kind |-> kind, net |-> Home[p], who |-> p, v |-> 0, left |-> 1]

Conn == {"none", "open", "broken"}
NoConn == [conn |-> "none", stream |-> <<>>, queued |-> <<>>]
\* A call: its stage, whether the connection is its own and which one there
\* was before, the map it was answered and the messages to be read before the
\* answer, and what it has gathered from how many events.
Idle == [at |-> "idle", fresh |-> FALSE, old |-> NoConn, map |-> NoMap, plans |-> {},
         ahead |-> 0, ups |-> <<>>, enabled |-> Nil, read |-> 0]
Call == [at : {"idle", "connect", "asked", "awaited", "drain", "switch", "commit"},
         fresh : BOOLEAN,
         old : [conn : Conn, stream : Seq(Message), queued : Seq(Message)],
         map : Maps \cup {NoMap}, plans : SUBSET Peers, ahead : Nat, ups : Seq(Message),
         enabled : Networks \cup {Nil}, read : Nat]

Init ==
    /\ online = {} /\ addr = [p \in Peers |-> 1] /\ own = [n \in Networks |-> 1]
    /\ said = [n \in Networks |-> [no |-> 0, v |-> 1]]
    /\ rev = [n \in Networks |-> 0]
    /\ pending = {} /\ token = TRUE /\ changes = 0
    /\ hub = NoHub /\ unacked = {} /\ stream = <<>> /\ conn = "none" /\ queued = <<>>
    /\ host \in Hosts /\ call = Idle
    /\ \E n \in Networks : map = Map(n)
    /\ plans = {} /\ dev = 1 /\ tunnel = NoTunnel
    /\ faults = 0 /\ past = {}
-----------------------------------------------------------------------------
(* The control plane. *)

Changes == changes < MaxChanges /\ changes' = changes + 1
Fault == faults < MaxFaults /\ faults' = faults + 1

\* A peer opens or loses its control session.
PeerComes(p) ==
    /\ Changes /\ p \notin online
    /\ online' = online \cup {p}
    /\ pending' = pending \cup {Came("update", p)}
    /\ UNCHANGED <<addr, own, said, rev, token, link, host, call, client, faults, past>>

PeerLeaves(p) ==
    /\ Changes /\ p \in online
    /\ online' = online \ {p}
    /\ pending' = pending \cup {Came("remove", p)}
    /\ UNCHANGED <<addr, own, said, rev, token, link, host, call, client, faults, past>>

\* The addresses of these devices in a network change.
Moves(n, W) ==
    /\ own' = IF Self \in W THEN [own EXCEPT ![n] = @ + 1] ELSE own
    /\ addr' = [p \in Peers |-> IF p \in W THEN addr[p] + 1 ELSE addr[p]]

\* UpdateAttachmentIP: the address is written, published, and returned to the
\* handler, which broadcasts it; requests overlap.  The published copy may be
\* lost, and the server may stop before it announces anything.
Readdress(n, w) ==
    /\ Changes /\ (w # Self => n = Home[w])
    /\ Moves(n, {w})
    /\ LET c == [kind |-> "address", net |-> n, who |-> w,
                 v |-> IF w = Self THEN own'[n] ELSE addr'[w], left |-> 1]
       IN  \/ pending' = pending \cup {c} /\ UNCHANGED <<faults, past>>
           \/ Fault /\ pending' = pending \cup {[c EXCEPT !.left = 2]} /\ UNCHANGED past
           \/ Fault /\ UNCHANGED pending /\ past' = past \cup {"missed"}
    /\ UNCHANGED <<online, said, rev, token, link, host, call, client>>

\* sendTracked on the session that the hub has.
SendTracked(m) ==
    /\ unacked' = unacked \cup {m}
    /\ stream' = IF hub.here /\ conn = "open" THEN Append(stream, m) ELSE stream
    /\ UNCHANGED <<hub, conn, queued>>

\* NextNetworkRevision; if the counter cannot be advanced, the revision is 1.
NextRev(n, r) ==
    \/ r = rev[n] + 1 /\ rev' = [rev EXCEPT ![n] = r] /\ UNCHANGED faults
    \/ r = 1 /\ UNCHANGED rev /\ Fault

\* fanoutPeerUpdate and fanoutPeerRemove: an update has the peer as it is then.
AnnouncePeer(c) ==
    /\ c \in pending /\ c.kind # "address" /\ pending' = pending \ {c}
    /\ IF c.kind = "update" /\ c.who \notin online
       THEN UNCHANGED <<rev, link, faults>>
       ELSE \E r \in {rev[c.net] + 1, 1} :
              /\ NextRev(c.net, r)
              /\ IF hub.net = c.net
                 THEN SendTracked(Msg(c.kind, c.net, c.who, addr[c.who], r, 0))
                 ELSE UNCHANGED link
    /\ UNCHANGED <<online, addr, own, said, token, changes, host, call, client, past>>

\* broadcastDeviceIPReassigned of the handler or for the published copy: the
\* address that the request wrote.
AnnounceAddress(c) ==
    /\ c \in pending /\ c.kind = "address"
    /\ pending' = (pending \ {c}) \cup (IF c.left = 2 THEN {[c EXCEPT !.left = 1]} ELSE {})
    /\ said' = IF c.who = Self
               THEN [said EXCEPT ![c.net] = [no |-> said[c.net].no + 1, v |-> c.v]] ELSE said
    /\ LET i == IF c.who = Self THEN said[c.net].no + 1 ELSE c.left
       IN  IF hub.net = c.net THEN SendTracked(Msg("address", c.net, c.who, c.v, 0, i))
           ELSE UNCHANGED link
    /\ past' = past \cup (IF hub.net # c.net THEN {"missed"} ELSE {})
                   \cup (IF c.who # Self /\ c.v # addr[c.who] THEN {"reordered"} ELSE {})
    /\ UNCHANGED <<online, addr, own, rev, token, changes, host, call, client, faults>>

\* Update of a network's range: every device of it gets another address, and
\* all that is announced is that the tunnel has to be started again, if the
\* revision and the message get through.  (One that stops halfway announces
\* nothing, as a Readdress may.)
RangeChanges(n) ==
    /\ Changes
    /\ Moves(n, {p \in Peers : Home[p] = n} \cup {Self})
    /\ \/ /\ rev' = [rev EXCEPT ![n] = @ + 1] /\ UNCHANGED faults
          /\ IF hub.net = n THEN SendTracked(Msg("restart", n, Self, 0, rev[n] + 1, 0))
             ELSE UNCHANGED link
       \/ Fault /\ UNCHANGED <<rev, link>>
    /\ past' = past \cup {"missed"}
    /\ UNCHANGED <<online, said, pending, token, host, call, client>>

\* A connect plan or a candidate of a peer, or another network for all
\* devices of the user: sent to the node, whatever its network.
Notify(kind, n, w) ==
    /\ Changes /\ hub # NoHub
    /\ SendTracked(Msg(kind, n, w, 0, 0, 0))
    /\ UNCHANGED <<online, addr, own, said, rev, pending, token, host, call, client, faults, past>>

\* The delivery retry; an address that has changed since comes too late.
Resend(m) ==
    /\ Fault /\ m \in unacked /\ hub # NoHub
    /\ SendTracked(m)
    /\ past' = IF m.kind = "address" /\ (IF m.who = Self THEN m.no # said[m.net].no
                                         ELSE m.v # addr[m.who])
               THEN past \cup {"reordered"} ELSE past
    /\ UNCHANGED <<server, host, call, client>>

\* The server finds out that the connection is gone.
HubForgets ==
    /\ hub # NoHub /\ (~hub.here \/ conn = "broken")
    /\ hub' = NoHub
    /\ UNCHANGED <<server, unacked, stream, conn, queued, host, call, client, faults, past>>

ConnectionBreaks ==
    /\ Fault /\ conn = "open"
    /\ conn' = "broken" /\ stream' = <<>>
    /\ hub' = [hub EXCEPT !.here = FALSE]
    /\ UNCHANGED <<server, unacked, queued, host, call, client, past>>
-----------------------------------------------------------------------------
(* control_sync: the answer. *)

At(stage) == call.at = stage
Goto(stage) == call' = [call EXCEPT !.at = stage]

\* ping, the observations and the map request go over the connection there
\* is; the answers come one after the other.
SyncBegins ==
    /\ At("idle")
    /\ call' = [Idle EXCEPT !.at = IF conn = "none" THEN "connect" ELSE "asked"]
    /\ UNCHANGED <<server, link, host, client, faults, past>>

\* ControlWsClient::connect and node_hello; the client there was is kept
\* until the sync has drained the new one.
Connect ==
    /\ At("connect") /\ token
    /\ call' = [call EXCEPT !.at = "asked", !.fresh = TRUE,
                            !.old = [conn |-> conn, stream |-> stream, queued |-> queued]]
    /\ conn' = "open" /\ stream' = <<>> /\ queued' = <<>>
    /\ hub' = [net |-> map.net, here |-> TRUE]
    /\ UNCHANGED <<server, unacked, host, client, faults, past>>

\* The server reads the revision before the peers, so that a map may be
\* newer than its revision, as it is before a change is announced.
ServerAnswers ==
    /\ At("asked") /\ conn = "open"
    /\ \E m \in Built(map.net) :
         /\ IF m = Map(map.net) THEN UNCHANGED faults ELSE Fault
         /\ call' = [call EXCEPT !.at = "awaited", !.map = m, !.ahead = Len(stream)]
    /\ UNCHANGED <<server, link, host, client, past>>

\* The next message comes before the answer.
Waiting == At("asked") \/ (At("awaited") /\ call.ahead > 0)

\* read_envelope confirms a message before anything is done with it; the
\* request may fail.
Confirmed(m) ==
    \/ unacked' = unacked \ {m} /\ UNCHANGED faults
    \/ unacked' = unacked /\ Fault

\* decode_control_ws_event: a candidate is not known to this client.
IsEvent(m) == m.kind # "candidate"

QueueEvent ==
    /\ Waiting /\ stream # <<>> /\ IsEvent(Head(stream))
    /\ queued' = Append(queued, Head(stream)) /\ stream' = Tail(stream)
    /\ Confirmed(Head(stream))
    /\ call' = [call EXCEPT !.ahead = IF At("awaited") THEN @ - 1 ELSE @]
    /\ UNCHANGED <<server, hub, conn, host, client, past>>

\* Mutant: only a new connection takes the map of the answer.
FetchedOnce(m) == IF call.fresh THEN m ELSE map
\* The answer is a full map, whatever revision the request named.
Fetched(m) == m

ReadMap ==
    /\ At("awaited") /\ call.ahead = 0 /\ conn = "open" /\ host = "facade"
    /\ call' = [call EXCEPT !.at = "drain", !.map = Fetched(@),
                            !.plans = IF call.fresh THEN {} ELSE plans]
    /\ UNCHANGED <<server, link, host, client, faults, past>>

\* control sync of the command line client: the map only, and the process ends.
CliSync ==
    /\ At("awaited") /\ call.ahead = 0 /\ conn = "open" /\ host = "cli"
    /\ map' = call.map
    /\ call' = Idle /\ conn' = "none" /\ stream' = <<>> /\ queued' = <<>>
    /\ hub' = [hub EXCEPT !.here = FALSE]
    /\ past' = IF queued # <<>> THEN past \cup {"missed"} ELSE past
    /\ UNCHANGED <<server, unacked, host, plans, dev, tunnel, faults>>

\* The sync ends with an error: a new connection is closed again and the
\* client there was is back; what was read of events is lost.
SyncFails(read) ==
    /\ call' = Idle
    /\ IF call.fresh
       THEN /\ conn' = call.old.conn /\ stream' = call.old.stream /\ queued' = call.old.queued
            /\ hub' = [hub EXCEPT !.here = FALSE]
       ELSE UNCHANGED <<hub, conn>> /\ stream' = (IF read THEN Tail(stream) ELSE stream)
            /\ UNCHANGED queued
    /\ past' = IF call.read > 0 \/ (call.fresh /\ queued # <<>>) THEN past \cup {"missed"} ELSE past

\* Another connection is tried: if it works, what the former one has queued
\* is lost.
Reconnects == Goto("connect") /\ UNCHANGED queued
              /\ past' = IF queued # <<>> THEN past \cup {"missed"} ELSE past

\* The server refuses the request.
WaitRefused ==
    /\ At("asked") /\ conn = "open" /\ Fault
    /\ IF call.fresh THEN SyncFails(FALSE) ELSE Reconnects /\ UNCHANGED <<hub, stream, conn>>
    /\ UNCHANGED <<server, unacked, host, client>>

\* No answer in time, or one that was not expected: what the connection still
\* carries would be taken for the answer to the next ping, so it is of no use.
WaitFails ==
    /\ At("asked") \/ At("awaited")
    /\ \/ conn = "broken" /\ UNCHANGED <<unacked, faults>>
       \/ conn = "open" /\ Fault /\ UNCHANGED unacked
       \/ Waiting /\ stream # <<>> /\ ~IsEvent(Head(stream)) /\ Confirmed(Head(stream))
    /\ IF call.fresh THEN SyncFails(FALSE)
       ELSE /\ Reconnects /\ conn' = "broken" /\ stream' = <<>>
            /\ hub' = [hub EXCEPT !.here = FALSE]
    /\ UNCHANGED <<server, host, client>>

ConnectFails ==
    /\ At("connect") /\ Fault
    /\ call' = Idle
    /\ UNCHANGED <<server, link, host, client, past>>

\* Handshake finds no session for the token.  CloseSession of an earlier
\* connection deletes it, and so does the cleanup after 45 seconds of silence;
\* no sync asks for another token, and every later one is refused as well.
ConnectRefused ==
    /\ At("connect")
    /\ token' = FALSE /\ call' = Idle
    /\ UNCHANGED <<online, addr, own, said, rev, pending, changes>>
    /\ UNCHANGED <<link, host, client, faults, past>>
-----------------------------------------------------------------------------
(* control_sync: the events. *)

\* Mutant: the revision of the map is that of the last event.
NewerLast(c, m) == m.rev
Newer(c, m) == IF m.rev > c.map.rev THEN m.rev ELSE c.map.rev

\* Mutant: the device the event is about is taken for its network.
EnabledNetworkWho(m) == m.who
EnabledNetwork(m) == m.net

\* apply_control_ws_event: neither the revision nor the network of an update
\* is looked at before it is applied, and nothing is done about a restart.
Applied(c, m) ==
    CASE m.kind = "update" -> [c EXCEPT !.map.rev = Newer(c, m), !.map.peers[m.who] = m.v]
      [] m.kind = "remove" -> [c EXCEPT !.map.rev = Newer(c, m), !.map.peers[m.who] = 0,
                                        !.plans = @ \ {m.who}]
      [] m.kind = "plan" -> [c EXCEPT !.plans = @ \cup {m.who}]
      [] m.kind = "enabled" -> [c EXCEPT !.enabled = EnabledNetwork(m)]
      [] m.kind = "address" ->
           [c EXCEPT !.ups = Append(@, m),
                     !.map.peers = IF m.who \in Peers /\ m.net = c.map.net /\ @[m.who] # 0
                                   THEN [@ EXCEPT ![m.who] = m.v] ELSE @]
      [] OTHER -> c

Apply(m) ==
    /\ call' = [Applied(call, m) EXCEPT !.read = @ + 1]
    /\ past' = IF m.kind \in {"update", "remove"} /\ m.net # call.map.net
               THEN past \cup {"foreign"} ELSE past

\* Events that were queued come first, without a new confirmation.
DrainEvent ==
    /\ At("drain") /\ call.read < MaxDrain
    /\ \/ /\ queued # <<>>
          /\ Apply(Head(queued)) /\ queued' = Tail(queued)
          /\ UNCHANGED <<unacked, stream, faults>>
       \/ /\ queued = <<>> /\ stream # <<>> /\ IsEvent(Head(stream))
          /\ Apply(Head(stream)) /\ stream' = Tail(stream)
          /\ Confirmed(Head(stream))
          /\ UNCHANGED queued
    /\ UNCHANGED <<server, hub, conn, host, client>>

Drained ==
    Goto(IF call.enabled \notin {Nil, map.net} THEN "switch" ELSE "commit")

\* 200 ms without an event, or MaxDrain of them.
DrainEnds ==
    /\ At("drain")
    /\ call.read = MaxDrain \/ (queued = <<>> /\ conn = "open")
    /\ Drained
    /\ UNCHANGED <<server, link, host, client, faults, past>>

\* The 200 ms end within a frame: what was read of it is thrown away, and the
\* stream makes no sense any more.
DrainTorn ==
    /\ At("drain") /\ call.read < MaxDrain /\ queued = <<>> /\ stream # <<>> /\ Fault
    /\ Drained
    /\ conn' = "broken" /\ stream' = <<>> /\ hub' = [hub EXCEPT !.here = FALSE]
    /\ UNCHANGED <<server, unacked, queued, host, client, past>>

DrainFails ==
    /\ At("drain") /\ call.read < MaxDrain /\ queued = <<>>
    /\ \/ conn = "broken" /\ SyncFails(FALSE) /\ UNCHANGED <<unacked, faults>>
       \/ stream # <<>> /\ ~IsEvent(Head(stream)) /\ SyncFails(TRUE)
          /\ Confirmed(Head(stream))
    /\ UNCHANGED <<server, host, client>>
-----------------------------------------------------------------------------
(* control_sync: the new state. *)

OwnUpdates(c) == {i \in DOMAIN c.ups : c.ups[i].who = Self /\ c.ups[i].net = c.map.net}
PeerUpdates(c) == {i \in DOMAIN c.ups : c.ups[i].who = tunnel.peer}
First(S) == CHOOSE i \in S : \A j \in S : i <= j
Last(S) == CHOOSE i \in S : \A j \in S : i >= j

\* Mutant: the first of several updates is taken.
OwnAddressFirst(c) == IF OwnUpdates(c) = {} THEN dev ELSE c.ups[First(OwnUpdates(c))].v
OwnAddress(c) == IF OwnUpdates(c) = {} THEN dev ELSE c.ups[Last(OwnUpdates(c))].v

\* The address the tunnel is given, or 0 if it is not looked at: the first
\* update of the peer, else the map, else the former map; DERP paths are not
\* looked at.
PeerAddress(c) ==
    LET known == IF c.map.peers[tunnel.peer] # 0 THEN c.map.peers[tunnel.peer]
                 ELSE map.peers[tunnel.peer]
    IN  IF tunnel.kind # "p2p" \/ known = 0 THEN 0
        ELSE IF PeerUpdates(c) # {} THEN c.ups[First(PeerUpdates(c))].v
        ELSE IF OwnUpdates(c) # {} THEN known ELSE 0

\* replace_tunnel: the tunnel is replaced if its peer has another address.
Commit ==
    /\ At("commit")
    /\ map' = call.map /\ plans' = call.plans
    /\ dev' = OwnAddress(call)
    /\ tunnel' = [tunnel EXCEPT !.at = IF tunnel.kind = "p2p" /\ PeerAddress(call) # 0
                                       THEN PeerAddress(call) ELSE @]
    /\ call' = Idle
    /\ UNCHANGED <<server, link, host, faults, past>>

\* The former tunnel is not closed, or the new one not established.
ReapplyFails ==
    /\ At("commit") /\ Fault
    /\ tunnel.kind = "p2p" /\ PeerAddress(call) \notin {0, tunnel.at}
    /\ map' = call.map /\ plans' = call.plans
    /\ dev' = OwnAddress(call)
    /\ \E a \in {tunnel.at, 0} : tunnel' = [tunnel EXCEPT !.at = a]
    /\ call' = Idle
    /\ past' = past \cup {"missed"}
    /\ UNCHANGED <<server, link, host>>

\* A bootstrap response: a map of the network, the device, no plans, and a
\* token of its own.
Bootstrapped(n, m) ==
    /\ map' = m /\ plans' = {} /\ dev' = own[n]
    /\ token' = TRUE /\ UNCHANGED <<online, addr, own, said, rev, pending, changes>>

\* active_network_enabled: activate and bootstrap by HTTP; the connection
\* goes on as a session of the former network.
Switch ==
    /\ At("switch")
    /\ \E m \in Built(call.enabled) :
         /\ IF m = Map(call.enabled) THEN UNCHANGED faults ELSE Fault
         /\ Bootstrapped(call.enabled, m)
    /\ call' = Idle
    /\ UNCHANGED <<link, host, tunnel, past>>

SwitchFails ==
    /\ At("switch") /\ Fault
    /\ call' = Idle /\ past' = past \cup {"missed"}
    /\ UNCHANGED <<server, link, host, client>>
-----------------------------------------------------------------------------
(* Other calls of the host. *)

Bootstrap(n) ==
    /\ At("idle")
    /\ \E m \in Built(n) :
         /\ IF m = Map(n) THEN UNCHANGED faults ELSE Fault
         /\ Bootstrapped(n, m)
    /\ UNCHANGED <<link, host, call, tunnel, past>>

\* connect, as far as the tunnel goes (see ClientPaths).
ConnectPeer(p, kind) ==
    /\ At("idle") /\ map.peers[p] # 0
    /\ tunnel' = [kind |-> kind, peer |-> p, at |-> map.peers[p]]
    /\ UNCHANGED <<server, link, host, call, map, plans, dev, faults, past>>

\* disconnect also drops the control client, before it closes the tunnel; if
\* that fails, the snapshot keeps the path.
Disconnect ==
    /\ At("idle") /\ (tunnel # NoTunnel \/ conn # "none")
    /\ conn' = "none" /\ stream' = <<>> /\ queued' = <<>>
    /\ hub' = [hub EXCEPT !.here = FALSE]
    /\ \/ tunnel' = NoTunnel /\ UNCHANGED faults
       \/ tunnel.at # 0 /\ Fault /\ tunnel' = [tunnel EXCEPT !.at = 0]
    /\ past' = IF queued # <<>> \/ tunnel' # NoTunnel THEN past \cup {"missed"} ELSE past
    /\ UNCHANGED <<server, unacked, host, call, map, plans, dev>>

\* Another process takes over, with a bootstrap of its own.
Restart(n) ==
    /\ Fault
    /\ call' = Idle /\ conn' = "none" /\ stream' = <<>> /\ queued' = <<>>
    /\ hub' = [hub EXCEPT !.here = FALSE]
    /\ Bootstrapped(n, Map(n)) /\ tunnel' = NoTunnel
    /\ past' = IF queued # <<>> \/ call.read > 0 THEN past \cup {"missed"} ELSE past
    /\ UNCHANGED <<unacked, host>>

Server ==
    \/ \E p \in Peers : PeerComes(p) \/ PeerLeaves(p)
    \/ \E n \in Networks, w \in Peers \cup {Self} : Readdress(n, w)
    \/ \E c \in pending : AnnouncePeer(c) \/ AnnounceAddress(c)
    \/ \E n \in Networks : RangeChanges(n)
    \/ \E m \in unacked : Resend(m)
    \/ HubForgets \/ ConnectionBreaks
    \/ \E p \in Peers, kind \in {"plan", "candidate"} : Notify(kind, Home[p], p)
    \/ \E n \in Networks : Notify("enabled", n, Self)

Sync == \/ Connect \/ ServerAnswers \/ QueueEvent \/ ReadMap \/ CliSync
        \/ DrainEvent \/ DrainEnds \/ Commit \/ Switch

SyncErrors == \/ WaitRefused \/ WaitFails \/ ConnectFails \/ ConnectRefused \/ DrainTorn
              \/ DrainFails \/ ReapplyFails \/ SwitchFails

Calls == \/ SyncBegins \/ Disconnect
         \/ \E n \in Networks : Bootstrap(n) \/ Restart(n)
         \/ \E p \in Peers, kind \in Kinds : ConnectPeer(p, kind)

Next == Server \/ Sync \/ SyncErrors \/ Calls

Spec == Init /\ [][Next]_vars

\* A sync goes on until it returns: reads and connects end by their timeouts.
FairSpec == Spec /\ WF_vars(Sync \/ SyncErrors)
-----------------------------------------------------------------------------
(* Properties. *)

\* The control plane, its messages and the client have their types.
TypeOK ==
    /\ online \subseteq Peers /\ addr \in [Peers -> Nat] /\ own \in [Networks -> Nat]
    /\ said \in [Networks -> [no : Nat, v : Nat]]
    /\ rev \in [Networks -> Nat] /\ pending \subseteq Change /\ token \in BOOLEAN
    /\ hub \in [net : Networks \cup {Nil}, here : BOOLEAN]
    /\ unacked \subseteq Message /\ stream \in Seq(Message)
    /\ host \in Hosts /\ conn \in Conn /\ queued \in Seq(Message)
    /\ call \in Call
    /\ map \in Maps /\ plans \subseteq Peers /\ dev \in Nat
    /\ tunnel \in [kind : {"none", "p2p", "derp"}, peer : Peers \cup {Nil}, at : Nat]
    /\ changes \in Nat /\ faults \in Nat /\ past \subseteq {"missed", "reordered", "foreign"}

\* Whatever is delayed, sent again or applied out of order, the revision of
\* the map never goes back within a network, unless the server could not read
\* its counter for the new map (currentNetworkRevision), or an event of another
\* network was applied to a map.
RevisionGrows ==
    [][map'.net = map.net /\ map'.counted /\ "foreign" \notin past => map'.rev >= map.rev]_vars

\* Nothing is on its way to the client, and no sync is under way.
Quiet == At("idle") /\ stream = <<>> /\ queued = <<>> /\ unacked = {} /\ pending = {}

\* A device that was connected to its network at every announcement of its
\* address has, once every message is confirmed, its address or the one that
\* was announced last (overlapping requests may announce the older address
\* last), unless a sync failed after it had read events, an older message was
\* sent again after a newer, or an address changed without an announcement.
OwnAddressLearnt ==
    Quiet /\ past \subseteq {"foreign"} => dev \in {own[map.net], said[map.net].v}

\* If the host goes on calling control_sync while the network comes to rest,
\* and from some time on the server does not refuse its token, the map becomes
\* that of the server and stays so, although events of former changes and of
\* other networks were applied to it.
MapConverges ==
    []<><<SyncBegins>>_vars /\ <>[][~ConnectRefused]_vars => <>[](map.peers = PeersOf(map.net))

\* live_facade_control_sync_reconciles_device_and_tunnel_ip: a device that read
\* every change of address leads its tunnel to the address of its peer.
TunnelFollowsPeer ==
    Quiet /\ past = {} /\ tunnel.kind = "p2p" /\ map.peers = PeersOf(map.net)
      /\ map.peers[tunnel.peer] # 0
    => tunnel.at = map.peers[tunnel.peer]
=============================================================================
