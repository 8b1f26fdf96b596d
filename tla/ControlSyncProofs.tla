------------------------- MODULE ControlSyncProofs -------------------------
(***************************************************************************)
(* Theorems about ControlSync for any networks, peers and hosts, any number *)
(* of events per sync, and any bounds.                                      *)
(***************************************************************************)
EXTENDS ControlSync, WellFoundedInduction, TLAPS

\* A message of the server to this node: it names no revision that its
\* network has not reached, and a connect plan is for a peer.
Known == {m \in Message : m.rev <= CurrentRev(m.net) /\ (m.kind = "plan" => m.who \in Peers)}
Events == {m \in Known : IsEvent(m)}

\* The answer of the server was read or is on its way.
Answered == call.at \in {"awaited", "drain", "switch", "commit"}

ServerOK ==
    /\ online \subseteq Peers /\ addr \in [Peers -> Nat] /\ own \in [Networks -> Nat]
    /\ said \in [Networks -> [no : Nat, v : Nat]]
    /\ rev \in [Networks -> Nat] /\ pending \subseteq Change /\ token \in BOOLEAN
    /\ host \in Hosts /\ changes \in Nat /\ faults \in Nat
    /\ past \subseteq {"missed", "reordered", "foreign"}

\* Every message under way is one of the server, and the queue has events.
LinkOK ==
    /\ hub \in [net : Networks \cup {Nil}, here : BOOLEAN] /\ conn \in Conn
    /\ unacked \subseteq Known /\ stream \in Seq(Known) /\ queued \in Seq(Events)

\* So has the connection that a failed sync goes back to; a map that was
\* answered is one of the current network.
CallOK ==
    /\ call \in Call
    /\ call.old.stream \in Seq(Known) /\ call.old.queued \in Seq(Events)
    /\ Answered => call.map \in Maps /\ call.map.net = map.net
    /\ call.at = "switch" => call.enabled \in Networks

ClientOK ==
    /\ map \in Maps /\ plans \subseteq Peers /\ dev \in Nat
    /\ tunnel \in [kind : {"none", "p2p", "derp"}, peer : Peers \cup {Nil}, at : Nat]
    /\ tunnel.kind = "p2p" => tunnel.peer \in Peers

\* The map is not ahead of its network, and the answer not behind the map if
\* the server could read the counter for it.
RevOK ==
    "foreign" \notin past =>
        /\ map.rev <= CurrentRev(map.net)
        /\ Answered => /\ call.map.rev <= CurrentRev(map.net)
                       /\ call.map.counted => map.rev <= call.map.rev

IInv == ServerOK /\ LinkOK /\ CallOK /\ ClientOK /\ RevOK

\* The invariant has the types.
LEMMA IInvTypes == IInv => TypeOK
  <1> SUFFICES ASSUME IInv PROVE TypeOK
    OBVIOUS
  <1>1. Known \subseteq Message /\ Events \subseteq Message
    BY DEF Known, CurrentRev, Events
  <1>2. Seq(Known) \subseteq Seq(Message) /\ Seq(Events) \subseteq Seq(Message)
    BY <1>1
  <1>3. QED
    BY <1>1, <1>2 DEF IInv, ServerOK, LinkOK, CallOK, ClientOK, TypeOK

\* A map of the server is a map.
LEMMA MapType ==
    ASSUME ServerOK, NEW n \in Networks
    PROVE  Map(n) \in Maps /\ Map(n).net = n /\ Map(n).rev = CurrentRev(n)
  BY DEF Map, Maps, PeersOf, CurrentRev, ServerOK

\* So is one without the counter, and its revision is not ahead.
LEMMA BuiltType ==
    ASSUME ServerOK, NEW n \in Networks, NEW m \in Built(n)
    PROVE  /\ m \in Maps /\ m.net = n /\ CurrentRev(n) \in Nat
           /\ m.rev <= CurrentRev(n) /\ (m.counted => m.rev = CurrentRev(n))
  <1>1. /\ Map(n) \in Maps /\ Map(n).net = n /\ Map(n).rev = CurrentRev(n)
        /\ CurrentRev(n) \in Nat /\ 1 <= CurrentRev(n)
    BY MapType DEF ServerOK, CurrentRev
  <1>2. CASE m = Map(n)
    BY <1>1, <1>2
  <1>3. CASE m = [Map(n) EXCEPT !.rev = 1, !.counted = FALSE]
    BY <1>1, <1>3 DEF Maps
  <1>4. QED
    BY <1>2, <1>3 DEF Built

\* A sync that is not under way.
LEMMA IdleType ==
    Idle \in Call /\ Idle.at = "idle" /\ Idle.old.stream = <<>> /\ Idle.old.queued = <<>>
  <1>1. /\ NoConn \in [conn : Conn, stream : Seq(Message), queued : Seq(Message)]
        /\ NoConn.stream = <<>> /\ NoConn.queued = <<>>
    BY DEF NoConn, Conn
  <1>2. <<>> \in Seq(Message)
    OBVIOUS
  <1>3. QED
    BY <1>1, <1>2 DEF Idle, Call

\* The hub's entry after a change of the connection.
LEMMA HubType ==
    ASSUME hub \in [net : Networks \cup {Nil}, here : BOOLEAN]
    PROVE  /\ [hub EXCEPT !.here = FALSE] \in [net : Networks \cup {Nil}, here : BOOLEAN]
           /\ NoHub \in [net : Networks \cup {Nil}, here : BOOLEAN]
  BY DEF NoHub

\* Initially.
LEMMA InitInv == Init => IInv
  <1> SUFFICES ASSUME Init PROVE IInv
    OBVIOUS
  <1>1. ServerOK
    BY DEF Init, ServerOK
  <1>2. LinkOK
    BY DEF Init, LinkOK, NoHub, Conn
  <1>3. CallOK
    BY IdleType DEF Init, CallOK, Answered
  <1>4. ClientOK
    BY <1>1, MapType DEF Init, ClientOK, NoTunnel
  <1>5. RevOK
    BY <1>1, MapType, IdleType DEF Init, RevOK, Answered, ServerOK, CurrentRev
  <1>6. QED
    BY <1>1, <1>2, <1>3, <1>4, <1>5 DEF IInv

\* What the client knows of a network stays known as revisions grow.
LEMMA KnownGrows ==
    ASSUME rev \in [Networks -> Nat], rev' \in [Networks -> Nat],
           \A n \in Networks : rev[n] <= rev'[n]
    PROVE  /\ Known \subseteq Known' /\ Seq(Known) \subseteq Seq(Known)'
           /\ Seq(Events) \subseteq Seq(Events)'
  <1>1. Known \subseteq Known' /\ Events \subseteq Events'
    BY DEF Known, CurrentRev, Events, IsEvent, Message
  <1>2. QED
    BY <1>1

\* Steps that leave a part of the state alone.
LEMMA LinkStays == LinkOK /\ UNCHANGED <<link, rev>> => LinkOK'
  BY DEF LinkOK, link, Known, CurrentRev, Events

\* The call under way.
LEMMA CallStays == CallOK /\ UNCHANGED <<call, rev, map>> => CallOK'
  BY DEF CallOK, Answered, Known, CurrentRev, Events

\* The state of the client.
LEMMA ClientStays == ClientOK /\ UNCHANGED client => ClientOK'
  BY DEF ClientOK, client

\* The relation of the map, the answer and the server's revision.
LEMMA RevStays ==
    RevOK /\ UNCHANGED <<call, rev, map>> /\ past \subseteq past' => RevOK'
  BY DEF RevOK, Answered, CurrentRev

\* sendTracked puts a message of the server on its way.
LEMMA SendTrackedKeeps ==
    ASSUME LinkOK, UNCHANGED rev, NEW m \in Known, SendTracked(m)
    PROVE  LinkOK'
  <1>1. Append(stream, m) \in Seq(Known)
    BY DEF LinkOK
  <1>2. stream' \in Seq(Known) /\ unacked' \subseteq Known
    BY <1>1 DEF SendTracked, LinkOK
  <1>3. QED
    BY <1>2 DEF LinkOK, SendTracked, Known, CurrentRev, Events

\* Revisions grow, and a message that is sent names none that is not reached.
LEMMA RevisionKeeps ==
    ASSUME IInv, ServerOK', \A n \in Networks : rev[n] <= rev'[n], NEW m \in Known',
           SendTracked(m) \/ UNCHANGED link, UNCHANGED <<call, client>>, past \subseteq past'
    PROVE  IInv'
  <1>1. rev \in [Networks -> Nat] /\ rev' \in [Networks -> Nat]
    BY DEF IInv, ServerOK
  <1>2. /\ Known \subseteq Known' /\ Seq(Known) \subseteq Seq(Known)'
        /\ Seq(Events) \subseteq Seq(Events)'
    BY <1>1, KnownGrows
  <1>3. LinkOK'
    <2>1. UNCHANGED <<hub, conn, queued>>
      BY DEF SendTracked, link
    <2>2. unacked' \in {unacked, unacked \cup {m}} /\ stream' \in {stream, Append(stream, m)}
      BY DEF SendTracked, link
    <2>3. unacked' \subseteq Known'
      BY <1>2, <2>2 DEF IInv, LinkOK
    <2>4. stream' \in Seq(Known)'
      <3>1. stream \in Seq(Known')
        BY <1>2 DEF IInv, LinkOK
      <3>2. Append(stream, m) \in Seq(Known')
        BY <3>1
      <3>3. QED
        BY <3>1, <3>2, <2>2
    <2>5. queued' \in Seq(Events)'
      BY <1>2, <2>1 DEF IInv, LinkOK
    <2>6. QED
      BY <2>1, <2>3, <2>4, <2>5 DEF IInv, LinkOK
  <1>4. UNCHANGED map
    BY DEF client
  <1>5. CallOK'
    BY <1>2, <1>4 DEF IInv, CallOK, Answered
  <1>6. RevOK'
    <2>1. map.net \in Networks /\ map.rev \in Nat
      BY DEF IInv, ClientOK, Maps
    <2>2. CurrentRev(map.net) \in Nat /\ CurrentRev(map.net)' \in Nat
          /\ CurrentRev(map.net) <= CurrentRev(map.net)'
      BY <1>1, <1>4, <2>1 DEF CurrentRev
    <2>3. Answered => call.map.rev \in Nat
      BY DEF IInv, CallOK, Maps
    <2>4. Answered' = Answered
      BY DEF Answered
    <2>5. QED
      BY <1>4, <2>1, <2>2, <2>3, <2>4 DEF IInv, RevOK
  <1>7. QED
    BY <1>3, <1>5, <1>6, ClientStays DEF IInv

\* The next revision of a network, or 1.
LEMMA NextRevGrows ==
    ASSUME ServerOK, NEW n \in Networks, NEW r, NextRev(n, r)
    PROVE  /\ rev' \in [Networks -> Nat] /\ \A k \in Networks : rev[k] <= rev'[k]
           /\ r \in Nat /\ r <= CurrentRev(n)' /\ faults' \in Nat
  BY DEF ServerOK, NextRev, CurrentRev, Fault

\* A change is announced, with a revision that its network then has.
LEMMA AnnounceKeeps ==
    ASSUME IInv, NEW c \in pending, AnnouncePeer(c) \/ AnnounceAddress(c)
    PROVE  IInv'
  <1>1. c \in Change /\ c.net \in Networks /\ c.who \in Peers \cup {Self} /\ c.v \in Nat
        /\ c.kind \in {"update", "remove", "address"} /\ c.left \in 1..2
    BY DEF IInv, ServerOK, Change
  <1>2. UNCHANGED <<call, client>> /\ past \subseteq past'
    BY DEF AnnouncePeer, AnnounceAddress
  <1>4. CASE AnnouncePeer(c)
    <2>1. CASE UNCHANGED <<rev, link, faults>>
      <3>1. ServerOK'
        BY <1>4, <2>1 DEF AnnouncePeer, IInv, ServerOK
      <3>2. \A n \in Networks : rev[n] <= rev'[n]
        BY <2>1 DEF IInv, ServerOK
      <3>3. Msg("enabled", c.net, Self, 0, 0, 0) \in Known'
        BY <1>1, <2>1 DEF Msg, Known, Message, CurrentRev, IInv, ServerOK
      <3>4. QED
        BY <1>2, <2>1, <3>1, <3>2, <3>3, RevisionKeeps
    <2>2. ASSUME NEW r, NextRev(c.net, r), c.who \in Peers,
                 \/ SendTracked(Msg(c.kind, c.net, c.who, addr[c.who], r, 0))
                 \/ UNCHANGED link
          PROVE  IInv'
      <3> DEFINE m == Msg(c.kind, c.net, c.who, addr[c.who], r, 0)
      <3>1. /\ rev' \in [Networks -> Nat] /\ \A k \in Networks : rev[k] <= rev'[k]
            /\ r \in Nat /\ r <= CurrentRev(c.net)' /\ faults' \in Nat
        BY <1>1, <2>2, NextRevGrows DEF IInv
      <3>2. ServerOK'
        BY <1>4, <3>1 DEF AnnouncePeer, IInv, ServerOK
      <3>3. m \in Message /\ m.net = c.net /\ m.rev = r /\ m.kind # "plan"
        BY <1>1, <2>2, <3>1 DEF Msg, Message, IInv, ServerOK
      <3> HIDE DEF m
      <3>4. m \in Known'
        BY <3>1, <3>3 DEF Known
      <3>5. QED
        BY <1>2, <2>2, <3>1, <3>2, <3>4, RevisionKeeps DEF m
    <2>3. c.who \in Peers
      BY <1>4 DEF AnnouncePeer, IInv, ServerOK, Change
    <2>4. QED
      BY <1>4, <2>1, <2>2, <2>3 DEF AnnouncePeer
  <1>5. CASE AnnounceAddress(c)
    <2>1. said' \in [Networks -> [no : Nat, v : Nat]]
      BY <1>1, <1>5 DEF AnnounceAddress, IInv, ServerOK
    <2>2. [c EXCEPT !.left = 1] \in Change
      BY <1>1 DEF Change
    <2>3. pending' \subseteq Change
      BY <1>5, <2>2 DEF AnnounceAddress, IInv, ServerOK
    <2>4. ServerOK'
      BY <1>5, <2>1, <2>3 DEF AnnounceAddress, IInv, ServerOK
    <2>5. PICK i \in Nat : SendTracked(Msg("address", c.net, c.who, c.v, 0, i)) \/ UNCHANGED link
      <3>1. said[c.net].no + 1 \in Nat /\ c.left \in Nat
        BY <1>1 DEF IInv, ServerOK
      <3>2. QED
        BY <1>5, <3>1 DEF AnnounceAddress
    <2>6. UNCHANGED rev
      BY <1>5 DEF AnnounceAddress
    <2>7. Msg("address", c.net, c.who, c.v, 0, i) \in Known'
      BY <1>1, <2>6 DEF Msg, Known, Message, CurrentRev, IInv, ServerOK
    <2>8. \A n \in Networks : rev[n] <= rev'[n]
      BY <2>6 DEF IInv, ServerOK
    <2>9. QED
      BY <1>2, <2>4, <2>5, <2>7, <2>8, RevisionKeeps
  <1>6. QED
    BY <1>4, <1>5

\* Addresses change.
LEMMA MovesType ==
    ASSUME IInv, NEW n \in Networks, NEW W, Moves(n, W)
    PROVE  own' \in [Networks -> Nat] /\ addr' \in [Peers -> Nat]
  BY DEF Moves, IInv, ServerOK

\* The range of a network changes.
LEMMA RangeKeeps ==
    ASSUME IInv, NEW n \in Networks, RangeChanges(n)
    PROVE  IInv'
  <1>1. own' \in [Networks -> Nat] /\ addr' \in [Peers -> Nat]
    BY MovesType DEF RangeChanges
  <1>2. rev' \in [Networks -> Nat] /\ (\A k \in Networks : rev[k] <= rev'[k]) /\ faults' \in Nat
    BY DEF RangeChanges, Fault, IInv, ServerOK
  <1>3. ServerOK' /\ past \subseteq past' /\ UNCHANGED <<call, client>>
    BY <1>1, <1>2 DEF RangeChanges, Changes, IInv, ServerOK
  <1>4. PICK r \in {0, rev[n] + 1} :
            /\ SendTracked(Msg("restart", n, Self, 0, r, 0)) \/ UNCHANGED link
            /\ r <= CurrentRev(n)'
    BY <1>2 DEF RangeChanges, CurrentRev, IInv, ServerOK
  <1>5. Msg("restart", n, Self, 0, r, 0) \in Known'
    BY <1>4 DEF Msg, Known, Message, IInv, ServerOK
  <1>6. QED
    BY <1>2, <1>3, <1>4, <1>5, RevisionKeeps

\* The steps of the control plane and of the network.
LEMMA ServerKeeps ==
    ASSUME IInv, Server
    PROVE  IInv'
  <1> USE DEF IInv
  <1>1. ASSUME NEW p \in Peers, PeerComes(p) \/ PeerLeaves(p) PROVE IInv'
    <2>1. UNCHANGED <<rev, link, call, client, map, past>>
      BY <1>1 DEF PeerComes, PeerLeaves, client
    <2>2. ServerOK'
      <3>1. Came("update", p) \in Change /\ Came("remove", p) \in Change
        BY HomeAssumption DEF Change, Came
      <3>2. online' \subseteq Peers /\ pending' \subseteq Change /\ changes' \in Nat
        BY <1>1, <3>1 DEF PeerComes, PeerLeaves, Changes, ServerOK
      <3>3. QED
        BY <1>1, <3>2 DEF PeerComes, PeerLeaves, ServerOK
    <2>3. QED
      BY <2>1, <2>2, LinkStays, CallStays, ClientStays, RevStays
  <1>2. ASSUME NEW n \in Networks, NEW w \in Peers \cup {Self}, Readdress(n, w) PROVE IInv'
    <2>1. UNCHANGED <<rev, link, call, client, map>> /\ past \subseteq past'
      BY <1>2 DEF Readdress, client
    <2>2. own' \in [Networks -> Nat] /\ addr' \in [Peers -> Nat]
      BY <1>2, MovesType DEF Readdress
    <2>3. pending' \subseteq Change
      <3> DEFINE v == IF w = Self THEN own'[n] ELSE addr'[w]
                 c == [kind |-> "address", net |-> n, who |-> w, v |-> v, left |-> 1]
      <3>1. v \in Nat
        BY <2>2
      <3>2. c \in Change /\ [c EXCEPT !.left = 2] \in Change
        BY <3>1 DEF Change
      <3>3. pending' \subseteq pending \cup {c, [c EXCEPT !.left = 2]}
        BY <1>2 DEF Readdress
      <3>4. QED
        BY <3>2, <3>3 DEF ServerOK
    <2>4. ServerOK'
      BY <1>2, <2>2, <2>3 DEF Readdress, Changes, Fault, ServerOK
    <2>5. QED
      BY <2>1, <2>4, LinkStays, CallStays, ClientStays, RevStays
  <1>3. ASSUME NEW m \in unacked, Resend(m) PROVE IInv'
    <2>1. UNCHANGED <<rev, call, client, map>> /\ past \subseteq past'
      BY <1>3 DEF Resend, client, server
    <2>2. ServerOK'
      BY <1>3 DEF Resend, Fault, ServerOK, server
    <2>3. LinkOK'
      BY <1>3, <2>1, SendTrackedKeeps DEF Resend, LinkOK
    <2>4. QED
      BY <2>1, <2>2, <2>3, CallStays, ClientStays, RevStays
  <1>4. ASSUME HubForgets \/ ConnectionBreaks PROVE IInv'
    <2>1. UNCHANGED <<server, host, rev, call, client, map, past>>
      BY <1>4 DEF HubForgets, ConnectionBreaks, client, server
    <2>2. ServerOK'
      BY <1>4, <2>1 DEF HubForgets, ConnectionBreaks, Fault, ServerOK, server
    <2>3. LinkOK'
      <3>1. Known' = Known /\ Events' = Events
        BY <2>1 DEF Known, CurrentRev, Events
      <3>2. UNCHANGED <<unacked, queued>> /\ stream' \in {stream, <<>>} /\ conn' \in Conn
        BY <1>4 DEF HubForgets, ConnectionBreaks, LinkOK, Conn
      <3>3. hub' \in [net : Networks \cup {Nil}, here : BOOLEAN]
        <4>1. hub' = NoHub \/ hub' = [hub EXCEPT !.here = FALSE]
          BY <1>4 DEF HubForgets, ConnectionBreaks
        <4>2. QED
          BY <4>1, HubType DEF LinkOK
      <3>4. stream' \in Seq(Known)
        <4>1. stream \in Seq(Known) /\ <<>> \in Seq(Known)
          BY DEF LinkOK
        <4>2. QED
          BY <3>2, <4>1
      <3>5. QED
        BY <3>1, <3>2, <3>3, <3>4 DEF LinkOK
    <2>4. QED
      BY <2>1, <2>2, <2>3, CallStays, ClientStays, RevStays
  <1>5. ASSUME NEW kind \in {"plan", "candidate", "enabled"}, NEW n \in Networks,
               NEW w \in Peers \cup {Self}, kind = "plan" => w \in Peers, Notify(kind, n, w)
        PROVE  IInv'
    <2>1. UNCHANGED <<rev, call, client, map, past>>
      BY <1>5 DEF Notify, client
    <2>2. ServerOK'
      BY <1>5 DEF Notify, Changes, ServerOK
    <2>3. Msg(kind, n, w, 0, 0, 0) \in Known
      BY <1>5 DEF Msg, Known, Message, CurrentRev, ServerOK
    <2>4. LinkOK'
      BY <1>5, <2>1, <2>3, SendTrackedKeeps DEF Notify
    <2>5. QED
      BY <2>1, <2>2, <2>4, CallStays, ClientStays, RevStays
  <1>6. QED
    BY <1>1, <1>2, <1>3, <1>4, <1>5, AnnounceKeeps, RangeKeeps, HomeAssumption DEF Server

\* A sync that ends with the map it has or with a map of the server.
LEMMA SyncReturns ==
    ASSUME IInv, call' = Idle, UNCHANGED rev, past \subseteq past',
           \/ map' = map
           \/ Answered /\ map' = call.map
           \/ \E n \in Networks : map' \in Built(n)
    PROVE  CallOK' /\ RevOK' /\ map' \in Maps
  <1>1. CallOK'
    BY IdleType DEF CallOK, Answered
  <1>2. map' \in Maps /\ ("foreign" \notin past => map'.rev <= CurrentRev(map'.net))
    BY BuiltType DEF IInv, ClientOK, CallOK, RevOK
  <1>3. CurrentRev(map.net)' = CurrentRev(map'.net)
    BY DEF CurrentRev
  <1>4. RevOK'
    BY <1>2, <1>3, IdleType DEF RevOK, Answered
  <1>5. QED
    BY <1>1, <1>2, <1>4

\* A confirmation.
LEMMA ConfirmedType ==
    ASSUME faults \in Nat, NEW m, Confirmed(m)
    PROVE  unacked' \subseteq unacked /\ faults' \in Nat
  BY DEF Confirmed, Fault

\* A sync fails.
LEMMA SyncFailsKeeps ==
    ASSUME IInv, NEW read \in BOOLEAN, read => stream # <<>>, SyncFails(read),
           unacked' \subseteq unacked, faults' \in Nat, UNCHANGED <<server, host, client>>
    PROVE  IInv'
  <1>1. ServerOK' /\ UNCHANGED <<rev, map>> /\ past \subseteq past'
    BY DEF IInv, ServerOK, SyncFails, server, client
  <1>2. Known' = Known /\ Events' = Events
    BY <1>1 DEF Known, CurrentRev, Events
  <1>3. call.old.conn \in Conn
    BY DEF IInv, CallOK, Call
  <1>4. hub' \in [net : Networks \cup {Nil}, here : BOOLEAN] /\ conn' \in Conn
    BY <1>3 DEF IInv, LinkOK, SyncFails
  <1>5. stream' \in Seq(Known) /\ queued' \in Seq(Events)
    <2>1. stream # <<>> => Tail(stream) \in Seq(Known)
      BY DEF IInv, LinkOK
    <2>2. QED
      BY <2>1 DEF IInv, LinkOK, CallOK, SyncFails
  <1>6. LinkOK'
    BY <1>2, <1>4, <1>5 DEF IInv, LinkOK
  <1>7. CallOK' /\ RevOK'
    BY <1>1, SyncReturns DEF SyncFails
  <1>8. QED
    BY <1>1, <1>6, <1>7, ClientStays DEF IInv

\* A call with other values in the fields that events change.
With(mp, ps, us, en) == [call EXCEPT !.map = mp, !.plans = ps, !.ups = us, !.enabled = en]

\* Such a call is a call.
LEMMA CallFields ==
    ASSUME call \in Call, NEW mp \in Maps, NEW ps \in SUBSET Peers, NEW us \in Seq(Message),
           NEW en \in Networks \cup {Nil}
    PROVE  /\ With(mp, ps, us, en) \in Call
           /\ With(mp, ps, us, en).at = call.at /\ With(mp, ps, us, en).old = call.old
           /\ With(mp, ps, us, en).map = mp
  BY DEF Call, With

\* The count of events read.
LEMMA ReadField ==
    ASSUME NEW c \in Call, NEW k \in Nat
    PROVE  /\ [c EXCEPT !.read = k] \in Call
           /\ [c EXCEPT !.read = k].at = c.at /\ [c EXCEPT !.read = k].old = c.old
           /\ [c EXCEPT !.read = k].map = c.map
  BY DEF Call

\* An event is applied to the call: its map stays one of its network, and its
\* revision grows to that of the event at most.
LEMMA AppliedType ==
    ASSUME call \in Call, call.map \in Maps, rev \in [Networks -> Nat], NEW m \in Events
    PROVE  /\ Applied(call, m) \in Call /\ Applied(call, m).map \in Maps
           /\ Applied(call, m).at = call.at /\ Applied(call, m).old = call.old
           /\ Applied(call, m).map.net = call.map.net
           /\ Applied(call, m).map.counted = call.map.counted
           /\ call.map.rev <= Applied(call, m).map.rev
           /\ \/ Applied(call, m).map.rev = call.map.rev
              \/ m.kind \in {"update", "remove"} /\ Applied(call, m).map.rev = m.rev
  <1>1. /\ m \in Message /\ m.rev \in Nat /\ m.v \in Nat /\ m.net \in Networks
        /\ m.kind \in {"update", "remove", "address", "plan", "enabled", "restart"}
        /\ m.kind = "plan" => m.who \in Peers
    BY DEF Events, Known, Message, IsEvent
  <1>2. call.map.rev \in Nat /\ call.map.peers \in [Peers -> Nat] /\ call.map.net \in Networks
        /\ call.map.counted \in BOOLEAN
        /\ call.map = [net |-> call.map.net, rev |-> call.map.rev,
                       counted |-> call.map.counted, peers |-> call.map.peers]
    BY DEF Maps
  <1>3. Newer(call, m) \in {call.map.rev, m.rev} /\ call.map.rev <= Newer(call, m)
        /\ Newer(call, m) \in Nat
    BY <1>1, <1>2 DEF Newer
  <1>4. /\ call.plans \in SUBSET Peers /\ call.ups \in Seq(Message)
        /\ call.enabled \in Networks \cup {Nil} /\ call.read \in Nat
        /\ Append(call.ups, m) \in Seq(Message)
    BY <1>1 DEF Call
  <1>5. CASE m.kind \in {"update", "remove"}
    <2> DEFINE v == IF m.kind = "update" THEN m.v ELSE 0
               mp == [net |-> call.map.net, rev |-> Newer(call, m),
                      counted |-> call.map.counted,
                      peers |-> [call.map.peers EXCEPT ![m.who] = v]]
               ps == IF m.kind = "update" THEN call.plans ELSE call.plans \ {m.who}
    <2>1. Applied(call, m) = With(mp, ps, call.ups, call.enabled)
      <3>1. CASE m.kind = "update"
        <4>1. Applied(call, m) = [call EXCEPT !.map.rev = Newer(call, m), !.map.peers[m.who] = m.v]
          BY <3>1 DEF Applied
        <4>2. QED
          BY <1>2, <3>1, <4>1 DEF Call, With
      <3>2. CASE m.kind = "remove"
        <4>1. Applied(call, m) = [call EXCEPT !.map.rev = Newer(call, m), !.map.peers[m.who] = 0,
                                              !.plans = @ \ {m.who}]
          BY <3>2 DEF Applied
        <4>2. QED
          BY <1>2, <3>2, <4>1 DEF Call, With
      <3>3. QED
        BY <1>5, <3>1, <3>2
    <2>2. mp \in Maps /\ ps \in SUBSET Peers /\ mp.net = call.map.net /\ mp.rev = Newer(call, m)
          /\ mp.counted = call.map.counted
      BY <1>1, <1>2, <1>3, <1>4 DEF Maps
    <2> HIDE DEF mp, ps
    <2>3. QED
      BY <1>3, <1>4, <1>5, <2>1, <2>2, CallFields
  <1>6. CASE m.kind \in {"plan", "enabled"}
    <2> DEFINE ps == IF m.kind = "plan" THEN call.plans \cup {m.who} ELSE call.plans
               en == IF m.kind = "enabled" THEN m.net ELSE call.enabled
    <2>1. Applied(call, m) = With(call.map, ps, call.ups, en)
      <3>1. CASE m.kind = "plan"
        BY <3>1 DEF Applied, Call, With
      <3>2. CASE m.kind = "enabled"
        BY <3>2 DEF Applied, Call, EnabledNetwork, With
      <3>3. QED
        BY <1>6, <3>1, <3>2
    <2>2. ps \in SUBSET Peers /\ en \in Networks \cup {Nil}
      BY <1>1, <1>4
    <2> HIDE DEF ps, en
    <2>3. QED
      BY <1>2, <1>4, <2>1, <2>2, CallFields
  <1>7. CASE m.kind = "address"
    <2> DEFINE ad == IF m.who \in Peers /\ m.net = call.map.net /\ call.map.peers[m.who] # 0
                     THEN [call.map.peers EXCEPT ![m.who] = m.v] ELSE call.map.peers
               mp == [net |-> call.map.net, rev |-> call.map.rev,
                      counted |-> call.map.counted, peers |-> ad]
               us == Append(call.ups, m)
    <2>1. Applied(call, m) = With(mp, call.plans, us, call.enabled)
      <3>1. Applied(call, m) = [call EXCEPT !.ups = Append(@, m), !.map.peers = ad]
        BY <1>7 DEF Applied
      <3> HIDE DEF ad
      <3>2. QED
        BY <1>2, <3>1 DEF Call, With
    <2>2. mp \in Maps /\ mp.net = call.map.net /\ mp.rev = call.map.rev
          /\ mp.counted = call.map.counted
      BY <1>1, <1>2 DEF Maps
    <2> us \in Seq(Message)
      BY <1>4
    <2> HIDE DEF mp, us
    <2>3. /\ Applied(call, m) \in Call /\ Applied(call, m).at = call.at
          /\ Applied(call, m).old = call.old /\ Applied(call, m).map = mp
      BY <1>4, <2>1, <2>2, CallFields
    <2>4. QED
      BY <1>2, <2>2, <2>3
  <1>8. CASE m.kind = "restart"
    BY <1>2, <1>8 DEF Applied
  <1>9. QED
    BY <1>1, <1>5, <1>6, <1>7, <1>8

\* The map request: connecting, waiting and the answer.
LEMMA AskingKeeps ==
    ASSUME IInv, SyncBegins \/ Connect \/ ServerAnswers \/ QueueEvent \/ ReadMap
    PROVE  IInv'
  <1> USE DEF IInv, At
  <1>1. CASE SyncBegins
    <2>1. UNCHANGED <<server, link, host, client, faults, past, rev, map>>
      BY <1>1 DEF SyncBegins, server, client
    <2>2. call' \in {[Idle EXCEPT !.at = "connect"], [Idle EXCEPT !.at = "asked"]}
      BY <1>1 DEF SyncBegins
    <2>3. call' \in Call /\ call'.old = Idle.old /\ call'.at \in {"connect", "asked"}
      BY <2>2, IdleType DEF Call
    <2>4. CallOK' /\ RevOK'
      BY <2>1, <2>3, IdleType DEF CallOK, RevOK, Answered, CurrentRev
    <2>5. ServerOK'
      BY <2>1 DEF ServerOK, server
    <2>6. QED
      BY <2>1, <2>4, <2>5, LinkStays, ClientStays
  <1>2. CASE Connect
    <2>1. UNCHANGED <<server, host, client, faults, past, rev, map, unacked>>
      BY <1>2 DEF Connect, server, client
    <2>2. Known' = Known /\ Events' = Events
      BY <2>1 DEF Known, CurrentRev, Events
    <2>3. /\ hub' \in [net : Networks \cup {Nil}, here : BOOLEAN] /\ conn' \in Conn
          /\ stream' = <<>> /\ queued' = <<>>
      BY <1>2 DEF Connect, Conn, ClientOK, Maps
    <2>4. LinkOK'
      BY <2>1, <2>2, <2>3 DEF LinkOK
    <2>5. Known \subseteq Message /\ Events \subseteq Message
      BY DEF Known, CurrentRev, Events
    <2>6. /\ stream \in Seq(Known) /\ queued \in Seq(Events) /\ conn \in Conn
          /\ stream \in Seq(Message) /\ queued \in Seq(Message)
      BY <2>5 DEF LinkOK
    <2> DEFINE o == [conn |-> conn, stream |-> stream, queued |-> queued]
    <2>7. o \in [conn : Conn, stream : Seq(Message), queued : Seq(Message)]
          /\ o.stream = stream /\ o.queued = queued
      BY <2>6
    <2> HIDE DEF o
    <2>8. call' = [call EXCEPT !.at = "asked", !.fresh = TRUE, !.old = o]
      BY <1>2 DEF Connect, o
    <2>9. call' \in Call /\ call'.at = "asked" /\ call'.old = o
      BY <2>7, <2>8 DEF CallOK, Call
    <2>10. CallOK'
      BY <2>2, <2>6, <2>7, <2>9 DEF CallOK, Answered
    <2>11. RevOK'
      BY <2>1, <2>9 DEF RevOK, Answered, CurrentRev
    <2>12. ServerOK'
      BY <2>1 DEF ServerOK, server
    <2>13. QED
      BY <2>1, <2>4, <2>10, <2>11, <2>12, ClientStays
  <1>3. CASE ServerAnswers
    <2>0. faults' \in Nat
      <3>1. UNCHANGED faults \/ Fault
        BY <1>3 DEF ServerAnswers
      <3>2. QED
        BY <3>1 DEF Fault, ServerOK
    <2>1. UNCHANGED <<server, link, host, client, past, rev, map>>
      BY <1>3 DEF ServerAnswers, server, client
    <2>2. Len(stream) \in Nat
      BY DEF LinkOK
    <2>3. map.net \in Networks /\ map.rev \in Nat
      BY DEF ClientOK, Maps
    <2>4. PICK m \in Built(map.net) :
               call' = [call EXCEPT !.at = "awaited", !.map = m, !.ahead = Len(stream)]
      BY <1>3 DEF ServerAnswers
    <2>5. /\ m \in Maps /\ m.net = map.net /\ CurrentRev(map.net) \in Nat
          /\ m.rev <= CurrentRev(map.net) /\ (m.counted => m.rev = CurrentRev(map.net))
      BY <2>3, <2>4, BuiltType
    <2>6. call' \in Call /\ call'.at = "awaited" /\ call'.old = call.old /\ call'.map = m
      BY <2>2, <2>4, <2>5 DEF CallOK, Call
    <2>7. CallOK'
      BY <2>1, <2>5, <2>6 DEF CallOK, Answered, Known, CurrentRev, Events
    <2>8. RevOK'
      <3>1. CurrentRev(map.net)' = CurrentRev(map.net)
        BY <2>1 DEF CurrentRev
      <3>2. QED
        BY <2>1, <2>5, <2>6, <3>1 DEF RevOK
    <2>9. ServerOK'
      BY <2>0, <2>1 DEF ServerOK, server
    <2>10. QED
      BY <2>1, <2>7, <2>8, <2>9, LinkStays, ClientStays
  <1>4. CASE QueueEvent
    <2>1. UNCHANGED <<server, hub, conn, host, client, past, rev, map>>
      BY <1>4 DEF QueueEvent, server, client
    <2>2. Known' = Known /\ Events' = Events
      BY <2>1 DEF Known, CurrentRev, Events
    <2>3. Head(stream) \in Known /\ Tail(stream) \in Seq(Known) /\ Head(stream) \in Events
      <3>1. stream # <<>> /\ stream \in Seq(Known) /\ IsEvent(Head(stream))
        BY <1>4 DEF QueueEvent, LinkOK
      <3>2. Head(stream) \in Known /\ Tail(stream) \in Seq(Known)
        BY <3>1
      <3>3. QED
        BY <3>1, <3>2 DEF Events
    <2>4. stream' \in Seq(Known) /\ queued' \in Seq(Events)
      BY <1>4, <2>3 DEF QueueEvent, LinkOK
    <2>5. unacked' \subseteq unacked /\ faults' \in Nat
      BY <1>4, ConfirmedType DEF QueueEvent, ServerOK
    <2>6. LinkOK'
      BY <2>1, <2>2, <2>4, <2>5 DEF LinkOK
    <2>7. ServerOK'
      BY <2>1, <2>5 DEF ServerOK, server
    <2>8. \E k \in Nat : call' = [call EXCEPT !.ahead = k]
      <3>1. call.ahead \in Nat
        BY DEF CallOK, Call
      <3>2. At("awaited") => call.ahead - 1 \in Nat
        BY <1>4, <3>1 DEF QueueEvent, Waiting
      <3>3. QED
        BY <1>4, <3>1, <3>2 DEF QueueEvent
    <2>9. call' \in Call /\ call'.at = call.at /\ call'.old = call.old
          /\ call'.map = call.map /\ call'.enabled = call.enabled
      BY <2>8 DEF CallOK, Call
    <2>10. CallOK' /\ RevOK'
      BY <2>1, <2>2, <2>9 DEF CallOK, RevOK, Answered, CurrentRev
    <2>11. QED
      BY <2>1, <2>6, <2>7, <2>10, ClientStays
  <1>5. CASE ReadMap
    <2>1. UNCHANGED <<server, link, host, client, faults, past, rev, map>>
      BY <1>5 DEF ReadMap, server, client
    <2>2. PICK ps \in SUBSET Peers :
               call' = [call EXCEPT !.at = "drain", !.map = call.map, !.plans = ps]
      BY <1>5 DEF ReadMap, Fetched, ClientOK
    <2>3. call' \in Call /\ call'.at = "drain" /\ call'.old = call.old /\ call'.map = call.map
      BY <2>2 DEF CallOK, Call, Maps, NoMap
    <2>4. call.at = "awaited"
      BY <1>5 DEF ReadMap
    <2>5. CallOK' /\ RevOK'
      BY <2>1, <2>3, <2>4 DEF CallOK, RevOK, Answered, Known, CurrentRev, Events
    <2>6. ServerOK'
      BY <2>1 DEF ServerOK, server
    <2>7. QED
      BY <2>1, <2>5, <2>6, LinkStays, ClientStays
  <1>6. QED
    BY <1>1, <1>2, <1>3, <1>4, <1>5


\* A set of natural numbers has a least one.
LEMMA NatLeast ==
    ASSUME NEW T \in SUBSET Nat, T # {}
    PROVE  \E i \in T : \A j \in T : i <= j
  <1>1. PICK i \in T : \A j \in T : ~ (<<j, i>> \in OpToRel(<, Nat))
    BY WFMin, NatLessThanWellFounded
  <1>2. \A j \in T : ~ (j < i)
    BY <1>1 DEF OpToRel
  <1>3. \A j \in T : i <= j
    BY <1>2
  <1>4. QED
    BY <1>3

\* The first and the last update of an address are among the updates.
LEMMA UpdateChosen ==
    ASSUME NEW c \in Call, NEW T \in SUBSET (DOMAIN c.ups), T # {}
    PROVE  /\ c.ups[First(T)].v \in Nat /\ c.ups[Last(T)].v \in Nat
           /\ Last(T) \in T /\ \A j \in T : Last(T) >= j
  <1>1. c.ups \in Seq(Message) /\ Len(c.ups) \in Nat /\ DOMAIN c.ups = 1 .. Len(c.ups)
    BY DEF Call
  <1>2. T \subseteq Nat /\ \A i \in T : i <= Len(c.ups) /\ c.ups[i] \in Message
    BY <1>1
  <1>3. First(T) \in T
    BY <1>2, NatLeast DEF First
  <1>4. Last(T) \in T /\ \A j \in T : Last(T) >= j
    <2> DEFINE D == {Len(c.ups) - i : i \in T}
    <2>1. D \in SUBSET Nat /\ D # {}
      BY <1>1, <1>2
    <2>2. PICK d \in D : \A e \in D : d <= e
      BY <2>1, NatLeast
    <2>3. PICK i \in T : d = Len(c.ups) - i
      OBVIOUS
    <2>4. \A j \in T : i >= j
      <3>1. SUFFICES ASSUME NEW j \in T PROVE i >= j
        OBVIOUS
      <3>2. Len(c.ups) - i <= Len(c.ups) - j
        BY <2>2, <2>3
      <3>3. QED
        BY <1>1, <1>2, <3>2
    <2>5. QED
      BY <2>4 DEF Last
  <1>5. QED
    BY <1>2, <1>3, <1>4 DEF Message

\* The addresses that a sync commits.
LEMMA AddressTypes ==
    ASSUME IInv, Answered
    PROVE  OwnAddress(call) \in Nat /\ (tunnel.kind = "p2p" => PeerAddress(call) \in Nat)
  <1>1. call \in Call /\ call.map \in Maps /\ dev \in Nat /\ map \in Maps
    BY DEF IInv, CallOK, ClientOK
  <1>2. OwnUpdates(call) \in SUBSET (DOMAIN call.ups)
        /\ PeerUpdates(call) \in SUBSET (DOMAIN call.ups)
    BY DEF OwnUpdates, PeerUpdates
  <1>3. OwnAddress(call) \in Nat
    BY <1>1, <1>2, UpdateChosen DEF OwnAddress
  <1>4. ASSUME tunnel.kind = "p2p" PROVE PeerAddress(call) \in Nat
    <2>1. call.map.peers[tunnel.peer] \in Nat /\ map.peers[tunnel.peer] \in Nat
      BY <1>1, <1>4 DEF IInv, ClientOK, Maps
    <2>2. PeerUpdates(call) # {} => call.ups[First(PeerUpdates(call))].v \in Nat
      BY <1>1, <1>2, UpdateChosen
    <2>3. QED
      BY <2>1, <2>2 DEF PeerAddress
  <1>5. QED
    BY <1>3, <1>4


\* The events are applied and the new state is committed.
LEMMA DrainKeeps ==
    ASSUME IInv, DrainEvent \/ DrainEnds \/ DrainTorn
    PROVE  IInv'
  <1> USE DEF IInv, At
  <1>1. CASE DrainEvent
    <2>1. UNCHANGED <<server, hub, conn, host, client, rev, map>> /\ call.at = "drain"
      BY <1>1 DEF DrainEvent, server, client
    <2>2. Known' = Known /\ Events' = Events
      BY <2>1 DEF Known, CurrentRev, Events
    <2>3. PICK m \in Events :
               /\ Apply(m) /\ stream' \in Seq(Known) /\ queued' \in Seq(Events)
               /\ unacked' \subseteq unacked /\ faults' \in Nat
      <3>1. CASE /\ queued # <<>> /\ Apply(Head(queued)) /\ queued' = Tail(queued)
                 /\ UNCHANGED <<unacked, stream, faults>>
        <4>1. Head(queued) \in Events /\ Tail(queued) \in Seq(Events)
          BY <3>1 DEF LinkOK
        <4>2. stream' \in Seq(Known) /\ faults' \in Nat
          BY <3>1 DEF LinkOK, ServerOK
        <4>3. QED
          BY <3>1, <4>1, <4>2
      <3>2. CASE /\ queued = <<>> /\ stream # <<>> /\ IsEvent(Head(stream))
                 /\ Apply(Head(stream)) /\ stream' = Tail(stream)
                 /\ Confirmed(Head(stream)) /\ UNCHANGED queued
        <4>1. Head(stream) \in Known /\ Tail(stream) \in Seq(Known)
          BY <3>2 DEF LinkOK
        <4>2. Head(stream) \in Events
          BY <3>2, <4>1 DEF Events
        <4>3. unacked' \subseteq unacked /\ faults' \in Nat
          BY <3>2, ConfirmedType DEF ServerOK
        <4>4. queued' \in Seq(Events)
          BY <3>2 DEF LinkOK
        <4>5. QED
          BY <3>2, <4>1, <4>2, <4>3, <4>4
      <3>3. QED
        BY <1>1, <3>1, <3>2 DEF DrainEvent
    <2>4. LinkOK'
      BY <2>1, <2>2, <2>3 DEF LinkOK
    <2>5. past \subseteq past' /\ ServerOK'
      BY <2>1, <2>3 DEF Apply, ServerOK, server
    <2>6. call \in Call /\ call.map \in Maps /\ call.map.net = map.net /\ Answered
          /\ rev \in [Networks -> Nat]
      BY <2>1 DEF CallOK, Answered, ServerOK
    <2> DEFINE c == Applied(call, m)
    <2>7. /\ c \in Call /\ c.map \in Maps /\ c.at = call.at /\ c.old = call.old
          /\ c.map.net = call.map.net /\ call.map.rev <= c.map.rev
          /\ c.map.counted = call.map.counted
          /\ c.map.rev = call.map.rev \/ (m.kind \in {"update", "remove"} /\ c.map.rev = m.rev)
      BY <2>6, AppliedType
    <2>8. call' = [c EXCEPT !.read = c.read + 1]
      BY <2>3 DEF Apply
    <2> HIDE DEF c
    <2>9. call' \in Call /\ call'.at = "drain" /\ call'.old = call.old /\ call'.map = c.map
      <3>1. c.read + 1 \in Nat
        BY <2>7 DEF Call
      <3>2. call' \in Call /\ call'.at = c.at /\ call'.old = c.old /\ call'.map = c.map
        BY <2>7, <2>8, <3>1, ReadField
      <3>3. QED
        BY <2>1, <2>7, <3>2
    <2>10. CallOK'
      BY <2>1, <2>2, <2>6, <2>7, <2>9 DEF CallOK, Answered
    <2>11. RevOK'
      <3>0. CurrentRev(map.net)' = CurrentRev(map.net) /\ CurrentRev(map.net) \in Nat
        BY <2>1, <2>6 DEF CurrentRev, ClientOK, Maps
      <3> SUFFICES ASSUME "foreign" \notin past'
                   PROVE  /\ map.rev <= CurrentRev(map.net)
                          /\ c.map.rev <= CurrentRev(map.net)
                          /\ c.map.counted => map.rev <= c.map.rev
        BY <2>1, <2>9, <3>0 DEF RevOK
      <3>1. "foreign" \notin past
        BY <2>5
      <3>2. /\ map.rev <= CurrentRev(map.net) /\ call.map.rev <= CurrentRev(map.net)
            /\ call.map.counted => map.rev <= call.map.rev
        BY <2>6, <3>1 DEF RevOK
      <3>3. map.rev \in Nat /\ call.map.rev \in Nat /\ c.map.rev \in Nat
        BY <2>6, <2>7 DEF ClientOK, Maps
      <3>4. m.kind \in {"update", "remove"} => m.net = call.map.net /\ m.rev <= CurrentRev(m.net)
        BY <2>3 DEF Apply, Events, Known
      <3>5. c.map.rev <= CurrentRev(map.net)
        BY <2>6, <2>7, <3>2, <3>4
      <3>6. QED
        BY <2>7, <3>2, <3>3, <3>5
    <2>12. QED
      BY <2>1, <2>4, <2>5, <2>10, <2>11, ClientStays
  <1>2. CASE DrainEnds \/ DrainTorn
    <2>1. UNCHANGED <<server, unacked, queued, host, client, past, rev, map>> /\ call.at = "drain"
      BY <1>2 DEF DrainEnds, DrainTorn, server, client, link
    <2>2. Known' = Known /\ Events' = Events
      BY <2>1 DEF Known, CurrentRev, Events
    <2>3. hub' \in [net : Networks \cup {Nil}, here : BOOLEAN]
      <3>1. hub' = hub \/ hub' = [hub EXCEPT !.here = FALSE]
        BY <1>2 DEF DrainEnds, DrainTorn, link
      <3>2. QED
        BY <3>1, HubType DEF LinkOK
    <2>4. conn' \in Conn /\ stream' \in Seq(Known)
      <3>1. conn \in Conn /\ stream \in Seq(Known) /\ <<>> \in Seq(Known) /\ "broken" \in Conn
        BY DEF LinkOK, Conn
      <3>2. conn' \in {conn, "broken"} /\ stream' \in {stream, <<>>}
        BY <1>2 DEF DrainEnds, DrainTorn, link
      <3>3. QED
        BY <3>1, <3>2
    <2>5. LinkOK'
      BY <2>1, <2>2, <2>3, <2>4 DEF LinkOK
    <2>6. faults' \in Nat
      BY <1>2 DEF DrainEnds, DrainTorn, Fault, ServerOK
    <2>7. ServerOK'
      BY <2>1, <2>6 DEF ServerOK, server
    <2>8. PICK a \in {"switch", "commit"} :
               call' = [call EXCEPT !.at = a] /\ (a = "switch" => call.enabled # Nil)
      BY <1>2 DEF DrainEnds, DrainTorn, Drained, Goto
    <2>9. call' \in Call /\ call'.at = a /\ call'.old = call.old /\ call'.map = call.map
          /\ call'.enabled = call.enabled /\ call.enabled \in Networks \cup {Nil}
      BY <2>8 DEF CallOK, Call
    <2>10. CallOK'
      BY <2>1, <2>2, <2>8, <2>9 DEF CallOK, Answered
    <2>11. RevOK'
      BY <2>1, <2>9 DEF RevOK, Answered, CurrentRev
    <2>12. QED
      BY <2>1, <2>5, <2>7, <2>10, <2>11, ClientStays
  <1>3. QED
    BY <1>1, <1>2

\* A sync or another call of the host sets the state of the client.
LEMMA CommitKeeps ==
    ASSUME IInv,
           \/ CliSync \/ Commit \/ ReapplyFails \/ Switch \/ SwitchFails \/ ConnectFails
           \/ ConnectRefused \/ Disconnect
           \/ \E n \in Networks : Bootstrap(n) \/ Restart(n)
           \/ \E p \in Peers, kind \in Kinds : ConnectPeer(p, kind)
    PROVE  IInv'
  <1> USE DEF IInv, At
  <1> DEFINE T == [kind : {"none", "p2p", "derp"}, peer : Peers \cup {Nil}, at : Nat]
  <1>0. NoTunnel \in T /\ NoTunnel.kind = "none"
    BY DEF NoTunnel
  <1>1. CASE CliSync
    <2>1. UNCHANGED <<server, unacked, host, plans, dev, tunnel, faults, rev>> /\ past \subseteq past'
          /\ Answered
      BY <1>1 DEF CliSync, server, Answered
    <2>2. CallOK' /\ RevOK' /\ map' \in Maps
      BY <1>1, <2>1, SyncReturns DEF CliSync
    <2>3. ClientOK'
      BY <2>1, <2>2 DEF ClientOK
    <2>4. ServerOK'
      BY <1>1, <2>1 DEF CliSync, ServerOK, server
    <2>5. hub' \in [net : Networks \cup {Nil}, here : BOOLEAN]
      BY <1>1, HubType DEF CliSync, LinkOK
    <2>6. conn' \in Conn /\ stream' = <<>> /\ queued' = <<>>
      BY <1>1 DEF CliSync, Conn
    <2>7. LinkOK'
      BY <2>1, <2>5, <2>6 DEF LinkOK, Known, CurrentRev, Events
    <2>8. QED
      BY <2>2, <2>3, <2>4, <2>7
  <1>2. CASE Commit \/ ReapplyFails
    <2>1. UNCHANGED <<server, link, host, rev>> /\ past \subseteq past' /\ Answered
          /\ map' = call.map /\ plans' = call.plans /\ dev' = OwnAddress(call) /\ call' = Idle
      BY <1>2 DEF Commit, ReapplyFails, server, Answered
    <2>2. CallOK' /\ RevOK' /\ map' \in Maps
      BY <2>1, SyncReturns
    <2>3. faults' \in Nat /\ past' \subseteq past \cup {"missed"}
      BY <1>2 DEF Commit, ReapplyFails, Fault, ServerOK
    <2>4. ServerOK'
      BY <2>1, <2>3 DEF ServerOK, server
    <2>5. OwnAddress(call) \in Nat /\ (tunnel.kind = "p2p" => PeerAddress(call) \in Nat)
      BY <2>1, AddressTypes
    <2>6. \E a \in Nat : tunnel' = [tunnel EXCEPT !.at = a]
      <3>1. tunnel.at \in Nat
        BY DEF ClientOK
      <3>2. CASE Commit
        BY <2>5, <3>1, <3>2 DEF Commit
      <3>3. CASE ReapplyFails
        BY <3>1, <3>3 DEF ReapplyFails
      <3>4. QED
        BY <1>2, <3>2, <3>3
    <2>7. tunnel' \in T /\ (tunnel'.kind = "p2p" => tunnel'.peer \in Peers)
      BY <2>6 DEF ClientOK
    <2>8. call.plans \subseteq Peers
      BY DEF CallOK, Call
    <2>9. ClientOK'
      BY <2>1, <2>2, <2>5, <2>7, <2>8 DEF ClientOK
    <2>10. QED
      BY <2>1, <2>2, <2>4, <2>9, LinkStays
  <1>3. ASSUME NEW n \in Networks, NEW m \in Built(n), Bootstrapped(n, m),
               tunnel' \in {tunnel, NoTunnel}
        PROVE  ClientOK'
    BY <1>0, <1>3, BuiltType DEF Bootstrapped, ClientOK, ServerOK
  <1>4. CASE Switch
    <2>1. PICK m \in Built(call.enabled) :
               Bootstrapped(call.enabled, m) /\ (UNCHANGED faults \/ Fault)
      BY <1>4 DEF Switch
    <2>2. UNCHANGED <<link, host, rev, past, tunnel>> /\ call' = Idle
          /\ call.enabled \in Networks /\ map' = m
      BY <1>4, <2>1 DEF Switch, Bootstrapped, CallOK
    <2>3. CallOK' /\ RevOK'
      BY <2>1, <2>2, SyncReturns
    <2>4. ClientOK'
      BY <1>3, <2>1, <2>2
    <2>5. ServerOK'
      BY <2>1, <2>2 DEF ServerOK, Bootstrapped, Fault
    <2>6. QED
      BY <2>2, <2>3, <2>4, <2>5, LinkStays
  <1>5. CASE SwitchFails \/ ConnectFails \/ ConnectRefused
    <2>1. /\ UNCHANGED <<online, addr, own, said, pending, changes>> /\ token' \in {token, FALSE}
          /\ UNCHANGED <<link, host, rev, client, map>> /\ call' = Idle /\ past \subseteq past'
      BY <1>5 DEF SwitchFails, ConnectFails, ConnectRefused, server, client
    <2>2. ServerOK'
      <3>1. faults' \in Nat /\ past' \subseteq past \cup {"missed"}
        BY <1>5 DEF SwitchFails, ConnectFails, ConnectRefused, Fault, ServerOK
      <3>2. QED
        BY <2>1, <3>1 DEF ServerOK
    <2>3. CallOK' /\ RevOK'
      BY <2>1, SyncReturns
    <2>4. QED
      BY <2>1, <2>2, <2>3, LinkStays, ClientStays
  <1>6. ASSUME NEW n \in Networks, Bootstrap(n) PROVE IInv'
    <2>1. PICK m \in Built(n) : Bootstrapped(n, m) /\ (UNCHANGED faults \/ Fault)
      BY <1>6 DEF Bootstrap
    <2>2. UNCHANGED <<link, host, rev, call, past, tunnel>> /\ map' = m /\ call.at = "idle"
      BY <1>6, <2>1 DEF Bootstrap, Bootstrapped
    <2>3. m \in Maps /\ m.net = n /\ m.rev <= CurrentRev(n)
      BY BuiltType
    <2>4. CallOK'
      BY <2>2 DEF CallOK, Answered, Known, CurrentRev, Events
    <2>5. RevOK'
      <3>1. CurrentRev(map.net)' = CurrentRev(n)
        BY <2>2, <2>3 DEF CurrentRev
      <3>2. QED
        BY <2>2, <2>3, <3>1 DEF RevOK, Answered
    <2>6. ServerOK'
      BY <2>1, <2>2 DEF ServerOK, Bootstrapped, Fault
    <2>7. ClientOK'
      BY <1>3, <2>1, <2>2
    <2>8. QED
      BY <2>2, <2>4, <2>5, <2>6, <2>7, LinkStays
  <1>7. ASSUME NEW n \in Networks, Restart(n) PROVE IInv'
    <2>1. UNCHANGED <<unacked, host, rev>> /\ map' = Map(n) /\ call' = Idle
          /\ past \subseteq past' /\ past' \subseteq past \cup {"missed"}
          /\ Bootstrapped(n, Map(n)) /\ tunnel' = NoTunnel
      BY <1>7 DEF Restart, Bootstrapped
    <2>2. Map(n) \in Built(n)
      BY DEF Built
    <2>3. CallOK' /\ RevOK'
      BY <2>1, <2>2, SyncReturns
    <2>4. ServerOK'
      BY <1>7, <2>1 DEF Restart, Bootstrapped, Fault, ServerOK
    <2>5. ClientOK'
      BY <1>3, <2>1, <2>2
    <2>6. hub' \in [net : Networks \cup {Nil}, here : BOOLEAN]
      BY <1>7, HubType DEF Restart, LinkOK
    <2>7. conn' \in Conn /\ stream' = <<>> /\ queued' = <<>>
      BY <1>7 DEF Restart, Conn
    <2>8. LinkOK'
      BY <2>1, <2>6, <2>7 DEF LinkOK, Known, CurrentRev, Events
    <2>9. QED
      BY <2>3, <2>4, <2>5, <2>8
  <1>8. ASSUME NEW p \in Peers, NEW kind \in Kinds, ConnectPeer(p, kind) PROVE IInv'
    <2>1. UNCHANGED <<server, link, host, rev, call, map, plans, dev, faults, past>>
      BY <1>8 DEF ConnectPeer, server
    <2>2. tunnel' \in T /\ tunnel'.peer \in Peers
      BY <1>8, KindsAssumption DEF ConnectPeer, ClientOK, Maps
    <2>3. ClientOK'
      BY <2>1, <2>2 DEF ClientOK
    <2>4. ServerOK'
      BY <2>1 DEF ServerOK, server
    <2>5. QED
      BY <2>1, <2>3, <2>4, LinkStays, CallStays, RevStays
  <1>9. CASE Disconnect
    <2>1. UNCHANGED <<server, unacked, host, rev, call, map, plans, dev>>
          /\ past \subseteq past' /\ past' \subseteq past \cup {"missed"}
      BY <1>9 DEF Disconnect, server
    <2>2. tunnel' \in T /\ (tunnel'.kind = "p2p" => tunnel'.peer \in Peers)
      BY <1>0, <1>9 DEF Disconnect, ClientOK
    <2>3. ClientOK'
      BY <2>1, <2>2 DEF ClientOK
    <2>4. faults' \in Nat
      BY <1>9 DEF Disconnect, Fault, ServerOK
    <2>5. ServerOK'
      BY <2>1, <2>4 DEF ServerOK, server
    <2>6. hub' \in [net : Networks \cup {Nil}, here : BOOLEAN]
      BY <1>9, HubType DEF Disconnect, LinkOK
    <2>7. conn' \in Conn /\ stream' = <<>> /\ queued' = <<>>
      BY <1>9 DEF Disconnect, Conn
    <2>8. LinkOK'
      BY <2>1, <2>6, <2>7 DEF LinkOK, Known, CurrentRev, Events
    <2>9. QED
      BY <2>1, <2>3, <2>5, <2>8, CallStays, RevStays
  <1>10. QED
    BY <1>1, <1>2, <1>4, <1>5, <1>6, <1>7, <1>8, <1>9

\* A sync fails, or goes on with another connection.
LEMMA ErrorsKeep ==
    ASSUME IInv, WaitRefused \/ WaitFails \/ DrainFails
    PROVE  IInv'
  <1> USE DEF IInv, At
  <1>1. UNCHANGED <<server, host, client, rev, map>>
    BY DEF WaitRefused, WaitFails, DrainFails, server, client
  <1>2. unacked' \subseteq unacked /\ faults' \in Nat
    <2>1. \/ UNCHANGED <<unacked, faults>>
          \/ Fault /\ UNCHANGED unacked
          \/ Confirmed(Head(stream))
      BY DEF WaitRefused, WaitFails, DrainFails
    <2>2. QED
      BY <2>1, ConfirmedType DEF ServerOK, Fault
  <1>3. CASE SyncFails(FALSE) \/ (stream # <<>> /\ SyncFails(TRUE))
    BY <1>1, <1>2, <1>3, SyncFailsKeeps
  <1>4. ASSUME Reconnects, hub' \in {hub, [hub EXCEPT !.here = FALSE]},
               conn' \in {conn, "broken"}, stream' \in {stream, <<>>}
        PROVE  IInv'
    <2>1. Known' = Known /\ Events' = Events
      BY <1>1 DEF Known, CurrentRev, Events
    <2>2. hub' \in [net : Networks \cup {Nil}, here : BOOLEAN]
      BY <1>4, HubType DEF LinkOK
    <2>3. conn' \in Conn /\ stream' \in Seq(Known) /\ queued' = queued
      <3>1. conn \in Conn /\ stream \in Seq(Known) /\ <<>> \in Seq(Known) /\ "broken" \in Conn
        BY DEF LinkOK, Conn
      <3>2. QED
        BY <1>4, <3>1 DEF Reconnects
    <2>4. LinkOK'
      BY <1>2, <2>1, <2>2, <2>3 DEF LinkOK
    <2>5. call' = [call EXCEPT !.at = "connect"] /\ past \subseteq past'
          /\ past' \subseteq past \cup {"missed"}
      BY <1>4 DEF Reconnects, Goto
    <2>6. call' \in Call /\ call'.at = "connect" /\ call'.old = call.old
      BY <2>5 DEF CallOK, Call
    <2>7. CallOK'
      BY <2>1, <2>6 DEF CallOK, Answered
    <2>8. RevOK'
      BY <1>1, <2>5, <2>6 DEF RevOK, Answered, CurrentRev
    <2>9. ServerOK'
      BY <1>1, <1>2, <2>5 DEF ServerOK, server
    <2>10. QED
      BY <1>1, <2>4, <2>7, <2>8, <2>9, ClientStays
  <1>5. QED
    BY <1>3, <1>4 DEF WaitRefused, WaitFails, DrainFails

\* Every step keeps the invariant.
LEMMA NextKeeps == IInv /\ [Next]_vars => IInv'
  <1> SUFFICES ASSUME IInv, [Next]_vars PROVE IInv'
    OBVIOUS
  <1>1. CASE Next
    BY <1>1, ServerKeeps, AskingKeeps, DrainKeeps, CommitKeeps, ErrorsKeep
       DEF Next, Sync, SyncErrors, Calls
  <1>2. CASE UNCHANGED vars
    <2>1. UNCHANGED <<server, link, host, call, client, faults, past, rev, map>>
      BY <1>2 DEF vars, server, client
    <2>2. ServerOK'
      BY <2>1 DEF IInv, ServerOK, server
    <2>3. QED
      BY <2>1, <2>2, LinkStays, CallStays, ClientStays, RevStays DEF IInv
  <1>3. QED
    BY <1>1, <1>2

\* The control plane's messages, the connection and the client's state have
\* their types in every reachable state: no sync ends with a map it was never
\* answered, switches to no network, or reads an event it cannot apply.
THEOREM TypeCorrect == Spec => []TypeOK
  <1>1. QED
    BY InitInv, NextKeeps, IInvTypes, PTL DEF Spec

\* A step that changes the map takes the answer of its sync, or a map of the
\* server, which is never behind the former one of the same network.
LEMMA MapSteps ==
    ASSUME IInv, [Next]_vars
    PROVE  \/ map' = map
           \/ Answered /\ map' = call.map
           \/ \E n \in Networks : map' \in Built(n)
  <1>1. CASE Server \/ UNCHANGED vars
    BY <1>1 DEF Server, PeerComes, PeerLeaves, Readdress, AnnouncePeer, AnnounceAddress,
       RangeChanges, Resend, HubForgets, ConnectionBreaks, Notify, vars, client
  <1>2. CASE SyncBegins \/ Connect \/ ServerAnswers \/ QueueEvent \/ ReadMap \/ DrainEvent
             \/ DrainEnds \/ DrainTorn \/ WaitRefused \/ WaitFails \/ ConnectFails
             \/ ConnectRefused \/ DrainFails \/ SwitchFails \/ Disconnect
             \/ \E p \in Peers, kind \in Kinds : ConnectPeer(p, kind)
    BY <1>2 DEF SyncBegins, Connect, ServerAnswers, QueueEvent, ReadMap, DrainEvent, DrainEnds,
       DrainTorn, WaitRefused, WaitFails, ConnectFails, ConnectRefused, DrainFails, SwitchFails,
       Disconnect, ConnectPeer, client
  <1>3. CASE CliSync \/ Commit \/ ReapplyFails
    BY <1>3 DEF CliSync, Commit, ReapplyFails, Answered, At
  <1>4. CASE Switch
    BY <1>4 DEF Switch, Bootstrapped, IInv, CallOK, At
  <1>5. CASE \E n \in Networks : Bootstrap(n) \/ Restart(n)
    BY <1>5 DEF Bootstrap, Bootstrapped, Restart, Built
  <1>6. QED
    BY <1>1, <1>2, <1>3, <1>4, <1>5 DEF Next, Sync, SyncErrors, Calls

\* Whatever messages are delayed, sent again, applied out of order or lost,
\* and however syncs fail, the revision of the client's map never goes back
\* within a network unless the server built the new map without its counter,
\* or an event of another network was applied to a map.
THEOREM RevisionAlwaysGrows == Spec => RevisionGrows
  <1>1. IInv /\ [Next]_vars => [map'.net = map.net /\ map'.counted /\ "foreign" \notin past
                                => map'.rev >= map.rev]_vars
    <2> SUFFICES ASSUME IInv, [Next]_vars, map'.net = map.net, map'.counted,
                        "foreign" \notin past
                 PROVE  map'.rev >= map.rev
      OBVIOUS
    <2>1. map.rev \in Nat /\ map.net \in Networks /\ map.rev <= CurrentRev(map.net)
      BY DEF IInv, ClientOK, Maps, RevOK
    <2>2. CASE map' = map
      BY <2>1, <2>2
    <2>3. CASE Answered /\ map' = call.map
      BY <2>1, <2>3 DEF IInv, RevOK, CallOK, Maps
    <2>4. ASSUME NEW n \in Networks, map' \in Built(n) PROVE map'.rev >= map.rev
      BY <2>1, <2>4, BuiltType DEF IInv
    <2>5. QED
      BY <2>2, <2>3, <2>4, MapSteps
  <1>2. QED
    BY <1>1, InitInv, NextKeeps, PTL DEF Spec, RevisionGrows

-----------------------------------------------------------------------------
(* The address of the device. *)

\* A message that tells this device its address in network n.
IsOwn(m, n) == m.kind = "address" /\ m.who = Self /\ m.net = n

\* It is not newer than what was announced last (o), or it is just that.
Fits(m, n, o) == IsOwn(m, n) => m.no <= o[n].no /\ (m.no = o[n].no => m.v = o[n].v)

\* Of a sequence of messages: one is announcement k of an address of network n;
\* none is another; none is one that was not made.
Current(s, n, k) == \E i \in DOMAIN s : IsOwn(s[i], n) /\ s[i].no = k
NoFormer(s, n, k) == \A i \in DOMAIN s : IsOwn(s[i], n) => s[i].no = k
Reached(s, o) == \A i \in DOMAIN s, n \in Networks : Fits(s[i], n, o)

\* Addresses of one network come in the order of the announcements, within a
\* sequence and from one that is read before another.
InOrder(x, y) == \A n \in Networks : IsOwn(x, n) /\ IsOwn(y, n) => x.no <= y.no
Ordered(s) == \A i, j \in DOMAIN s : i < j => InOrder(s[i], s[j])
Before(s, t) == \A i \in DOMAIN s, j \in DOMAIN t : InOrder(s[i], t[j])

\* What the call has gathered, what is queued and what the connection carries
\* were sent in this order; so was what the former connection carries.
OrderOK ==
    /\ Ordered(call.ups) /\ Ordered(queued) /\ Ordered(stream) /\ Ordered(call.old.stream)
    /\ Before(call.ups, queued) /\ Before(call.ups, stream) /\ Before(queued, stream)
    /\ Reached(call.ups, said) /\ Reached(queued, said)
    /\ Reached(stream, said) /\ Reached(call.old.stream, said)
    /\ \A m \in unacked, n \in Networks : Fits(m, n, said)

\* What a call has gathered it has read, after the answer; a connection is
\* opened when nothing is queued.
StageOK ==
    /\ call.at = "idle" => call = Idle
    /\ call.at \notin {"drain", "switch", "commit"} => call.read = 0
    /\ call.read = 0 => call.ups = <<>>
    /\ \A i \in DOMAIN call.ups : call.ups[i].kind = "address"
    /\ conn = "none" => queued = <<>>
    /\ call.at \notin {"idle", "connect"} => conn # "none"
    /\ call.at = "connect" => queued = <<>>
    /\ call.old.queued = <<>>

\* No address of this device is written and not yet announced.
Announced(n) == \A c \in pending : ~(c.kind = "address" /\ c.who = Self /\ c.net = n)
Told(U, n, k) == \E m \in U : IsOwn(m, n) /\ m.no = k
Knows(n) == n = map.net => dev \in {own[n], said[n].v}

\* The last announcement is not confirmed, or is read and will be applied, or
\* the address is known, and then no former one is on its way.
Learns(n) ==
    Announced(n) =>
        \/ Told(unacked, n, said[n].no) \/ Current(queued, n, said[n].no)
        \/ Current(call.ups, n, said[n].no)
        \/ /\ Knows(n) /\ NoFormer(call.ups, n, said[n].no)
           /\ NoFormer(queued, n, said[n].no) /\ NoFormer(stream, n, said[n].no)

\* The same, should the sync fail and go back to the former connection; a sync
\* that has read events does not fail unnoticed.
FallsBack(n) ==
    call.fresh /\ Announced(n) =>
        \/ queued # <<>> \/ call.read > 0
        \/ Told(unacked, n, said[n].no)
        \/ Knows(n) /\ NoFormer(call.old.stream, n, said[n].no)

\* No address went past this device, and none came after a newer one.
Undisturbed == past \subseteq {"foreign"}
Learning == OrderOK /\ StageOK /\ \A n \in Networks : Learns(n) /\ FallsBack(n)
LearnInv == Undisturbed => Learning

\* What is known of messages, sequence by sequence.
LEMMA MessageSeqs ==
    ASSUME IInv
    PROVE  /\ queued \in Seq(Message) /\ stream \in Seq(Message)
           /\ call.ups \in Seq(Message) /\ call.old.stream \in Seq(Message)
           /\ own \in [Networks -> Nat] /\ said \in [Networks -> [no : Nat, v : Nat]]
           /\ map.net \in Networks /\ call.read \in Nat
  <1>1. Known \subseteq Message /\ Events \subseteq Message
    BY DEF Known, Events
  <1>2. Seq(Known) \subseteq Seq(Message) /\ Seq(Events) \subseteq Seq(Message)
    BY <1>1
  <1>3. QED
    BY <1>2 DEF IInv, ServerOK, LinkOK, CallOK, ClientOK, Call, Maps

\* An empty sequence tells nothing.
LEMMA NothingTold ==
    /\ Ordered(<<>>)
    /\ \A s : Before(s, <<>>) /\ Before(<<>>, s)
    /\ \A o : Reached(<<>>, o)
    /\ \A n, v : NoFormer(<<>>, n, v) /\ ~Current(<<>>, n, v)
  BY DEF Ordered, Before, Reached, NoFormer, Current

\* A message is appended, and is not older than what there was.
LEMMA Appended ==
    ASSUME NEW s \in Seq(Message), NEW m \in Message
    PROVE  /\ (\A i \in DOMAIN s : InOrder(s[i], m)) /\ Ordered(s) => Ordered(Append(s, m))
           /\ \A t : (\A i \in DOMAIN t : InOrder(t[i], m)) /\ Before(t, s) => Before(t, Append(s, m))
           /\ \A t : (\A i \in DOMAIN t : InOrder(m, t[i])) /\ Before(s, t) => Before(Append(s, m), t)
           /\ \A o : (\A n \in Networks : Fits(m, n, o)) /\ Reached(s, o)
                 => Reached(Append(s, m), o)
           /\ \A n, v : (IsOwn(m, n) => m.no = v) /\ NoFormer(s, n, v) => NoFormer(Append(s, m), n, v)
           /\ \A n, v : Current(s, n, v) \/ (IsOwn(m, n) /\ m.no = v) => Current(Append(s, m), n, v)
  <1> DEFINE a == Append(s, m)
  <1>1. /\ \A i \in DOMAIN a : (i \in DOMAIN s /\ a[i] = s[i]) \/ (i = Len(s) + 1 /\ a[i] = m)
        /\ \A i \in DOMAIN s : i \in DOMAIN a /\ a[i] = s[i] /\ i < Len(s) + 1
        /\ Len(s) + 1 \in DOMAIN a /\ a[Len(s) + 1] = m
    OBVIOUS
  <1>2. \A i \in DOMAIN a : i = Len(s) + 1 => \A j \in DOMAIN a : ~(i < j)
    OBVIOUS
  <1> HIDE DEF a
  <1>3. (\A i \in DOMAIN s : InOrder(s[i], m)) /\ Ordered(s) => Ordered(a)
    BY <1>1, <1>2 DEF Ordered
  <1>4. \A t : (\A i \in DOMAIN t : InOrder(t[i], m)) /\ Before(t, s) => Before(t, a)
    BY <1>1 DEF Before
  <1>5. \A t : (\A i \in DOMAIN t : InOrder(m, t[i])) /\ Before(s, t) => Before(a, t)
    BY <1>1 DEF Before
  <1>6. \A o : (\A n \in Networks : Fits(m, n, o)) /\ Reached(s, o) => Reached(a, o)
    BY <1>1 DEF Reached
  <1>7. \A n, v : (IsOwn(m, n) => m.no = v) /\ NoFormer(s, n, v) => NoFormer(a, n, v)
    BY <1>1 DEF NoFormer
  <1>8. \A n, v : Current(s, n, v) \/ (IsOwn(m, n) /\ m.no = v) => Current(a, n, v)
    BY <1>1 DEF Current
  <1>9. QED
    BY <1>3, <1>4, <1>5, <1>6, <1>7, <1>8 DEF a

\* The first message is taken.
LEMMA Taken ==
    ASSUME NEW s \in Seq(Message), s # <<>>
    PROVE  /\ Head(s) \in Message /\ Tail(s) \in Seq(Message)
           /\ Ordered(s) => Ordered(Tail(s)) /\ \A j \in DOMAIN Tail(s) : InOrder(Head(s), Tail(s)[j])
           /\ \A t : Before(t, s) => Before(t, Tail(s)) /\ \A i \in DOMAIN t : InOrder(t[i], Head(s))
           /\ \A t : Before(s, t) => Before(Tail(s), t) /\ \A i \in DOMAIN t : InOrder(Head(s), t[i])
           /\ \A o : Reached(s, o) => Reached(Tail(s), o)
                                      /\ \A n \in Networks : Fits(Head(s), n, o)
           /\ \A n, v : NoFormer(s, n, v) => NoFormer(Tail(s), n, v)
                                             /\ (IsOwn(Head(s), n) => Head(s).no = v)
           /\ \A n, v : Current(s, n, v) => Current(Tail(s), n, v)
                                            \/ (IsOwn(Head(s), n) /\ Head(s).no = v)
  <1> DEFINE t0 == Tail(s)
             h == Head(s)
  <1>1. /\ h \in Message /\ t0 \in Seq(Message) /\ 1 \in DOMAIN s /\ h = s[1]
        /\ \A i \in DOMAIN t0 : i + 1 \in DOMAIN s /\ t0[i] = s[i + 1] /\ 1 < i + 1 /\ i \in Nat
        /\ \A i \in DOMAIN s : i = 1 \/ (i - 1 \in DOMAIN t0 /\ s[i] = t0[i - 1])
    OBVIOUS
  <1>2. \A i, j \in DOMAIN t0 : i < j => i + 1 < j + 1
    BY <1>1
  <1> HIDE DEF t0, h
  <1>3. Ordered(s) => Ordered(t0) /\ \A j \in DOMAIN t0 : InOrder(h, t0[j])
    BY <1>1, <1>2 DEF Ordered
  <1>4. \A t : Before(t, s) => Before(t, t0) /\ \A i \in DOMAIN t : InOrder(t[i], h)
    BY <1>1 DEF Before
  <1>5. \A t : Before(s, t) => Before(t0, t) /\ \A i \in DOMAIN t : InOrder(h, t[i])
    BY <1>1 DEF Before
  <1>6. \A o : Reached(s, o) => Reached(t0, o) /\ \A n \in Networks : Fits(h, n, o)
    BY <1>1 DEF Reached
  <1>7. \A n, v : NoFormer(s, n, v) => NoFormer(t0, n, v) /\ (IsOwn(h, n) => h.no = v)
    BY <1>1 DEF NoFormer
  <1>8. \A n, v : Current(s, n, v) => Current(t0, n, v) \/ (IsOwn(h, n) /\ h.no = v)
    BY <1>1 DEF Current
  <1>9. QED
    BY <1>1, <1>3, <1>4, <1>5, <1>6, <1>7, <1>8 DEF t0, h

\* What comes after the last announcement is that announcement.
LEMMA AfterCurrent ==
    ASSUME NEW s \in Seq(Message), NEW t \in Seq(Message),
           NEW o \in [Networks -> [no : Nat, v : Nat]],
           NEW n \in Networks, Current(s, n, o[n].no), Before(s, t), Reached(t, o)
    PROVE  NoFormer(t, n, o[n].no)
  <1> SUFFICES ASSUME NEW j \in DOMAIN t, IsOwn(t[j], n) PROVE t[j].no = o[n].no
    BY DEF NoFormer
  <1>1. PICK i \in DOMAIN s : IsOwn(s[i], n) /\ s[i].no = o[n].no
    BY DEF Current
  <1>2. o[n].no <= t[j].no /\ t[j].no <= o[n].no
    BY <1>1 DEF Before, InOrder, Reached, Fits
  <1>3. t[j] \in Message
    OBVIOUS
  <1>4. t[j].no \in Nat /\ o[n].no \in Nat
    BY <1>3 DEF Message
  <1>5. QED
    BY <1>2, <1>4

\* The last announcement comes after every other.
LEMMA NowComesLast ==
    ASSUME NEW s \in Seq(Message), NEW m \in Message,
           NEW o \in [Networks -> [no : Nat, v : Nat]],
           \A n \in Networks : IsOwn(m, n) => m.no = o[n].no /\ m.v = o[n].v, Reached(s, o)
    PROVE  (\A i \in DOMAIN s : InOrder(s[i], m)) /\ \A n \in Networks : Fits(m, n, o)
  <1>1. ASSUME NEW n \in Networks PROVE o[n].no \in Nat /\ o[n].no <= o[n].no
    <2>1. o[n] \in [no : Nat, v : Nat]
      OBVIOUS
    <2>2. QED
      BY <2>1
  <1>2. QED
    BY <1>1 DEF InOrder, Reached, Fits

\* The state of the call when no sync is under way.
LEMMA IdleFields ==
    /\ Idle.ups = <<>> /\ Idle.read = 0 /\ Idle.fresh = FALSE
    /\ Idle.old.stream = <<>> /\ Idle.old.queued = <<>> /\ Idle.at = "idle"
  BY DEF Idle, NoConn

\* The history only grows.
LEMMA PastGrows == Next => past \subseteq past'
  <1> SUFFICES ASSUME Next PROVE past \subseteq past'
    OBVIOUS
  <1>1. CASE Server
    BY <1>1 DEF Server, PeerComes, PeerLeaves, Readdress, AnnouncePeer, AnnounceAddress,
       RangeChanges, Resend, HubForgets, ConnectionBreaks, Notify
  <1>2. CASE Sync
    BY <1>2 DEF Sync, Connect, ServerAnswers, QueueEvent, ReadMap, CliSync, DrainEvent, Apply,
       DrainEnds, Commit, Switch
  <1>3. CASE SyncErrors
    BY <1>3 DEF SyncErrors, WaitRefused, WaitFails, ConnectFails, ConnectRefused, DrainTorn,
       DrainFails, ReapplyFails, SwitchFails, SyncFails, Reconnects
  <1>4. CASE Calls
    BY <1>4 DEF Calls, SyncBegins, Disconnect, Bootstrap, Restart, ConnectPeer
  <1>5. QED
    BY <1>1, <1>2, <1>3, <1>4 DEF Next

\* What may become of the connection's messages without a word about an
\* address of now: they are lost, or a message comes that tells none or that one.
StreamKept(s) ==
    /\ Ordered(s) /\ Before(call.ups, s) /\ Before(queued, s) /\ Reached(s, said)
    /\ \A n \in Networks : NoFormer(stream, n, said[n].no) => NoFormer(s, n, said[n].no)

\* They are as they were, or lost.
LEMMA LostKept ==
    ASSUME OrderOK, NEW s \in {stream, <<>>}
    PROVE  StreamKept(s)
  BY NothingTold DEF OrderOK, StreamKept

\* The first of them is dropped.
LEMMA TailKept ==
    ASSUME IInv, OrderOK, stream # <<>>
    PROVE  StreamKept(Tail(stream))
  BY Taken, MessageSeqs DEF OrderOK, StreamKept

\* Another one is sent.
LEMMA SentKept ==
    ASSUME IInv, OrderOK, NEW m \in Message,
           \A n \in Networks : IsOwn(m, n) => m.no = said[n].no /\ m.v = said[n].v
    PROVE  StreamKept(Append(stream, m))
  <1>1. /\ \A i \in DOMAIN stream : InOrder(stream[i], m)
        /\ \A i \in DOMAIN queued : InOrder(queued[i], m)
        /\ \A i \in DOMAIN call.ups : InOrder(call.ups[i], m)
        /\ \A n \in Networks : Fits(m, n, said)
    BY NowComesLast, MessageSeqs DEF OrderOK
  <1>2. QED
    BY <1>1, Appended, MessageSeqs DEF OrderOK, StreamKept

\* A step that neither reads events nor ends the call.
LEMMA Steady ==
    ASSUME IInv, Learning, UNCHANGED <<own, said, queued, dev>>, map'.net = map.net,
           call'.ups = call.ups, call'.old = call.old, call'.fresh = call.fresh,
           call'.read = call.read, StageOK', StreamKept(stream'),
           \A m \in unacked', n \in Networks : Fits(m, n, said),
           \A n \in Networks : Told(unacked, n, said[n].no) => Told(unacked', n, said[n].no),
           \A n \in Networks : Announced(n)' => Announced(n) \/ Told(unacked', n, said[n].no)
    PROVE  Learning'
  <1>1. OrderOK'
    BY DEF Learning, OrderOK, StreamKept
  <1>2. ASSUME NEW n \in Networks PROVE Learns(n)' /\ FallsBack(n)'
    <2>1. Learns(n) /\ FallsBack(n)
      BY DEF Learning
    <2>2. Knows(n)' = Knows(n)
      BY DEF Knows
    <2>3. Learns(n)'
      BY <2>1, <2>2 DEF Learns, StreamKept
    <2>4. FallsBack(n)'
      BY <2>1, <2>2 DEF FallsBack
    <2>5. QED
      BY <2>3, <2>4
  <1>3. QED
    BY <1>1, <1>2 DEF Learning

\* A call that ends, with these messages queued and on the connection.
Settled(n, q, s) ==
    Announced(n) => \/ Told(unacked, n, said[n].no) \/ Current(q, n, said[n].no)
                    \/ NoFormer(q, n, said[n].no) /\ NoFormer(s, n, said[n].no) /\ Knows(n)

\* Then an address that is announced is still to be confirmed or applied, or known.
LEMMA Ends ==
    ASSUME call' = Idle, conn' = "none" => queued' = <<>>,
           Ordered(queued'), Ordered(stream'), Before(queued', stream'),
           Reached(queued', said'), Reached(stream', said'),
           \A m \in unacked', n \in Networks : Fits(m, n, said'),
           \A n \in Networks : Settled(n, queued, stream)'
    PROVE  Learning'
  <1>1. OrderOK'
    BY IdleFields, NothingTold DEF OrderOK
  <1>2. StageOK'
    BY IdleFields DEF StageOK
  <1>3. ASSUME NEW n \in Networks PROVE Learns(n)' /\ FallsBack(n)'
    <2>1. Learns(n)'
      BY IdleFields, NothingTold DEF Learns, Settled
    <2>2. FallsBack(n)'
      BY IdleFields DEF FallsBack
    <2>3. QED
      BY <2>1, <2>2
  <1>4. QED
    BY <1>1, <1>2, <1>3 DEF Learning

\* Stages are as they were when call and connection keep theirs.
LEMMA StageKept ==
    ASSUME StageOK, UNCHANGED <<call, queued>>, conn' = "none" => conn = "none"
    PROVE  StageOK'
  BY DEF StageOK

\* The address of this device changes: it is not yet announced.
LEMMA ReaddressLearns ==
    ASSUME IInv, Learning, Undisturbed', NEW n \in Networks, Readdress(n, Self)
    PROVE  Learning'
  <1>1. UNCHANGED <<said, unacked, stream, conn, queued, call, map, dev>>
    BY DEF Readdress, link, client
  <1>2. PICK c \in pending' : c.kind = "address" /\ c.who = Self /\ c.net = n
    <2> DEFINE d == [kind |-> "address", net |-> n, who |-> Self,
                     v |-> IF Self = Self THEN own'[n] ELSE addr'[Self], left |-> 1]
    <2>1. \/ pending' = pending \cup {d}
          \/ pending' = pending \cup {[d EXCEPT !.left = 2]}
          \/ past' = past \cup {"missed"}
      BY DEF Readdress
    <2>2. past' # past \cup {"missed"}
      BY DEF Undisturbed
    <2>3. CASE pending' = pending \cup {d}
      <3>1. d \in pending' /\ d.kind = "address" /\ d.who = Self /\ d.net = n
        BY <2>3
      <3>2. QED
        BY <3>1
    <2>4. CASE pending' = pending \cup {[d EXCEPT !.left = 2]}
      <3> DEFINE e == [d EXCEPT !.left = 2]
      <3>1. e \in pending' /\ e.kind = "address" /\ e.who = Self /\ e.net = n
        BY <2>4
      <3>2. QED
        BY <3>1
    <2>5. QED
      BY <2>1, <2>2, <2>3, <2>4
  <1>3. \A k \in Networks : k # n => own'[k] = own[k]
    BY DEF Readdress, Moves, IInv, ServerOK
  <1>4. pending \subseteq pending'
    BY DEF Readdress
  <1>5. OrderOK'
    BY <1>1 DEF Learning, OrderOK
  <1>6. StageOK'
    BY <1>1, StageKept DEF Learning
  <1>7. ASSUME NEW k \in Networks PROVE Learns(k)' /\ FallsBack(k)'
    <2>1. CASE k = n
      BY <1>2, <2>1 DEF Learns, FallsBack, Announced
    <2>2. CASE k # n
      <3>1. (Announced(k)' => Announced(k)) /\ Knows(k)' = Knows(k)
        BY <1>1, <1>3, <1>4, <2>2 DEF Announced, Knows
      <3>2. Learns(k) /\ FallsBack(k)
        BY DEF Learning
      <3>3. QED
        BY <1>1, <3>1, <3>2 DEF Learns, FallsBack
    <2>3. QED
      BY <2>1, <2>2
  <1>8. QED
    BY <1>5, <1>6, <1>7 DEF Learning

\* sendTracked: the message is not confirmed, and perhaps on its way.
LEMMA SentLearns ==
    ASSUME IInv, Learning, NEW m \in Message, SendTracked(m),
           \A n \in Networks : IsOwn(m, n) => m.no = said[n].no /\ m.v = said[n].v
    PROVE  /\ StreamKept(stream') /\ UNCHANGED <<queued, conn>>
           /\ unacked' = unacked \cup {m}
           /\ \A x \in unacked', n \in Networks : Fits(x, n, said)
  <1>1. stream' \in {stream, Append(stream, m)}
    BY DEF SendTracked
  <1>2. StreamKept(stream) /\ StreamKept(Append(stream, m))
    BY LostKept, SentKept DEF Learning
  <1>3. \A n \in Networks : Fits(m, n, said)
    BY NowComesLast, MessageSeqs DEF Learning, OrderOK
  <1>4. QED
    BY <1>1, <1>2, <1>3 DEF SendTracked, Learning, OrderOK

\* A message that tells no address of this device is sent, or nothing is.
LEMMA OtherSent ==
    ASSUME IInv, Learning, NEW m \in Message, \A n \in Networks : ~IsOwn(m, n),
           SendTracked(m) \/ UNCHANGED link, UNCHANGED <<own, said, call, map, dev>>,
           \A n \in Networks : Announced(n)' => Announced(n)
    PROVE  Learning'
  <1>1. /\ StreamKept(stream') /\ UNCHANGED <<queued, conn>> /\ unacked \subseteq unacked'
        /\ \A x \in unacked', n \in Networks : Fits(x, n, said)
    <2>1. CASE SendTracked(m)
      BY <2>1, SentLearns
    <2>2. CASE UNCHANGED link
      BY <2>2, LostKept DEF link, Learning, OrderOK
    <2>3. QED
      BY <2>1, <2>2
  <1>2. StageOK'
    BY <1>1, StageKept DEF Learning
  <1>3. \A n \in Networks : Told(unacked, n, said[n].no) => Told(unacked', n, said[n].no)
    BY <1>1 DEF Told
  <1>4. QED
    BY <1>1, <1>2, <1>3, Steady

\* One more announcement: those before it are former ones.
LEMMA FitsGrows ==
    ASSUME NEW m \in Message, NEW o \in [Networks -> [no : Nat, v : Nat]],
           NEW n \in Networks, NEW k \in Networks, NEW v, Fits(m, k, o)
    PROVE  Fits(m, k, [o EXCEPT ![n] = [no |-> o[n].no + 1, v |-> v]])
  <1>1. m.no \in Nat /\ o[n].no \in Nat
    BY DEF Message
  <1>2. QED
    BY <1>1 DEF Fits

\* An address of this device is announced to the session of its network.
LEMMA OwnAnnounced ==
    ASSUME IInv, Learning, Undisturbed', NEW c \in pending, c.who = Self, AnnounceAddress(c)
    PROVE  Learning'
  <1> DEFINE n == c.net
             m == Msg("address", n, Self, c.v, 0, said[n].no + 1)
  <1>1. n \in Networks /\ c.v \in Nat
    BY DEF IInv, ServerOK, Change
  <1>2. said' = [said EXCEPT ![n] = [no |-> said[n].no + 1, v |-> c.v]]
        /\ UNCHANGED <<own, call, map, dev>>
    BY DEF AnnounceAddress, client
  <1>3. said \in [Networks -> [no : Nat, v : Nat]]
    BY MessageSeqs
  <1>4. m \in Message /\ IsOwn(m, n) /\ (\A k : k # n => ~IsOwn(m, k))
        /\ m.no = said'[n].no /\ m.v = said'[n].v /\ m.no = said[n].no + 1
    BY <1>1, <1>2, <1>3 DEF Msg, Message, IsOwn
  <1>5. SendTracked(m)
    BY DEF AnnounceAddress, Undisturbed
  <1>6. said' \in [Networks -> [no : Nat, v : Nat]] /\ said'[n].no = said[n].no + 1
        /\ \A k \in Networks : k # n => said'[k] = said[k]
    BY <1>1, <1>2, <1>3
  <1> HIDE DEF m, n
  <1>7. /\ unacked' = unacked \cup {m} /\ stream' \in {stream, Append(stream, m)}
        /\ UNCHANGED <<queued, conn>>
    BY <1>5 DEF SendTracked
  <1>8. \A x \in Message, k \in Networks : Fits(x, k, said) => Fits(x, k, said')
    BY <1>1, <1>2, <1>3, FitsGrows
  <1>9. \A s \in Seq(Message) : Reached(s, said) => Reached(s, said')
    <2> SUFFICES ASSUME NEW s \in Seq(Message), Reached(s, said), NEW i \in DOMAIN s,
                        NEW k \in Networks
                 PROVE  Fits(s[i], k, said')
      BY DEF Reached
    <2>1. s[i] \in Message
      OBVIOUS
    <2>2. QED
      BY <1>8, <2>1 DEF Reached
  <1>10. \A k \in Networks : IsOwn(m, k) => m.no = said'[k].no /\ m.v = said'[k].v
    BY <1>4
  <1>11. OrderOK'
    <2>1. /\ Reached(queued, said') /\ Reached(stream, said') /\ Reached(call.ups, said')
          /\ Reached(call.old.stream, said')
      BY <1>9, MessageSeqs DEF Learning, OrderOK
    <2>2. /\ \A i \in DOMAIN stream : InOrder(stream[i], m)
          /\ \A i \in DOMAIN queued : InOrder(queued[i], m)
          /\ \A i \in DOMAIN call.ups : InOrder(call.ups[i], m)
          /\ \A k \in Networks : Fits(m, k, said')
      BY <1>4, <1>6, <1>10, <2>1, NowComesLast, MessageSeqs
    <2>3. /\ Ordered(stream') /\ Before(call.ups, stream') /\ Before(queued, stream')
          /\ Reached(stream', said')
      BY <1>4, <1>7, <2>1, <2>2, Appended, MessageSeqs DEF Learning, OrderOK
    <2>4. \A x \in unacked', k \in Networks : Fits(x, k, said')
      <3>1. unacked \subseteq Message
        BY DEF IInv, LinkOK, Known
      <3>2. QED
        BY <1>7, <1>8, <2>2, <3>1 DEF Learning, OrderOK
    <2>5. QED
      BY <1>2, <1>7, <2>1, <2>3, <2>4 DEF Learning, OrderOK
  <1>12. StageOK'
    BY <1>2, <1>7, StageKept DEF Learning
  <1>13. ASSUME NEW k \in Networks PROVE Learns(k)' /\ FallsBack(k)'
    <2>1. CASE k = n
      <3>1. Told(unacked', k, said'[k].no)
        BY <1>4, <1>7, <2>1 DEF Told
      <3>2. QED
        BY <3>1 DEF Learns, FallsBack
    <2>2. CASE k # n
      <3>1. said'[k] = said[k] /\ Knows(k)' = Knows(k)
        BY <1>2, <1>6, <2>2 DEF Knows
      <3>2. Announced(k)' => Announced(k)
        <4>1. pending \ {c} \subseteq pending' /\ c.net # k
          BY <2>2 DEF AnnounceAddress, n
        <4>2. QED
          BY <4>1 DEF Announced
      <3>3. Told(unacked, k, said[k].no) => Told(unacked', k, said[k].no)
        BY <1>7 DEF Told
      <3>4. NoFormer(stream, k, said[k].no) => NoFormer(stream', k, said[k].no)
        <4>1. ~IsOwn(m, k)
          BY <1>4, <2>2 DEF IsOwn
        <4>2. NoFormer(stream, k, said[k].no) => NoFormer(Append(stream, m), k, said[k].no)
          BY <1>4, <4>1, Appended, MessageSeqs
        <4>3. QED
          BY <1>7, <4>2
      <3>5. Learns(k) /\ FallsBack(k)
        BY DEF Learning
      <3>6. QED
        BY <1>2, <1>7, <3>1, <3>2, <3>3, <3>4, <3>5 DEF Learns, FallsBack
    <2>3. QED
      BY <2>1, <2>2
  <1>14. QED
    BY <1>11, <1>12, <1>13 DEF Learning

\* A change is announced.
LEMMA AnnounceLearns ==
    ASSUME IInv, Learning, Undisturbed', NEW c \in pending,
           AnnouncePeer(c) \/ AnnounceAddress(c)
    PROVE  Learning'
  <1>1. c \in Change /\ c.net \in Networks /\ c.who \in Peers \cup {Self} /\ c.v \in Nat
        /\ c.left \in Nat
    BY DEF IInv, ServerOK, Change
  <1>2. CASE AnnouncePeer(c)
    <2>1. c.kind \in {"update", "remove"} /\ c.who \in Peers
      BY <1>2 DEF AnnouncePeer, IInv, ServerOK, Change
    <2>2. UNCHANGED <<own, said, call, map, dev>> /\ pending' = pending \ {c}
      BY <1>2 DEF AnnouncePeer, client
    <2>3. PICK r \in Nat : \/ SendTracked(Msg(c.kind, c.net, c.who, addr[c.who], r, 0))
                            \/ UNCHANGED link
      <3>1. rev[c.net] + 1 \in Nat
        BY <1>1 DEF IInv, ServerOK
      <3>2. QED
        BY <1>2, <3>1 DEF AnnouncePeer
    <2> DEFINE m == Msg(c.kind, c.net, c.who, addr[c.who], r, 0)
    <2>4. m \in Message /\ \A n \in Networks : ~IsOwn(m, n)
      BY <1>1, <2>1 DEF Msg, Message, IsOwn, IInv, ServerOK
    <2>5. \A n \in Networks : Announced(n)' => Announced(n)
      BY <2>1, <2>2 DEF Announced
    <2> HIDE DEF m
    <2>6. QED
      BY <2>2, <2>3, <2>4, <2>5, OtherSent DEF m
  <1>3. CASE AnnounceAddress(c) /\ c.who # Self
    <2>1. UNCHANGED <<own, said, call, map, dev>> /\ pending \ {c} \subseteq pending'
      BY <1>3 DEF AnnounceAddress, client
    <2> DEFINE m == Msg("address", c.net, c.who, c.v, 0, c.left)
    <2>2. m \in Message /\ \A n \in Networks : ~IsOwn(m, n)
      BY <1>1, <1>3 DEF Msg, Message, IsOwn
    <2>3. SendTracked(m) \/ UNCHANGED link
      BY <1>3 DEF AnnounceAddress
    <2>4. \A n \in Networks : Announced(n)' => Announced(n)
      BY <1>3, <2>1 DEF Announced
    <2> HIDE DEF m
    <2>5. QED
      BY <2>1, <2>2, <2>3, <2>4, OtherSent
  <1>4. QED
    BY <1>2, <1>3, OwnAnnounced

\* Messages that are not confirmed are announcements that were made.
LEMMA FitsNow ==
    ASSUME Learning, unacked' \subseteq unacked
    PROVE  \A m \in unacked', n \in Networks : Fits(m, n, said)
  BY DEF Learning, OrderOK

\* The steps of the control plane and of the network.
LEMMA ServerLearns ==
    ASSUME IInv, Learning, Undisturbed', Server
    PROVE  Learning'
  <1>1. ASSUME NEW p \in Peers, PeerComes(p) \/ PeerLeaves(p) PROVE Learning'
    <2>1. UNCHANGED <<own, said, unacked, stream, conn, queued, call, map, dev>> /\ pending \subseteq pending'
      BY <1>1 DEF PeerComes, PeerLeaves, link, client
    <2>2. StageOK' /\ StreamKept(stream')
      BY <2>1, StageKept, LostKept DEF Learning
    <2>3. QED
      BY <2>1, <2>2, Steady, FitsNow DEF Announced
  <1>2. ASSUME NEW n \in Networks, NEW w \in Peers \cup {Self}, Readdress(n, w) PROVE Learning'
    <2>1. CASE w = Self
      BY <1>2, <2>1, ReaddressLearns
    <2>2. CASE w # Self
      <3>1. UNCHANGED <<own, said, unacked, stream, conn, queued, call, map, dev>>
            /\ pending \subseteq pending'
        BY <1>2, <2>2 DEF Readdress, Moves, link, client
      <3>2. StageOK' /\ StreamKept(stream')
        BY <3>1, StageKept, LostKept DEF Learning
      <3>3. QED
        BY <3>1, <3>2, Steady, FitsNow DEF Announced
    <2>3. QED
      BY <2>1, <2>2
  <1>3. ASSUME NEW m \in unacked, Resend(m) PROVE Learning'
    <2>1. m \in Message /\ \A n \in Networks : Fits(m, n, said)
      BY DEF IInv, LinkOK, Known, Learning, OrderOK
    <2>2. \A n \in Networks : IsOwn(m, n) => m.no = said[n].no /\ m.v = said[n].v
      <3>1. \A n \in Networks : IsOwn(m, n) => m.no = said[n].no
        BY <1>3 DEF Resend, Undisturbed, IsOwn
      <3>2. QED
        BY <2>1, <3>1 DEF Fits
    <2>3. UNCHANGED <<own, said, pending, call, map, dev>>
      BY <1>3 DEF Resend, server, client
    <2>4. StreamKept(stream') /\ UNCHANGED <<queued, conn>> /\ unacked' = unacked \cup {m}
          /\ \A x \in unacked', n \in Networks : Fits(x, n, said)
      BY <1>3, <2>1, <2>2, SentLearns DEF Resend
    <2>5. StageOK'
      BY <2>3, <2>4, StageKept DEF Learning
    <2>6. \A n \in Networks : Told(unacked, n, said[n].no) => Told(unacked', n, said[n].no)
      BY <2>4 DEF Told
    <2>7. QED
      BY <2>3, <2>4, <2>5, <2>6, Steady DEF Announced
  <1>4. ASSUME HubForgets \/ ConnectionBreaks PROVE Learning'
    <2>1. UNCHANGED <<own, said, pending, unacked, queued, call, map, dev>> /\ stream' \in {stream, <<>>}
          /\ (conn' = "none" => conn = "none")
      BY <1>4 DEF HubForgets, ConnectionBreaks, server, client
    <2>2. StageOK' /\ StreamKept(stream')
      BY <2>1, StageKept, LostKept DEF Learning
    <2>3. QED
      BY <2>1, <2>2, Steady, FitsNow DEF Announced
  <1>5. ASSUME NEW kind \in {"plan", "candidate", "enabled"}, NEW n \in Networks,
               NEW w \in Peers \cup {Self}, Notify(kind, n, w)
        PROVE  Learning'
    <2> DEFINE m == Msg(kind, n, w, 0, 0, 0)
    <2>1. m \in Message /\ \A k \in Networks : ~IsOwn(m, k)
      BY DEF Msg, Message, IsOwn
    <2>2. UNCHANGED <<own, said, pending, call, map, dev>> /\ SendTracked(m)
      BY <1>5 DEF Notify, client
    <2> HIDE DEF m
    <2>3. QED
      BY <2>1, <2>2, OtherSent DEF Announced
  <1>6. ASSUME NEW n \in Networks, RangeChanges(n) PROVE Learning'
    BY <1>6 DEF RangeChanges, Undisturbed
  <1>7. QED
    BY <1>1, <1>2, <1>3, <1>4, <1>5, <1>6, AnnounceLearns, HomeAssumption DEF Server

\* A confirmation takes that message at most.
LEMMA ConfirmedTold ==
    ASSUME NEW m, Confirmed(m), NEW n, NEW v, Told(unacked, n, v)
    PROVE  Told(unacked', n, v) \/ (IsOwn(m, n) /\ m.no = v)
  <1>1. PICK w \in unacked : IsOwn(w, n) /\ w.no = v
    BY DEF Told
  <1>2. w \in unacked' \/ w = m
    BY DEF Confirmed
  <1>3. QED
    BY <1>1, <1>2 DEF Told

\* A sync begins, is answered, and has read the answer and the events.
LEMMA StagesLearn ==
    ASSUME IInv, Learning, SyncBegins \/ ServerAnswers \/ ReadMap \/ DrainEnds \/ DrainTorn
    PROVE  Learning'
  <1>1. UNCHANGED <<own, said, pending, unacked, queued, map, dev>> /\ stream' \in {stream, <<>>}
    BY DEF SyncBegins, ServerAnswers, ReadMap, DrainEnds, DrainTorn, server, link, client
  <1>2. StreamKept(stream')
    BY <1>1, LostKept DEF Learning
  <1>3. /\ call'.ups = call.ups /\ call'.old = call.old /\ call'.fresh = call.fresh
        /\ call'.read = call.read /\ StageOK'
    <2>1. CASE SyncBegins
      <3>1. call = Idle
        BY <2>1 DEF SyncBegins, At, Learning, StageOK
      <3>2. call' \in {[Idle EXCEPT !.at = "connect"], [Idle EXCEPT !.at = "asked"]}
            /\ UNCHANGED <<conn, queued>> /\ (call'.at = "connect" <=> conn = "none")
        BY <2>1 DEF SyncBegins, Idle, link
      <3>3. /\ call'.ups = Idle.ups /\ call'.old = Idle.old /\ call'.fresh = Idle.fresh
            /\ call'.read = Idle.read /\ call'.at \in {"connect", "asked"}
        BY <3>2 DEF Idle
      <3>4. StageOK'
        BY <3>2, <3>3, IdleFields DEF Learning, StageOK
      <3>5. QED
        BY <3>1, <3>3, <3>4
    <2>2. CASE ServerAnswers \/ ReadMap
      <3>1. call \in Call /\ call.at \in {"asked", "awaited"} /\ conn = "open"
            /\ UNCHANGED <<conn, queued>>
        BY <2>2 DEF ServerAnswers, ReadMap, At, IInv, CallOK, link
      <3>2. /\ call'.ups = call.ups /\ call'.old = call.old /\ call'.fresh = call.fresh
            /\ call'.read = call.read /\ call'.at \in {"awaited", "drain"}
        BY <2>2, <3>1 DEF ServerAnswers, ReadMap, Call
      <3>3. StageOK'
        BY <3>1, <3>2 DEF Learning, StageOK
      <3>4. QED
        BY <3>2, <3>3
    <2>3. CASE DrainEnds \/ DrainTorn
      <3>1. call \in Call /\ call.at = "drain" /\ conn' \in {conn, "broken"} /\ UNCHANGED queued
        BY <2>3 DEF DrainEnds, DrainTorn, At, IInv, CallOK, link
      <3>2. \E a \in {"switch", "commit"} : call' = [call EXCEPT !.at = a]
        BY <2>3 DEF DrainEnds, DrainTorn, Drained, Goto
      <3>3. /\ call'.ups = call.ups /\ call'.old = call.old /\ call'.fresh = call.fresh
            /\ call'.read = call.read /\ call'.at \in {"switch", "commit"}
        BY <3>1, <3>2 DEF Call
      <3>4. StageOK'
        BY <3>1, <3>3 DEF Learning, StageOK
      <3>5. QED
        BY <3>3, <3>4
    <2>4. QED
      BY <2>1, <2>2, <2>3
  <1>4. QED
    BY <1>1, <1>2, <1>3, Steady, FitsNow DEF Announced

\* A new connection: nothing was queued on the former one, which is kept.
LEMMA ConnectLearns ==
    ASSUME IInv, Learning, Connect
    PROVE  Learning'
  <1>1. /\ UNCHANGED <<own, said, pending, unacked, map, dev>> /\ stream' = <<>> /\ queued' = <<>>
        /\ conn' = "open" /\ call \in Call /\ call.at = "connect"
    BY DEF Connect, server, client, IInv, CallOK, At
  <1>2. /\ call'.ups = call.ups /\ call'.read = call.read /\ call'.at = "asked"
        /\ call'.old = [conn |-> conn, stream |-> stream, queued |-> queued]
    BY <1>1 DEF Connect, Call
  <1>3. call'.old.stream = stream /\ call'.old.queued = queued
    BY <1>2
  <1>4. call.read = 0 /\ call.ups = <<>> /\ queued = <<>>
    BY <1>1 DEF Learning, StageOK
  <1>5. OrderOK'
    BY <1>1, <1>2, <1>3, <1>4, NothingTold DEF Learning, OrderOK
  <1>6. StageOK'
    BY <1>1, <1>2, <1>3, <1>4 DEF Learning, StageOK
  <1>7. ASSUME NEW n \in Networks PROVE Learns(n)' /\ FallsBack(n)'
    <2>1. Announced(n)' => \/ Told(unacked', n, said'[n].no)
                           \/ Knows(n)' /\ NoFormer(stream, n, said'[n].no)
      <3>1. Learns(n) /\ Knows(n)' = Knows(n) /\ Announced(n)' = Announced(n)
        BY <1>1 DEF Learning, Knows, Announced
      <3>2. QED
        BY <1>1, <1>4, <3>1, NothingTold DEF Learns
    <2>2. Learns(n)'
      BY <1>1, <1>2, <1>4, <2>1, NothingTold DEF Learns
    <2>3. FallsBack(n)'
      BY <1>3, <2>1 DEF FallsBack
    <2>4. QED
      BY <2>2, <2>3
  <1>8. QED
    BY <1>5, <1>6, <1>7 DEF Learning

\* An event comes before the answer.
LEMMA QueueLearns ==
    ASSUME IInv, Learning, QueueEvent
    PROVE  Learning'
  <1> DEFINE m == Head(stream)
  <1>1. /\ UNCHANGED <<own, said, pending, map, dev, conn>> /\ stream # <<>> /\ stream' = Tail(stream)
        /\ queued' = Append(queued, m) /\ Confirmed(m) /\ call \in Call
        /\ call.at \in {"asked", "awaited"}
    BY DEF QueueEvent, server, client, IInv, CallOK, At, Waiting
  <1>2. /\ call'.ups = call.ups /\ call'.read = call.read /\ call'.at = call.at
        /\ call'.old = call.old /\ call'.fresh = call.fresh
    BY <1>1 DEF QueueEvent, Call
  <1>3. call.read = 0 /\ call.ups = <<>> /\ conn # "none" /\ OrderOK
    BY <1>1 DEF Learning, StageOK
  <1>4. stream \in Seq(Message) /\ queued \in Seq(Message) /\ m \in Message
    BY <1>1, MessageSeqs, Taken
  <1>5. queued' # <<>>
    BY <1>1, <1>4
  <1> HIDE DEF m
  <1>6. OrderOK'
    <2>1. /\ Ordered(stream') /\ Reached(stream', said) /\ Before(queued, stream')
          /\ \A i \in DOMAIN queued : InOrder(queued[i], m)
          /\ \A j \in DOMAIN stream' : InOrder(m, stream'[j])
          /\ \A n \in Networks : Fits(m, n, said)
      BY <1>1, <1>3, <1>4, Taken DEF OrderOK, m
    <2>2. Ordered(queued') /\ Reached(queued', said) /\ Before(queued', stream')
      BY <1>1, <1>3, <1>4, <2>1, Appended DEF OrderOK
    <2>3. unacked' \subseteq unacked
      BY <1>1 DEF Confirmed
    <2>4. QED
      BY <1>1, <1>2, <1>3, <2>1, <2>2, <2>3, NothingTold DEF OrderOK
  <1>7. StageOK'
    BY <1>1, <1>2, <1>3 DEF Learning, StageOK
  <1>8. ASSUME NEW n \in Networks PROVE Learns(n)' /\ FallsBack(n)'
    <2>1. /\ Told(unacked, n, said[n].no) => Told(unacked', n, said[n].no) \/ Current(queued', n, said[n].no)
          /\ Current(queued, n, said[n].no) => Current(queued', n, said[n].no)
          /\ ~Current(call.ups, n, said[n].no) /\ NoFormer(call'.ups, n, said[n].no)
      BY <1>1, <1>2, <1>3, <1>4, ConfirmedTold, Appended, NothingTold
    <2>2. NoFormer(queued, n, said[n].no) /\ NoFormer(stream, n, said[n].no)
          => NoFormer(queued', n, said[n].no) /\ NoFormer(stream', n, said[n].no)
      <3>1. NoFormer(stream, n, said[n].no)
            => NoFormer(stream', n, said[n].no) /\ (IsOwn(m, n) => m.no = said[n].no)
        BY <1>1, <1>4, Taken DEF m
      <3>2. QED
        BY <1>1, <1>4, <3>1, Appended
    <2>3. Learns(n) /\ Knows(n)' = Knows(n) /\ Announced(n)' = Announced(n)
      BY <1>1 DEF Learning, Knows, Announced
    <2>4. Learns(n)'
      BY <1>1, <2>1, <2>2, <2>3 DEF Learns
    <2>5. FallsBack(n)'
      BY <1>5 DEF FallsBack
    <2>6. QED
      BY <2>4, <2>5
  <1>9. QED
    BY <1>6, <1>7, <1>8 DEF Learning

\* An event leaves the call as it is but for what it has gathered.
LEMMA AppliedUps ==
    ASSUME call \in Call, NEW m \in Events
    PROVE  /\ Applied(call, m).at = call.at /\ Applied(call, m).read = call.read
           /\ Applied(call, m).old = call.old /\ Applied(call, m).fresh = call.fresh
           /\ Applied(call, m).ups = IF m.kind = "address" THEN Append(call.ups, m) ELSE call.ups
  <1>1. m.kind \in {"update", "remove", "address", "plan", "enabled", "restart"}
    BY DEF Events, Known, Message, IsEvent
  <1>2. CASE m.kind = "update"
    BY <1>2 DEF Applied, Call
  <1>3. CASE m.kind = "remove"
    BY <1>3 DEF Applied, Call
  <1>4. CASE m.kind = "address"
    BY <1>4 DEF Applied, Call
  <1>5. CASE m.kind = "plan"
    BY <1>5 DEF Applied, Call
  <1>6. CASE m.kind = "enabled"
    BY <1>6 DEF Applied, Call
  <1>7. CASE m.kind = "restart"
    BY <1>7 DEF Applied
  <1>8. QED
    BY <1>1, <1>2, <1>3, <1>4, <1>5, <1>6, <1>7

\* An event is applied, the next of those that were queued or else the next
\* of the connection.
LEMMA DrainLearns ==
    ASSUME IInv, Learning, DrainEvent
    PROVE  Learning'
  <1>1. PICK m :
          /\ Apply(m)
          /\ \/ queued # <<>> /\ m = Head(queued) /\ queued' = Tail(queued)
                /\ UNCHANGED <<unacked, stream>>
             \/ queued = <<>> /\ stream # <<>> /\ m = Head(stream) /\ stream' = Tail(stream)
                /\ IsEvent(m) /\ Confirmed(m) /\ UNCHANGED queued
    BY DEF DrainEvent
  <1>2. /\ UNCHANGED <<own, said, pending, map, dev, conn>> /\ call \in Call /\ call.at = "drain"
        /\ OrderOK /\ StageOK
    BY DEF DrainEvent, server, client, IInv, CallOK, At, Learning
  <1>3. m \in Events
    <2>1. CASE queued # <<>>
      BY <1>1, <2>1 DEF IInv, LinkOK
    <2>2. CASE queued = <<>>
      <3>1. m \in Known
        BY <1>1, <2>2 DEF IInv, LinkOK
      <3>2. QED
        BY <1>1, <2>2, <3>1 DEF Events
    <2>3. QED
      BY <2>1, <2>2
  <1>4. m \in Message
    BY <1>3 DEF Events, Known
  <1>5. /\ call'.at = "drain" /\ call'.read = call.read + 1 /\ call'.old = call.old
        /\ call'.ups = IF m.kind = "address" THEN Append(call.ups, m) ELSE call.ups
    <2>1. Applied(call, m) \in Call
      BY <1>2, <1>3, AppliedType DEF IInv, CallOK, Answered, ServerOK
    <2>2. QED
      BY <1>1, <1>2, <1>3, <2>1, AppliedUps DEF Apply, Call
  <1>6. /\ queued \in Seq(Message) /\ stream \in Seq(Message) /\ call.ups \in Seq(Message)
        /\ call.read \in Nat
    BY MessageSeqs
  <1>7. /\ Ordered(queued') /\ Ordered(stream') /\ Before(queued', stream')
        /\ Reached(queued', said) /\ Reached(stream', said)
        /\ Before(call.ups, queued') /\ Before(call.ups, stream')
        /\ \A i \in DOMAIN call.ups : InOrder(call.ups[i], m)
        /\ \A j \in DOMAIN queued' : InOrder(m, queued'[j])
        /\ \A j \in DOMAIN stream' : InOrder(m, stream'[j])
        /\ \A n \in Networks : Fits(m, n, said)
        /\ unacked' \subseteq unacked
    <2>1. CASE queued # <<>>
      BY <1>1, <1>2, <1>6, <2>1, Taken DEF OrderOK
    <2>2. CASE queued = <<>>
      BY <1>1, <1>2, <1>6, <2>2, Taken, NothingTold DEF OrderOK, Confirmed
    <2>3. QED
      BY <2>1, <2>2
  <1>8. OrderOK'
    <2>1. CASE m.kind = "address"
      <3>1. /\ Ordered(call'.ups) /\ Reached(call'.ups, said)
            /\ Before(call'.ups, queued') /\ Before(call'.ups, stream')
        BY <1>2, <1>4, <1>5, <1>6, <1>7, <2>1, Appended DEF OrderOK
      <3>2. QED
        BY <1>2, <1>5, <1>7, <3>1 DEF OrderOK
    <2>2. CASE m.kind # "address"
      BY <1>2, <1>5, <1>7, <2>2 DEF OrderOK
    <2>3. QED
      BY <2>1, <2>2
  <1>9. StageOK'
    <2>1. \A i \in DOMAIN call'.ups : call'.ups[i].kind = "address"
      BY <1>2, <1>5, <1>6 DEF StageOK
    <2>2. conn' # "none"
      BY <1>2 DEF StageOK
    <2>3. call'.read # 0
      BY <1>5, <1>6
    <2>4. QED
      BY <1>2, <1>5, <2>1, <2>2, <2>3 DEF StageOK
  <1>10. ASSUME NEW n \in Networks PROVE Learns(n)' /\ FallsBack(n)'
    <2> DEFINE v == said[n].no
    <2>1. Learns(n) /\ Knows(n)' = Knows(n) /\ Announced(n)' = Announced(n) /\ v = said'[n].no
      BY <1>2 DEF Learning, Knows, Announced
    <2>2. /\ IsOwn(m, n) /\ m.no = v => Current(call'.ups, n, v)
          /\ Current(call.ups, n, v) => Current(call'.ups, n, v)
          /\ (IsOwn(m, n) => m.no = v) /\ NoFormer(call.ups, n, v) => NoFormer(call'.ups, n, v)
      <3>1. CASE m.kind = "address"
        BY <1>4, <1>5, <1>6, <3>1, Appended
      <3>2. CASE m.kind # "address"
        BY <1>5, <3>2 DEF IsOwn
      <3>3. QED
        BY <3>1, <3>2
    <2>3. /\ Told(unacked, n, v) => Told(unacked', n, v) \/ (IsOwn(m, n) /\ m.no = v)
          /\ Current(queued, n, v) => Current(queued', n, v) \/ (IsOwn(m, n) /\ m.no = v)
          /\ NoFormer(queued, n, v) /\ NoFormer(stream, n, v)
             => NoFormer(queued', n, v) /\ NoFormer(stream', n, v) /\ (IsOwn(m, n) => m.no = v)
      <3>1. CASE queued # <<>>
        <4>1. m = Head(queued) /\ queued' = Tail(queued) /\ UNCHANGED <<unacked, stream>>
          BY <1>1, <3>1
        <4>2. /\ Current(queued, n, v) => Current(queued', n, v) \/ (IsOwn(m, n) /\ m.no = v)
              /\ NoFormer(queued, n, v) => NoFormer(queued', n, v) /\ (IsOwn(m, n) => m.no = v)
          BY <1>6, <3>1, <4>1, Taken
        <4>3. QED
          BY <4>1, <4>2
      <3>2. CASE queued = <<>>
        BY <1>1, <1>6, <3>2, Taken, ConfirmedTold
      <3>3. QED
        BY <3>1, <3>2
    <2> HIDE DEF v
    <2>4. Learns(n)'
      <3>1. Announced(n) => \/ Told(unacked, n, v) \/ Current(queued, n, v) \/ Current(call.ups, n, v)
                            \/ /\ Knows(n) /\ NoFormer(call.ups, n, v)
                               /\ NoFormer(queued, n, v) /\ NoFormer(stream, n, v)
        BY <2>1 DEF Learns, v
      <3>2. Announced(n) => \/ Told(unacked', n, v) \/ Current(queued', n, v)
                            \/ Current(call'.ups, n, v)
                            \/ /\ Knows(n)' /\ NoFormer(call'.ups, n, v)
                               /\ NoFormer(queued', n, v) /\ NoFormer(stream', n, v)
        BY <2>1, <2>2, <2>3, <3>1
      <3>3. QED
        BY <2>1, <3>2 DEF Learns
    <2>5. FallsBack(n)'
      BY <1>5, <1>6 DEF FallsBack
    <2>6. QED
      BY <2>4, <2>5
  <1>11. QED
    BY <1>8, <1>9, <1>10 DEF Learning

\* The address that a sync commits: that of the last announcement, if it was
\* read, or the one that is known, if no former announcement was read.
LEMMA CommitsAddress ==
    ASSUME IInv, Learning, call.map.net = map.net,
           \/ Current(call.ups, map.net, said[map.net].no)
           \/ dev \in {own[map.net], said[map.net].v}
              /\ NoFormer(call.ups, map.net, said[map.net].no)
    PROVE  OwnAddress(call) \in {own[map.net], said[map.net].v}
  <1> DEFINE T == OwnUpdates(call)
             n == map.net
  <1>1. T \in SUBSET (DOMAIN call.ups) /\ \A i \in DOMAIN call.ups : i \in T <=> IsOwn(call.ups[i], n)
    BY DEF OwnUpdates, IsOwn, Learning, StageOK
  <1>2. call \in Call /\ call.ups \in Seq(Message) /\ n \in Networks
        /\ said \in [Networks -> [no : Nat, v : Nat]]
    BY MessageSeqs DEF IInv, CallOK
  <1>3. CASE T = {}
    BY <1>1, <1>3 DEF OwnAddress, Current
  <1>4. CASE T # {}
    <2>1. Last(T) \in T /\ \A j \in T : Last(T) >= j
      BY <1>1, <1>2, <1>4, UpdateChosen
    <2> DEFINE l == Last(T)
    <2>2. OwnAddress(call) = call.ups[l].v
      BY <1>4 DEF OwnAddress
    <2> HIDE DEF T, l
    <2>3. l \in DOMAIN call.ups /\ IsOwn(call.ups[l], n) /\ \A j \in T : l >= j
      BY <1>1, <2>1 DEF l
    <2>4. Fits(call.ups[l], n, said)
      BY <1>2, <2>3 DEF Learning, OrderOK, Reached
    <2>5. call.ups[l].no = said[n].no
      <3>1. CASE NoFormer(call.ups, n, said[n].no)
        BY <2>3, <3>1 DEF NoFormer
      <3>2. CASE Current(call.ups, n, said[n].no)
        <4>1. PICK i \in DOMAIN call.ups : IsOwn(call.ups[i], n) /\ call.ups[i].no = said[n].no
          BY <3>2 DEF Current
        <4>2. i \in T /\ i \in Nat /\ l \in Nat
          BY <1>1, <1>2, <2>3, <4>1
        <4>3. i <= l
          BY <2>3, <4>2
        <4>4. call.ups[l].no <= said[n].no
          BY <2>3, <2>4 DEF Fits
        <4>5. said[n].no <= call.ups[l].no
          <5>1. CASE i = l
            BY <1>2, <4>1, <5>1
          <5>2. CASE i < l
            BY <1>2, <2>3, <4>1, <5>2 DEF Learning, OrderOK, Ordered, InOrder
          <5>3. QED
            BY <4>2, <4>3, <5>1, <5>2
        <4>6. call.ups[l] \in Message
          BY <1>2, <2>3
        <4>7. call.ups[l].no \in Nat /\ said[n].no \in Nat
          BY <1>2, <4>6 DEF Message
        <4>8. QED
          BY <4>4, <4>5, <4>7
      <3>3. QED
        BY <3>1, <3>2
    <2>6. QED
      BY <2>2, <2>3, <2>4, <2>5 DEF Fits
  <1>5. QED
    BY <1>3, <1>4

\* What a call that has not read events, or that commits them, leaves to be
\* read is in the order it was.
LEMMA RestInOrder ==
    ASSUME OrderOK
    PROVE  Ordered(queued) /\ Ordered(stream) /\ Before(queued, stream)
           /\ Reached(queued, said) /\ Reached(stream, said)
  BY DEF OrderOK

\* A sync that has gathered events ends by taking them over: what was gathered
\* is known, and what is left to be read is not older.
LEMMA GatheredSettles ==
    ASSUME IInv, Learning, NEW n \in Networks
    PROVE  Announced(n) =>
               \/ Told(unacked, n, said[n].no) \/ Current(queued, n, said[n].no)
               \/ /\ NoFormer(queued, n, said[n].no) /\ NoFormer(stream, n, said[n].no)
                  /\ \/ Current(call.ups, n, said[n].no)
                     \/ Knows(n) /\ NoFormer(call.ups, n, said[n].no)
  <1>1. Current(call.ups, n, said[n].no)
        => NoFormer(queued, n, said[n].no) /\ NoFormer(stream, n, said[n].no)
    BY AfterCurrent, MessageSeqs DEF Learning, OrderOK
  <1>2. Learns(n)
    BY DEF Learning
  <1>3. QED
    BY <1>1, <1>2 DEF Learns

\* A sync or a bootstrap that succeeds.
LEMMA CommitLearns ==
    ASSUME IInv, Learning, Undisturbed',
           \/ Commit \/ ReapplyFails \/ Switch \/ SwitchFails
           \/ \E n \in Networks : Bootstrap(n)
    PROVE  Learning'
  <1>1. UNCHANGED <<own, said, pending, unacked, stream, queued, conn>>
    BY DEF Commit, ReapplyFails, Switch, SwitchFails, Bootstrap, Bootstrapped, server, link
  <1>2. /\ call' = Idle
        /\ conn = "none" => queued = <<>>
    BY DEF Commit, ReapplyFails, Switch, SwitchFails, Bootstrap, At, Learning, StageOK
  <1>3. ASSUME NEW n \in Networks PROVE Settled(n, queued, stream)'
    <2>1. Announced(n)' = Announced(n)
      BY <1>1 DEF Announced
    <2>2. CASE Commit
      <3>1. map' = call.map /\ dev' = OwnAddress(call) /\ call.map.net = map.net
        BY <2>2 DEF Commit, At, IInv, CallOK, Answered
      <3>2. Current(call.ups, n, said[n].no) \/ (Knows(n) /\ NoFormer(call.ups, n, said[n].no)) => Knows(n)'
        BY <1>1, <3>1, CommitsAddress DEF Knows
      <3>3. QED
        BY <1>1, <2>1, <3>2, GatheredSettles DEF Settled
    <2>3. CASE Switch \/ \E k \in Networks : Bootstrap(k)
      <3>1. PICK k \in Networks : map' \in Built(k) /\ dev' = own[k]
        BY <2>3 DEF Switch, Bootstrap, Bootstrapped, At, IInv, CallOK
      <3>2. map'.net = k
        BY <3>1, BuiltType DEF IInv
      <3>3. Knows(n)'
        BY <1>1, <3>1, <3>2 DEF Knows
      <3>4. QED
        BY <1>1, <2>1, <3>3, GatheredSettles DEF Settled
    <2>4. CASE ReapplyFails \/ SwitchFails
      BY <2>4 DEF ReapplyFails, SwitchFails, Undisturbed
    <2>5. QED
      BY <2>2, <2>3, <2>4
  <1>4. /\ Ordered(queued') /\ Ordered(stream') /\ Before(queued', stream')
        /\ Reached(queued', said') /\ Reached(stream', said')
    BY <1>1, RestInOrder DEF Learning
  <1>5. QED
    BY <1>1, <1>2, <1>3, <1>4, Ends, FitsNow

\* The connection is dropped: nothing that was read is lost unnoticed, and what
\* was not read is not confirmed.
LEMMA DropLearns ==
    ASSUME IInv, Learning, Undisturbed',
           CliSync \/ Disconnect \/ \E n \in Networks : Restart(n)
    PROVE  Learning'
  <1>1. /\ UNCHANGED <<own, said, pending, unacked>> /\ stream' = <<>> /\ queued' = <<>>
        /\ call' = Idle
    BY DEF CliSync, Disconnect, Restart, Bootstrapped, server, At, Learning, StageOK
  <1>2. queued = <<>> /\ call.ups = <<>>
    <2>1. queued = <<>> /\ call.read = 0
      <3>1. CASE CliSync
        BY <3>1 DEF CliSync, Undisturbed, At, Learning, StageOK
      <3>2. CASE Disconnect
        BY <3>2 DEF Disconnect, Undisturbed, At, Learning, StageOK
      <3>3. CASE \E n \in Networks : Restart(n)
        <4>1. ~(queued # <<>> \/ call.read > 0)
          BY <3>3 DEF Restart, Undisturbed
        <4>2. call.read \in Nat
          BY MessageSeqs
        <4>3. QED
          BY <4>1, <4>2
      <3>4. QED
        BY <3>1, <3>2, <3>3
    <2>2. QED
      BY <2>1 DEF Learning, StageOK
  <1>3. ASSUME NEW n \in Networks PROVE Settled(n, queued, stream)'
    <2>1. Announced(n)' = Announced(n)
      BY <1>1 DEF Announced
    <2>2. Announced(n) => Told(unacked, n, said[n].no) \/ Knows(n)
      BY <1>2, GatheredSettles, NothingTold
    <2>3. Knows(n) => Knows(n)'
      <3>1. CASE CliSync
        <4>1. map' = call.map /\ call.map.net = map.net /\ UNCHANGED dev
          BY <3>1 DEF CliSync, At, IInv, CallOK, Answered
        <4>2. QED
          BY <1>1, <4>1 DEF Knows
      <3>2. CASE Disconnect
        BY <1>1, <3>2 DEF Disconnect, Knows
      <3>3. CASE \E k \in Networks : Restart(k)
        BY <1>1, <3>3 DEF Restart, Bootstrapped, Map, Knows
      <3>4. QED
        BY <3>1, <3>2, <3>3
    <2>4. QED
      BY <1>1, <2>1, <2>2, <2>3, NothingTold DEF Settled
  <1>4. QED
    BY <1>1, <1>3, NothingTold, Ends, FitsNow

\* A sync fails: the former connection is back, or this one goes on.
LEMMA SyncFailsLearns ==
    ASSUME IInv, Learning, Undisturbed', NEW read \in BOOLEAN, read => stream # <<>>,
           call.at \notin {"idle", "connect"}, SyncFails(read), UNCHANGED <<server, client>>,
           unacked' \subseteq unacked,
           \A n \in Networks : Told(unacked, n, said[n].no) => Told(unacked', n, said[n].no)
    PROVE  Learning'
  <1>1. UNCHANGED <<own, said, pending, map, dev>> /\ call' = Idle
    BY DEF SyncFails, server, client
  <1>2. call.read = 0 /\ call.ups = <<>> /\ (call.fresh => queued = <<>>)
    <2>1. ~(call.read > 0 \/ (call.fresh /\ queued # <<>>))
      BY DEF SyncFails, Undisturbed
    <2>2. call.read \in Nat
      BY MessageSeqs
    <2>3. call.read = 0
      BY <2>1, <2>2
    <2>4. QED
      BY <2>1, <2>3 DEF Learning, StageOK
  <1>3. \A n \in Networks : Announced(n)' = Announced(n) /\ Knows(n)' = Knows(n)
    BY <1>1 DEF Announced, Knows
  <1>4. CASE call.fresh
    <2>1. stream' = call.old.stream /\ queued' = <<>>
      BY <1>4 DEF SyncFails, Learning, StageOK
    <2>2. Ordered(stream') /\ Reached(stream', said')
      BY <1>1, <2>1 DEF Learning, OrderOK
    <2>3. ASSUME NEW n \in Networks PROVE Settled(n, queued, stream)'
      <3>1. FallsBack(n)
        BY DEF Learning
      <3>2. Announced(n) => \/ Told(unacked, n, said[n].no)
                            \/ Knows(n) /\ NoFormer(call.old.stream, n, said[n].no)
        <4>1. queued = <<>> /\ ~(call.read > 0)
          BY <1>2, <1>4
        <4>2. QED
          BY <1>4, <3>1, <4>1 DEF FallsBack
      <3>3. QED
        BY <1>1, <1>3, <2>1, <3>2, NothingTold DEF Settled
    <2>4. QED
      BY <1>1, <2>1, <2>2, <2>3, NothingTold, Ends, FitsNow
  <1>5. CASE ~call.fresh
    <2>1. UNCHANGED <<conn, queued>> /\ stream' = (IF read THEN Tail(stream) ELSE stream)
      BY <1>5 DEF SyncFails
    <2>2. StreamKept(stream')
      BY <2>1, TailKept, LostKept DEF Learning
    <2>3. /\ Ordered(queued') /\ Ordered(stream') /\ Before(queued', stream')
          /\ Reached(queued', said') /\ Reached(stream', said')
      BY <1>1, <2>1, <2>2 DEF Learning, OrderOK, StreamKept
    <2>4. ASSUME NEW n \in Networks PROVE Settled(n, queued, stream)'
      <3>1. Announced(n) => \/ Told(unacked, n, said[n].no) \/ Current(queued, n, said[n].no)
                            \/ /\ NoFormer(queued, n, said[n].no) /\ NoFormer(stream, n, said[n].no)
                               /\ Knows(n)
        BY <1>2, GatheredSettles, NothingTold
      <3>2. NoFormer(stream, n, said[n].no) => NoFormer(stream', n, said[n].no)
        BY <2>2 DEF StreamKept
      <3>3. QED
        BY <1>1, <1>3, <2>1, <3>1, <3>2 DEF Settled
    <2>5. conn' = "none" => queued' = <<>>
      BY <2>1 DEF Learning, StageOK
    <2>6. QED
      BY <1>1, <2>3, <2>4, <2>5, Ends, FitsNow
  <1>6. QED
    BY <1>4, <1>5

\* The errors of a sync: a message that is not an event tells no address.
LEMMA ErrorsLearn ==
    ASSUME IInv, Learning, Undisturbed', WaitRefused \/ WaitFails \/ DrainFails
    PROVE  Learning'
  <1>1. UNCHANGED <<server, client, own, said, pending, map, dev>> /\ call.at \in {"asked", "awaited", "drain"}
    BY DEF WaitRefused, WaitFails, DrainFails, server, client, At
  <1>2. ASSUME NEW n \in Networks, Told(unacked, n, said[n].no) PROVE Told(unacked', n, said[n].no)
    <2>1. \/ UNCHANGED unacked
          \/ Confirmed(Head(stream)) /\ ~IsEvent(Head(stream))
      BY DEF WaitRefused, WaitFails, DrainFails
    <2>2. QED
      BY <1>2, <2>1, ConfirmedTold DEF IsEvent, IsOwn
  <1>0. unacked' \subseteq unacked
    BY DEF WaitRefused, WaitFails, DrainFails, Confirmed
  <1>3. CASE SyncFails(FALSE) \/ (stream # <<>> /\ SyncFails(TRUE))
    BY <1>0, <1>1, <1>2, <1>3, SyncFailsLearns
  <1>4. ASSUME Reconnects, conn' \in {conn, "broken"}, stream' \in {stream, <<>>}
        PROVE  Learning'
    <2>1. call' = [call EXCEPT !.at = "connect"] /\ queued' = queued /\ queued = <<>>
      BY <1>4 DEF Reconnects, Goto, Undisturbed
    <2>2. /\ call'.at = "connect" /\ call'.ups = call.ups /\ call'.old = call.old
          /\ call'.fresh = call.fresh /\ call'.read = call.read
      BY <2>1 DEF IInv, CallOK, Call
    <2>3. call.read = 0
      <3>1. call.at \in {"asked", "awaited"}
        BY <1>1, <1>4, IdleFields, <2>2 DEF DrainFails, SyncFails, WaitRefused, WaitFails, At
      <3>2. QED
        BY <3>1 DEF Learning, StageOK
    <2>4. StageOK'
      BY <2>1, <2>2, <2>3 DEF Learning, StageOK
    <2>5. StreamKept(stream')
      BY <1>4, LostKept DEF Learning
    <2>6. QED
      BY <1>0, <1>1, <1>2, <2>1, <2>2, <2>4, <2>5, Steady, FitsNow DEF Announced
  <1>5. QED
    BY <1>3, <1>4 DEF WaitRefused, WaitFails, DrainFails

\* The connection is not made: the call ends as it began.
LEMMA ConnectFailsLearns ==
    ASSUME IInv, Learning, ConnectFails \/ ConnectRefused
    PROVE  Learning'
  <1>1. UNCHANGED <<own, said, pending, unacked, stream, queued, conn, map, dev>> /\ call' = Idle
        /\ call.at = "connect"
    BY DEF ConnectFails, ConnectRefused, server, link, client, At
  <1>2. queued = <<>> /\ call.ups = <<>>
    BY <1>1 DEF Learning, StageOK
  <1>3. ASSUME NEW n \in Networks PROVE Settled(n, queued, stream)'
    <2>1. Announced(n)' = Announced(n) /\ Knows(n)' = Knows(n)
      BY <1>1 DEF Announced, Knows
    <2>2. QED
      BY <1>1, <1>2, <2>1, GatheredSettles, NothingTold DEF Settled
  <1>4. /\ Ordered(queued') /\ Ordered(stream') /\ Before(queued', stream')
        /\ Reached(queued', said') /\ Reached(stream', said')
    BY <1>1, RestInOrder DEF Learning
  <1>5. QED
    BY <1>1, <1>2, <1>3, <1>4, Ends, FitsNow

\* Every step keeps the device learning.
LEMMA NextLearns == IInv /\ LearnInv /\ [Next]_vars => LearnInv'
  <1> SUFFICES ASSUME IInv, LearnInv, [Next]_vars, Undisturbed' PROVE Learning'
    BY DEF LearnInv
  <1>1. CASE Next
    <2>1. Learning
      BY <1>1, PastGrows DEF LearnInv, Undisturbed
    <2>2. ASSUME NEW p \in Peers, NEW kind \in Kinds, ConnectPeer(p, kind) PROVE Learning'
      <3>1. UNCHANGED <<own, said, pending, unacked, stream, queued, conn, call, map, dev>>
        BY <2>2 DEF ConnectPeer, server, link
      <3>2. StageOK' /\ StreamKept(stream')
        BY <2>1, <3>1, StageKept, LostKept DEF Learning
      <3>3. QED
        BY <2>1, <3>1, <3>2, Steady, FitsNow DEF Announced
    <2>3. QED
      BY <1>1, <2>1, <2>2, ServerLearns, StagesLearn, ConnectLearns, QueueLearns, DrainLearns,
         CommitLearns, DropLearns, ErrorsLearn, ConnectFailsLearns
         DEF Next, Sync, SyncErrors, Calls
  <1>2. CASE UNCHANGED vars
    <2>1. UNCHANGED <<own, said, pending, unacked, stream, queued, conn, call, map, dev, past>>
      BY <1>2 DEF vars, server, link, client
    <2>2. Learning
      BY <2>1 DEF LearnInv, Undisturbed
    <2>3. StageOK' /\ StreamKept(stream')
      BY <2>1, <2>2, StageKept, LostKept DEF Learning
    <2>4. QED
      BY <2>1, <2>2, <2>3, Steady, FitsNow DEF Announced
  <1>3. QED
    BY <1>1, <1>2

\* At the start the device knows its address and nothing is under way.
LEMMA InitLearns == Init => LearnInv
  <1> SUFFICES ASSUME Init PROVE Learning
    BY DEF LearnInv
  <1>1. /\ call = Idle /\ queued = <<>> /\ stream = <<>> /\ dev = 1 /\ unacked = {}
        /\ own = [n \in Networks |-> 1]
    BY DEF Init
  <1>2. OrderOK
    BY <1>1, IdleFields, NothingTold DEF OrderOK
  <1>3. StageOK
    BY <1>1, IdleFields DEF StageOK
  <1>4. \A n \in Networks : Learns(n) /\ FallsBack(n)
    BY <1>1, IdleFields, NothingTold DEF Learns, FallsBack, Knows
  <1>5. QED
    BY <1>2, <1>3, <1>4 DEF Learning

\* However often the connection breaks or is replaced, messages are sent again
\* or events are read in other calls than they came in, a device that no
\* announcement of its address went past has its address, or the one that was
\* announced last, when nothing is on its way any more, unless a sync failed
\* after it had read events, an older message was sent again after a newer
\* one, or an address changed without an announcement.
THEOREM OwnAddressAlwaysLearnt == Spec => []OwnAddressLearnt
  <1>1. IInv /\ LearnInv => OwnAddressLearnt
    <2> SUFFICES ASSUME IInv, LearnInv, Quiet, Undisturbed
                 PROVE  dev \in {own[map.net], said[map.net].v}
      BY DEF OwnAddressLearnt, Undisturbed
    <2>1. map.net \in Networks /\ Learning
      BY MessageSeqs DEF LearnInv
    <2>2. call.ups = <<>> /\ queued = <<>> /\ unacked = {} /\ Announced(map.net)
      BY <2>1, IdleFields DEF Quiet, At, Learning, StageOK, Announced
    <2>3. Learns(map.net)
      BY <2>1 DEF Learning
    <2>4. QED
      BY <2>2, <2>3, NothingTold DEF Learns, Told, Knows
  <1>2. QED
    BY <1>1, InitInv, NextKeeps, InitLearns, NextLearns, PTL DEF Spec
=============================================================================
