--------------------------- MODULE ControlChannel ---------------------------
(***************************************************************************)
(* server/server-biz: the control WebSocket of one server process.  Each    *)
(* connection has a goroutine; together they share the hub (node id ->      *)
(* connection) and, in the database, the control sessions that bootstrap    *)
(* stored, the endpoints of the nodes and the status of their devices.      *)
(*                                                                         *)
(* A step is the part of a handler up to the next point where another       *)
(* goroutine's step can make a difference.  The nodes belong to one user    *)
(* and each is the only node of its device.  A control token that Redis     *)
(* dropped after 24 hours is refused, as is one that nobody presents.       *)
(***************************************************************************)
EXTENDS Naturals, FiniteSets

CONSTANTS Nodes, Networks,
          Tokens,       \* control session tokens that bootstrap hands out
          Conns,        \* WebSocket connections, each used once
          MaxFailures,  \* bound on crashes and database errors
          Nil

ASSUME NilAssumption == Nil \notin Nodes \cup Networks \cup Tokens

VARIABLES grant,      \* token -> the node and network it was issued for, or Nil
          row,        \* token -> state of its control_sessions row
          member,     \* node -> the networks its device is a member of
          status,     \* node -> status of its device
          endpoints,  \* <<node, network>> with stored endpoints
          hub,        \* node -> connection and network registered for it, or Nil
          conn,       \* connection -> its goroutine's stage and session
          untidy,     \* history: nodes one of whose connections went away, or left
                      \* a network, without a CloseSession for it
          failures    \* failures so far

vars == <<grant, row, member, status, endpoints, hub, conn, untidy, failures>>

Grant == [node : Nodes, net : Networks]
\* "unborn": bootstrap has checked the request and not yet stored the session.
RowStates == {"unborn", "fresh", "stale", "gone"}
HubEntry == [conn : Conns, net : Networks]
Stages == {"free", "open", "ended", "unregistered", "cleared", "done"}
\* hello is the token of a handshake accepted and not yet registered.
Session == [stage : Stages, node : Nodes \cup {Nil}, net : Networks \cup {Nil},
            hello : Tokens \cup {Nil}]

ASSUME NilRecordAssumption == Nil \notin Grant \cup HubEntry

Stored(t) == grant[t] # Nil /\ row[t] \in {"fresh", "stale"}
IsFor(t, n, g) == Stored(t) /\ grant[t].node = n /\ grant[t].net = g

\* Mutant: a session counts whenever it was last seen.
HasAnySession(n, g) == \E t \in Tokens : IsFor(t, n, g)
\* hasFreshControlSession: the latest session was seen in the last 45 seconds.
HasFreshSession(n, g) == \E t \in Tokens : IsFor(t, n, g) /\ row[t] = "fresh"

\* networkPeerDTO: the peers in g are shown node n.
Visible(n, g) == g \in member[n] /\ status[n] = "online" /\ HasFreshSession(n, g)

\* The connection is, or is about to be, registered for node n.
IsNode(c, n) == conn[c].node = n \/ (conn[c].hello # Nil /\ grant[conn[c].hello].node = n)

\* A goroutine that can take the next message of an authorized session.
Serving(c) == conn[c].stage = "open" /\ conn[c].hello = Nil /\ conn[c].node # Nil
-----------------------------------------------------------------------------
Init ==
    /\ grant = [t \in Tokens |-> Nil]
    /\ row = [t \in Tokens |-> "unborn"]
    /\ member \in [Nodes -> SUBSET Networks]
    /\ status = [n \in Nodes |-> "offline"]
    /\ endpoints = {}
    /\ hub = [n \in Nodes |-> Nil]
    /\ conn = [c \in Conns |-> [stage |-> "free", node |-> Nil, net |-> Nil, hello |-> Nil]]
    /\ untidy = {}
    /\ failures = 0

\* CreateControlSession and Bootstrap: membership is checked, and the session
\* stored by a later statement.
Bootstrap(t, n, g) ==
    /\ grant[t] = Nil
    /\ g \in member[n]
    /\ grant' = [grant EXCEPT ![t] = [node |-> n, net |-> g]]
    /\ UNCHANGED <<row, member, status, endpoints, hub, conn, untidy, failures>>

StoreSession(t) ==
    /\ grant[t] # Nil /\ row[t] = "unborn"
    /\ row' = [row EXCEPT ![t] = "fresh"]
    /\ UNCHANGED <<grant, member, status, endpoints, hub, conn, untidy, failures>>

\* Switch, Activate and the joins: the user's devices leave every other
\* network and their sessions there are deleted; n's device becomes a member.
SwitchNetwork(n, g) ==
    /\ member[n] # {g}
    /\ row' = [t \in Tokens |-> IF Stored(t) /\ grant[t].net # g THEN "gone" ELSE row[t]]
    /\ member' = [k \in Nodes |-> IF k = n THEN {g} ELSE member[k] \cap {g}]
    /\ untidy' = untidy \cup {k \in Nodes : member[k] \ {g} # {}}
    /\ UNCHANGED <<grant, status, endpoints, hub, conn, failures>>

\* RegisterDevice: registering a device again resets the status of its row.
RegisterDevice(n) ==
    /\ status' = [status EXCEPT ![n] = "offline"]
    /\ UNCHANGED <<grant, row, member, endpoints, hub, conn, untidy, failures>>

Open(c) ==
    /\ conn[c].stage = "free"
    /\ conn' = [conn EXCEPT ![c].stage = "open"]
    /\ UNCHANGED <<grant, row, member, status, endpoints, hub, untidy, failures>>

\* Handshake: the session is touched and the device marked online before the
\* membership is checked for the network map.
Hello(c, t) ==
    /\ conn[c].stage = "open" /\ conn[c].hello = Nil
    /\ Stored(t)
    /\ LET n == grant[t].node IN
         /\ row' = [row EXCEPT ![t] = "fresh"]
         /\ status' = [status EXCEPT ![n] = "online"]
         /\ IF grant[t].net \in member[n]
            THEN conn' = [conn EXCEPT ![c].hello = t] /\ UNCHANGED untidy
            ELSE untidy' = untidy \cup {n} /\ UNCHANGED conn
    /\ UNCHANGED <<grant, member, endpoints, hub, failures>>

\* handleNodeHello after the handshake.  A connection may greet again, for the
\* same node or another; the hub entry of the earlier node is then left alone.
Register(c) ==
    /\ conn[c].stage = "open" /\ conn[c].hello # Nil
    /\ LET to == grant[conn[c].hello]
       IN  /\ conn' = [conn EXCEPT ![c] =
                         [stage |-> "open", node |-> to.node, net |-> to.net, hello |-> Nil]]
           /\ hub' = [hub EXCEPT ![to.node] = [conn |-> c, net |-> to.net]]
           /\ untidy' = IF conn[c].node # Nil /\ <<conn[c].node, conn[c].net>> # <<to.node, to.net>>
                        THEN untidy \cup {conn[c].node} ELSE untidy
    /\ UNCHANGED <<grant, row, member, status, endpoints, failures>>

\* Heartbeat: every stored session of the node in the network is touched.
Touched(n, g) ==
    IF g \in member[n]
    THEN [t \in Tokens |-> IF IsFor(t, n, g) THEN "fresh" ELSE row[t]]
    ELSE row

\* ping; the other messages begin with the same heartbeat.  peer_candidate,
\* connection_state and path_health_report do nothing more to this state.
Heartbeat(c) ==
    /\ Serving(c)
    /\ row' = Touched(conn[c].node, conn[c].net)
    /\ UNCHANGED <<grant, member, status, endpoints, hub, conn, untidy, failures>>

\* network_map_request for g: the session moves to g, its hub entry does not.
MapRequest(c, g) ==
    /\ Serving(c)
    /\ g \in member[conn[c].node]
    /\ row' = Touched(conn[c].node, conn[c].net)
    /\ conn' = [conn EXCEPT ![c].net = g]
    /\ untidy' = IF g # conn[c].net THEN untidy \cup {conn[c].node} ELSE untidy
    /\ UNCHANGED <<grant, member, status, endpoints, hub, failures>>

\* endpoint_report for node n in network g, by default the session's own.
Report(c, n, g, some) ==
    /\ Serving(c)
    /\ g \in member[n]
    /\ row' = Touched(conn[c].node, conn[c].net)
    /\ endpoints' = IF some THEN endpoints \cup {<<n, g>>} ELSE endpoints \ {<<n, g>>}
    /\ status' = [status EXCEPT ![n] = "online"]
    /\ untidy' = IF <<n, g>> # <<conn[c].node, conn[c].net>> THEN untidy \cup {n} ELSE untidy
    /\ UNCHANGED <<grant, member, hub, conn, failures>>

\* disconnect_notice, about a network g the node is a member of.
Notice(c, g) ==
    /\ Serving(c)
    /\ g \in member[conn[c].node]
    /\ row' = Touched(conn[c].node, conn[c].net)
    /\ status' = [status EXCEPT ![conn[c].node] = "offline"]
    /\ UNCHANGED <<grant, member, endpoints, hub, conn, untidy, failures>>

\* The connection breaks: serveControlWS leaves its loop.
Ends(c) ==
    /\ conn[c].stage = "open" /\ conn[c].hello = Nil
    /\ conn' = [conn EXCEPT ![c].stage = "ended"]
    /\ UNCHANGED <<grant, row, member, status, endpoints, hub, untidy, failures>>

\* Mutant: the hub is not told.
UnregisterSkipped(c) ==
    /\ conn[c].stage = "ended"
    /\ conn' = [conn EXCEPT ![c].stage = "unregistered"]
    /\ UNCHANGED <<grant, row, member, status, endpoints, hub, untidy, failures>>
\* The deferred unregister, by node id.
Unregister(c) ==
    /\ conn[c].stage = "ended"
    /\ conn' = [conn EXCEPT ![c].stage = "unregistered"]
    /\ hub' = IF conn[c].node # Nil THEN [hub EXCEPT ![conn[c].node] = Nil] ELSE hub
    /\ UNCHANGED <<grant, row, member, status, endpoints, untidy, failures>>

\* Mutant: the endpoints are left to expire.
ClearKeepsEndpoints(c) ==
    /\ conn[c].stage = "unregistered"
    /\ LET n == conn[c].node
           g == conn[c].net IN
         IF n # Nil /\ g \in member[n]
         THEN /\ row' = [t \in Tokens |-> IF IsFor(t, n, g) THEN "gone" ELSE row[t]]
              /\ conn' = [conn EXCEPT ![c].stage = "cleared"]
              /\ UNCHANGED untidy
         ELSE /\ conn' = [conn EXCEPT ![c].stage = "done"]
              /\ untidy' = IF n # Nil THEN untidy \cup {n} ELSE untidy
              /\ UNCHANGED row
    /\ UNCHANGED <<grant, member, status, endpoints, hub, failures>>
\* CloseSession, the deletes: nothing happens for a session that was never
\* authorized or whose node has left the network.
Clear(c) ==
    /\ conn[c].stage = "unregistered"
    /\ LET n == conn[c].node
           g == conn[c].net IN
         IF n # Nil /\ g \in member[n]
         THEN /\ endpoints' = endpoints \ {<<n, g>>}
              /\ row' = [t \in Tokens |-> IF IsFor(t, n, g) THEN "gone" ELSE row[t]]
              /\ conn' = [conn EXCEPT ![c].stage = "cleared"]
              /\ UNCHANGED untidy
         ELSE /\ conn' = [conn EXCEPT ![c].stage = "done"]
              /\ untidy' = IF n # Nil THEN untidy \cup {n} ELSE untidy
              /\ UNCHANGED <<row, endpoints>>
    /\ UNCHANGED <<grant, member, status, hub, failures>>

\* CloseSession, the last statement.
MarkOffline(c) ==
    /\ conn[c].stage = "cleared"
    /\ status' = [status EXCEPT ![conn[c].node] = "offline"]
    /\ conn' = [conn EXCEPT ![c].stage = "done"]
    /\ UNCHANGED <<grant, row, member, endpoints, hub, untidy, failures>>

\* The database fails in CloseSession; its error is ignored.
CloseFails(c) ==
    /\ conn[c].stage \in {"unregistered", "cleared"} /\ conn[c].node # Nil
    /\ failures < MaxFailures
    /\ failures' = failures + 1
    /\ conn' = [conn EXCEPT ![c].stage = "done"]
    /\ untidy' = untidy \cup {conn[c].node}
    /\ UNCHANGED <<grant, row, member, status, endpoints, hub>>

\* 45 seconds have passed since the session was last seen.
GoesStale(t) ==
    /\ Stored(t) /\ row[t] = "fresh"
    /\ row' = [row EXCEPT ![t] = "stale"]
    /\ UNCHANGED <<grant, member, status, endpoints, hub, conn, untidy, failures>>

\* The same for a session whose node no client pings for.
Lapses(t) == GoesStale(t) /\ \A c \in Conns : Serving(c) => conn[c].node # grant[t].node

\* Mutant: stale rows lose their timestamp and are kept.
CleanupBlanks ==
    /\ row' = [t \in Tokens |-> IF Stored(t) /\ row[t] = "stale" THEN "blank" ELSE row[t]]
    /\ \E old \in SUBSET endpoints : endpoints' = endpoints \ old
    /\ UNCHANGED <<grant, member, status, hub, conn, untidy, failures>>
\* cleanupExpiredControlPlaneState: stale sessions and those endpoints that
\* were not reported for 2 minutes.
Cleanup ==
    /\ row' = [t \in Tokens |-> IF Stored(t) /\ row[t] = "stale" THEN "gone" ELSE row[t]]
    /\ \E old \in SUBSET endpoints : endpoints' = endpoints \ old
    /\ UNCHANGED <<grant, member, status, hub, conn, untidy, failures>>

\* The process ends and starts again: no deferred function runs.
Crash ==
    /\ failures < MaxFailures
    /\ failures' = failures + 1
    /\ hub' = [n \in Nodes |-> Nil]
    /\ conn' = [c \in Conns |-> IF conn[c].stage = "free" THEN conn[c]
                                ELSE [conn[c] EXCEPT !.stage = "done"]]
    /\ untidy' = Nodes
    /\ UNCHANGED <<grant, row, member, status, endpoints>>

Close(c) == Unregister(c) \/ Clear(c) \/ MarkOffline(c)

Next ==
    \/ \E t \in Tokens, n \in Nodes, g \in Networks : Bootstrap(t, n, g)
    \/ \E t \in Tokens : StoreSession(t) \/ GoesStale(t)
    \/ \E n \in Nodes : RegisterDevice(n) \/ \E g \in Networks : SwitchNetwork(n, g)
    \/ \E c \in Conns : \/ Open(c) \/ Register(c) \/ Heartbeat(c) \/ Ends(c)
                        \/ Close(c) \/ CloseFails(c)
                        \/ \E t \in Tokens : Hello(c, t)
                        \/ \E g \in Networks : MapRequest(c, g) \/ Notice(c, g)
                        \/ \E n \in Nodes, g \in Networks, some \in BOOLEAN : Report(c, n, g, some)
    \/ Cleanup \/ Crash

Spec == Init /\ [][Next]_vars

\* Goroutines run to their end, a connected client pings (control_sync runs on
\* a timer), and time passes for the sessions of the others.
FairSpec ==
    /\ Spec
    /\ \A c \in Conns : WF_vars(Register(c)) /\ WF_vars(Close(c)) /\ WF_vars(Heartbeat(c))
    /\ \A t \in Tokens : WF_vars(StoreSession(t)) /\ WF_vars(Lapses(t))
-----------------------------------------------------------------------------
TypeOK ==
    /\ grant \in [Tokens -> Grant \cup {Nil}]
    /\ row \in [Tokens -> RowStates]
    /\ member \in [Nodes -> SUBSET Networks]
    /\ status \in [Nodes -> {"online", "offline"}]
    /\ endpoints \subseteq Nodes \X Networks
    /\ hub \in [Nodes -> HubEntry \cup {Nil}]
    /\ conn \in [Conns -> Session]
    /\ untidy \subseteq Nodes
    /\ failures \in Nat

\* The hub hands out live connections: an entry's goroutine is still before
\* its unregister, unless the connection has since greeted as another node.
HubEntryIsLive ==
    \A n \in Nodes : hub[n] # Nil =>
        LET c == conn[hub[n].conn] IN
        /\ c.node = n => c.stage \in {"open", "ended"}
        /\ c.node # n => n \in untidy

\* However the closing of old connections interleaves with the greeting of new
\* ones, the last goroutine of a node leaves nothing behind: the device is
\* offline, the hub has no entry and no endpoints remain, unless CloseSession
\* was skipped for one of its connections.
LastCloseClears ==
    \A n \in Nodes \ untidy :
        (\A c \in Conns : IsNode(c, n) => conn[c].stage \in {"free", "done"})
            => /\ status[n] = "offline"
               /\ hub[n] = Nil
               /\ \A g \in Networks : <<n, g>> \notin endpoints

\* A node all of whose connections are gone is forgotten: whatever was left
\* behind by a crash or a skipped CloseSession, peers are not shown it forever.
GoneIsForgotten ==
    \A n \in Nodes, g \in Networks :
        <>[](\A c \in Conns : IsNode(c, n) => conn[c].stage # "open")
            => []<>~Visible(n, g)

\* control.go:235: "Heartbeat refreshes the control-session freshness window
\* for the node": when clients never fall silent for 45 seconds, a node that
\* stays connected and a member is seen as fresh again and again.
HeartbeatKeepsFresh ==
    [](\A t \in Tokens : row[t] # "stale") => \A c \in Conns, n \in Nodes, g \in Networks :
        <>[](Serving(c) /\ conn[c].node = n /\ conn[c].net = g /\ g \in member[n])
            => []<>HasFreshSession(n, g)
=============================================================================
