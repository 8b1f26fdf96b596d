# Verification of slan

slan builds private overlay networks: devices of a user join a network, get a
virtual address in it, learn their peers over a control WebSocket, and exchange
packets directly or, when that fails, through a relay.  This directory holds TLA+
models of the parts of slan where requests, goroutines and processes race, the TLC
configurations that check them on small instances, and TLAPS proofs for all sizes.
Paths below are relative to `src/`.

## 1. Inventory

### Parts, their state and their operations

| part | code | state | operations |
|---|---|---|---|
| relay daemon | `server/server-relay` (Rust) | in memory: session store, addresses the participants attached from | `attach`, `detach`, `forward`, `ping`; ends on a socket or decoding error |
| business server | `server/server-biz` (Go, several instances on one database and Redis) | see the next rows | |
| - accounts and login | `internal/service/impl/access.go`, `state.go`, `api/http/auth_callback_ws.go` | users, tokens, callback sockets | register, log in, hand a login over |
| - networks and members | `network_activation.go`, `network_membership.go`, `network_mutation.go`, `onboarding_workflow.go` | networks, member rows, join keys, the active network of a user | join (by access, owner email, key), switch, activate, create, register a device |
| - address leases | `network_support.go`, `network_membership.go`, `network_mutation.go` | subnets and attachments | allocate, attach, detach, change one address, change the range |
| - control channel | `api/http/control_ws*.go`, `control.go`, `control_bootstrap*.go` | hub of connections (memory); control sessions, endpoints, device status (database) | bootstrap, hello, ping, endpoint report, map request, disconnect notice, close, cleanup |
| - message delivery | `control_ws_sessions.go`, `message_delivery.go`, `message_repo.go` | outbox and history tables | send, retry every 3 s, give up after 5 attempts, acknowledge over HTTP |
| - peer fan-out | `control_ws_fanout.go`, `control_ws_sync.go` | revision counters and pub/sub in Redis | peer update, peer remove, candidates, plans, restarts |
| - connect plans, relay tickets | `control_plan.go`, `control_relay.go`, `control_bootstrap.go` | ticket cache, retry windows | rank paths, issue tickets, throttle |
| - operations console API | `ops*.go` | administrative records | list, edit, roles |
| client core | `client/app_core` (Rust crates) | see the next rows | |
| - control client and facade | `control-ws-client`, `ffi-bridge`, `controller-client` | snapshot: bootstrap, network map, plans, path, tunnel address; one WebSocket with a queue of events | bootstrap, `control_sync`, connect, probe, disconnect |
| - paths | `relay-client`, `p2p` | pool of DERP links, session with the relay daemon, direct stream, active path | install and warm up, attach, switch, send, poll |
| - tunnel | `tunnel` | interface and planned peers (memory), what `ip`, `wg` and `netsh` were told (system) | establish, close, replace |
| - hosts | `app-core-cli`, `app-core-helper` | state file, key file; the helper's configuration and status | a process per command; a line-based socket |
| applications | `client/app`, `client/app_core_plugin_*` (Dart, Swift, C++, Kotlin) | user interface | call the core |
| web console | `server/server-ui` (Angular) | user interface | call the API |
| contracts, scripts | `protocol/`, `scripts/`, `docs/` | none | |

### Interactions

* A client bootstraps over HTTP (membership is checked, a control session is stored),
  opens the WebSocket and greets with the session's token.  The greeting registers the
  connection in the hub of that instance, under the node id.
* Every message the server writes to a WebSocket is first a row of the outbox.  The
  client acknowledges it over HTTP, possibly at another instance; the retry loops of
  all instances read the same table.
* HTTP requests that change members, addresses or ranges are sequences of single SQL
  statements.  Almost none is in a transaction, and nothing but unique indexes orders
  them against one another.
* Closing a connection, leaving a network, reporting endpoints and the cleanup of old
  rows change the same control-plane tables.
* Two clients that cannot reach each other attach to the relay with a ticket that
  server-biz signed.  The relay knows nothing but the ticket.
* The application calls `control_sync` on a timer.  The client has one socket and reads
  it only inside that call: requests and events share it, and an event that comes before
  the answer is queued.  Reading a message acknowledges it.
* `connect` tries a direct stream, then DERP or the relay, and then replaces the tunnel.
  The command line restores and saves the snapshot around each command; the helper keeps
  its facade and also exposes the tunnel backend directly.

### What is hard

Interleaved requests of one user (two devices, or an application and a console); a
reconnecting client whose old goroutine is still closing; several retry loops over one
table; a process that stops between two statements; lost and repeated messages;
expiry of tickets, sessions and endpoints; events applied to a map that is newer than
they are; a call of the client that fails half way and leaves its parts disagreeing; a
command killed between two system commands; late datagrams taken for answers; and long
sequences of legal requests.
`PROJECT.json` lists each hazard at its line, with the properties aimed at it.

### What makes each part correct

* relay daemon: the two tables agree; packets pass only between the two parties of one
  session, each admitted by a ticket; nothing survives a restart.
* message delivery: a row is moved, not copied; attempts are bounded; "delivered"
  means the addressee read it; nothing is retried forever.
* control channel: the hub hands out live connections; what a connection left in the
  tables goes away with the last connection of the node, or lapses after a crash.
* address leases: no two devices share an address; addresses are in the range.
* membership: nobody gets in uninvited; a user's devices are together in one network.
* paths: links carry the ticket of the connect that installed them; a connected device
  reaches its peer by the path it reports; a confirmed packet was forwarded; calls return.
* control sync: revisions do not go back, the device learns its address, and the map
  becomes the server's however events were delayed, repeated or lost.
* tunnel: what the state file names is up; failing calls leave no peers or routes behind;
  the helper shows no tunnel that the backend does not have; there is one private key.

## 2. Modules

| module | models | extended or instantiated by |
|---|---|---|
| `RelayService` | abstract: what the relay promises, without tables | `RelayDaemon` (refinement) |
| `RelayDaemon` | server-relay | `MCRelayDaemon`, `RelayDaemonProofs` |
| `MessageDelivery` | outbox, acknowledgement, retry loops | `MCMessageDelivery`, `MessageDeliveryProofs` |
| `ControlChannel` | one server process's WebSockets and the tables they share | `MCControlChannel`, `ControlChannelProofs` |
| `AddressLease` | one subnet's attachments | `MCAddressLease`, `AddressLeaseProofs` |
| `Membership` | networks, members, active networks | `MCMembership`, `MembershipProofs` |
| `ControlSync` | the client's `control_sync` composed with the server's fan-out, hub and resending | `MCControlSync`, `ControlSyncProofs` |
| `ClientPaths` | connect, probe and send of the client, with DERP pool, relay session and path manager | `MCClientPaths`, `ClientPathsProofs` |
| `TunnelHost` | tunnel backends under the command line and the helper | `MCTunnelHost`, `TunnelHostProofs` |

A definition whose comment begins with "Mutant:" is not part of a model: it is a
plausible wrong version of the definition after it, and replacing one by the other
must violate the property that `PROJECT.json` names with it.

### RelayDaemon

`sessions` is `InMemorySessionStore`, `endpoints` is `RelayRuntime.endpoints`, `out` is
what the last datagram made the daemon send.  The daemon is a single loop, so one
datagram is one step: `Attach` (`handle_attach`, with the checks of
`attach_with_ticket` and `StaticTicketValidator::validate` in their order), `Detach`,
`Forward`, `Ping`.  Every check is named by the error code it returns.  `serve` returns
on any receive, decode or send error; `ServeFails` and `AckFails` (the packet is out, its
acknowledgement is not) end the process, `Restart` starts an empty one.  `Tick` is
the clock that tickets expire by.  Tickets are records that say whether each check of
the validator would pass; base64, JSON and HMAC are left out, except that a payload may
be empty or not decode.  `admitted` is a history variable.

### MessageDelivery

One step per SQL statement or transaction: `SendTracked`, then by every loop
`ListRetryable`, `RetryGivesUp` or `RetryResends` per row, `RecordAttempt`; by an HTTP
request `AckReads`, `AckUpdates`, `AckArchives`.  `Archive` is the transaction of
`ArchiveControlOutboundMessage`.  Copies of rows (`batch`, `sending`, `request`) are kept
as they were read: a loop writes back the count it read plus one, and both loops and
handlers archive what they read.  The client acknowledges with the access token
it connected with; the model allows any user's token there, which is more than the client
does, so that the addressee's check of `AckFinds` is what the property rests on.  Failures: the row
or the write of `SendTracked` fails, an acknowledgement is lost, a process stops between
the two transactions of `Ack`, a loop restarts, the connection drops with what was on
the way.  `Ripen` is the passing of three seconds.

### ControlChannel

`conn[c]` is the goroutine of a connection and its `wsSession`, `hub` the map of
`controlWSHub`, `row` the `control_sessions` row of a token with its age ("fresh": seen
in the last 45 seconds).  `Hello` is `Handshake` and `Register` the rest of
`handleNodeHello`, with other goroutines between them; `Ends`, `Unregister`, `Clear` and
`MarkOffline` are the deferred functions of `serveControlWS` in the order they run.
`SwitchNetwork` and `RegisterDevice` are what HTTP requests of the same user do to these
tables.  `untidy` is a history variable: nodes for which a `CloseSession` was skipped, or
had nothing to refer to, because the process crashed, the database failed, the node left
the network, or the connection greeted or reported for something else.

### AddressLease

Addresses and attachment ids are numbers, ids in their sorting order (they are random
strings, so any order may occur: an id is chosen when a row is created).  An attachment
is `LookUp`, `Allocate`, for an owner's device `Prefer`, then `Create`; a change of one
address is `CheckIP`, `SetIP`; a change of the range is `ReadLeases`, one `MoveLease` per
row, `StoreRange`.  `Conflicts` are the two unique indexes of `subnet_attachments`.
`disturbed` is a history variable: an address was set by hand (`Reserve` does not look at
the range, so an owner may set one outside it), or a change of the range overlapped
another request or stopped halfway.

### Membership

`Request` holds what a handler knows between two statements.  `Join` (also `Switch` and
`Activate`), `JoinByOwnerEmail` and `JoinByKey`/`ConsumeKey` continue with
`LeaveSubnets`/`LeaveNetworks` for each device of the user in the order of the query,
`SetActive`, `MembershipRole`, `FindMember`, `CreateMember` and, where the handler
attaches, `Attach`.  `CheckCreate`, `CreateNetwork`, `ActivateFirst` are `Create`;
`RegisterDevice` is the upsert of a device and what provisions it.  `Attach` is the
whole of `AddressLease`'s attachment as one step.  A network is created under a new
random id.  History variables: `admitted`, the users let in by an owner's email or a key,
and `untidy`, users two of whose requests overlapped or who bound a device to a new
network while another one was active.

### ControlSync

Addresses are versions, a map has one per peer, 0 for a peer it does not have.  On the
server, `PeerComes`, `PeerLeaves` and `Readdress` commit a change, `Announce` broadcasts it
to the sessions the hub has for the network, later and in any order; `Notify` stands for
messages to a node whatever its network (plans, candidates, `active_network_enabled`),
`Resend` for the delivery retry of `MessageDelivery`.  `hub` is the entry of this
node, as `ControlChannel` has it, and names the network of the greeting.  A
`control_sync` goes through the stages of `call`: `connect` (handshake and greeting),
`asked`, `awaited` (the answer is behind `ahead` messages), `drain`, then `switch` or
`commit`.  `QueueEvent` is `read_response_envelope`, `DrainEvent` is
`drain_pending_events` with `apply_control_ws_event`, `Commit` everything after it,
the replacement of the tunnel included.  The errors are actions of their own:
a refused or missing answer, a message this client cannot decode, a frame torn by the
200 ms timeout, a failing tunnel, a failing activation.  The command line's `control sync` is
`CliSync`.  `network_restart_required` is left out, as the client does nothing with it.
`past` is a history variable: `missed` (an address change was announced while the hub had
no session of this node in that network, or events were read and dropped by a failing
call), `reordered` (an address that had changed since was sent again), `foreign` (an event of another
network was applied).

### ClientPaths

`stream` is the connector's TCP stream, `relay` the session of `SocketRelayClient`, `pool`
the `PoolState` of the DERP pool, `path` the `active_path` of `InMemoryPathManager`, `snap`
the snapshot.  A ticket is the peer it was issued for.  `ConnectDirect`,
`ConnectFallsBack`, `UseDerp` (`install_cluster`, `warm_up`, `tick_health_check`) or
`UseRelay`, and `Finalize` are one connect, each with its failures (`DerpFails` stops at any
link).  A send over the relay waits for an acknowledgement (`ReadAck`, `AckTimeout`) that has
a length but no number, while datagrams are lost, delayed, duplicated and interleaved with
packets of the peer; `RelayForwards` and `RelayRefuses` are what `RelayDaemon` does with a
packet.  A probe sends and then polls (`PollRelay`, `PollStream`, `PollNothing`) until its
deadline.

### TunnelHost

A call is a sequence of steps, built as the code would run them (`Establish`, `RemovePeer`,
`ReplaceTunnel`, ...), and `todo[p]` is what is left of it.  A step has the configuration it
is for (`ConfigOps`) or a private key (`KeyOps`); the "check" steps are the early returns of
an adapter without an interface of its own (`NeedIface`), and "take" is where `disconnect`
takes the tunnel's address out of the facade, before it closes the tunnel.  `OsStep`, `WindowsStep`,
`BackendStep`, `FacadeStep`, `LoadKey`, `FileStep` and `HelperStep` take the next one;
any may fail (`StepFails`, `Refused`), and `Kill` and `Reboot` happen between any two.  `os` is what the system was told; `iface` and `planned` are the
memory of the backend, `tun` that of the facade, `snap` the snapshot, `file` and `store` the
state file and the key file, which are truncated and then written.  The command line
starts each command with an empty backend and what the file says; the helper keeps one
process and has methods that go to the backend and not through the facade.

## 3. Runs

| run | checks | shows |
|---|---|---|
| `relay_daemon` | `TypeOK`, `StoreMatchesEndpoints`, `ExchangeWithinTicket`, `ImplementsService` | tables agree, packets stay within a ticket's session, the daemon implements `RelayService` |
| `message_delivery` | `TypeOK`, `RowsMove`, `AttemptsBounded`, `DeliveredToOwner`, `RetriesEnd` | see section 1; with stale counts, duplicates, lost requests and restarts |
| `control_channel` | `TypeOK`, `HubEntryIsLive`, `LastCloseClears` | closing and greeting connections in any order leave nothing behind |
| `control_forgets` | `GoneIsForgotten` | even a crash does not leave a node visible forever |
| `control_heartbeat` | `HeartbeatKeepsFresh` (violated) | the late close of an old connection makes a connected node invisible |
| `address_lease` | `TypeOK`, `LeasesUnique`, `LeasesInRange` | racing attachments and changes of the range |
| `membership` | `TypeOK`, `MembersAreLetIn`, `DevicesFollowUser` | joins, switches, creations and registrations, one of them failing |
| `membership_two` | `SingleNetworkPerDevice` (violated) | a device's registration that overlaps a join by owner email leaves it in two networks |
| `control_sync` | `TypeOK`, `OwnAddressLearnt`, `RevisionGrows`, `MapConverges` | a device whose events are delayed, repeated, lost or of another network |
| `sync_tunnel` | `TunnelFollowsPeer` (violated) | two address changes of a peer in one sync: the map gets the last, the tunnel the first |
| `client_paths` | `TypeOK`, `LinksCarryTicket`, `ActiveLinkIsBest`, `ConnectedLeadsToPeer`, `ConfirmedWasForwarded`, `CallsReturn` | connects that fail half way, datagrams in any order |
| `tunnel_host` | `TypeOK`, `SavedTunnelIsUp`, `NoResidue`, `ShownIsPlanned`, `OneSecret` | failing commands, kills, restarts, overlapping commands |

### Disagreements found

Each violated property states what a comment or document of the repository says
(`PROJECT.json`, "findings", quotes them).

1. `control_heartbeat`: `control.go:235` says a heartbeat refreshes the session.
   `CloseSession` of an old connection deletes all sessions of the node, and the
   heartbeats of the new one then update no row.  The client reconnects exactly like this:
   on an error `control_sync` opens the new socket and greets before it drops the old one.
2. `membership_two`: `network_membership.go:83` says a device is in one active network.
   Leaving and inserting are separate statements of racing requests.
3. `sync_tunnel`: `live_device_ip_reassigned.rs:232` tests that `control_sync` reconciles the
   tunnel's address.  With two updates of the peer in one sync, `default_facade.rs:881` takes
   the first for the tunnel, and no later sync repairs it.

Further disagreements are visible in the models but have no run of their own:

* A session goes on relaying after its ticket expired: `forward.rs:41` does not look at the
  ticket, though `server-biz/docs/internal-requirements.md:455` wants it refused.
* `Ack` marks a row in one transaction and archives it in another; a row between the two
  is neither pending nor archived, though `message_models.go:22` says the history takes
  every handled message.
* A map request for another network changes the session and not its hub entry
  (`control_ws_handlers.go:114`), though `control_ws_sessions.go:83` says that the hub
  returns the sessions of a network.  In `ControlSync` the same stale entry brings
  events of a former network, which `apply_control_ws_event` does not tell apart, so the
  map holds peers of another network until the next answer.
* A change to an overlapping range runs into its own rows and fails
  (`network_support.go:96`, against `network.go:14`).
* After a connect, no later process of the command line can close the Linux tunnel:
  `remove_peer` needs an interface that the same process has applied
  (`linux_adapter.rs:426`, against the chain of `client/app_core/README.md:67`).
* `on_p2p_failed` prefers the pool's active link to the relay session just attached
  (`relay-client/src/runtime.rs:825`): packets then go out with the ticket of a former peer,
  though `derp.rs:28` speaks of the ticket of this connection.

Behaviour the models show and no document excludes, so no property is about it: the
late unregister of an old connection removes the hub entry of the new one (both are under
the node id); a join key read by two requests before either clears it lets both in; a
loop that gives up a row while an acknowledgement is archiving it leaves both a delivered
and an undelivered row in the history; two concurrent creations give a user two networks;
an own address that changes while the device has no session of that network is not
learnt by synchronising, because the map does not hold the device itself; a tunnel is replaced only
when its peer's address changes, so neither a new own address nor a DERP path reaches
it; a failed connect to a second peer has already moved the path of the first; after a
restart of the machine the state file names a tunnel that is gone; a disconnect leaves
the path manager's path, which a probe still uses.

### Bounds, and why they are enough

* Relay: three nodes, two ids, two addresses.  One id is claimed by two pairs of
  different networks, one ticket pairs a node with itself, one ticket fails each check,
  and two expiry times lie on either side of the clock's one step.  All 23,910 states are
  visited; there is no bound on the number of datagrams.
* Messages: one message (rows are independent of each other except for the size of a
  pass, so `Limit` never bites here), two loops, two concurrent acknowledgements, two
  failures, three attempts, so that two loops can repeat a count and still reach the
  limit.
* Control channel: one node in up to two networks with two connections, two tokens, one
  failure: an old and a new connection of the same node is where the races are.  A
  second node is only in the proofs.
* Leases: three devices, one the owner's; two /29 ranges that the default subnet may
  have and one of an additional subnet with two addresses, so that it fills up; two
  concurrent requests; one address that can be set inside a range and one outside; three
  attachment ids, so three attachments are begun in a behaviour.
* Membership: two devices of a user whose sign-up stopped before a network existed, another
  user's network, one key, four requests of which two overlap, one failure.  Two requests
  register the devices, so that two are left for what follows.  The bound on requests is
  why behaviours end: deadlock is not checked there, nor in `address_lease`, where ids run
  out.

* Control sync: two networks with a peer each, so that the device can be moved between
  them; two changes of the control plane, one failure or message sent again, two events
  per drain.  Two changes are what it takes for an older event to meet a newer map; with three,
  and no failures, `sync_tunnel` finds its counterexample.  1.2 million states.
* Paths: two peers, two DERP nodes whose priorities are against their order, clusters
  with the default fan-out and a larger one than there are nodes, packets of length 0, 1 and 2, two
  connects, two packets in a session, one packet of the peer at the socket.  0.4
  million states.
* Tunnel: one peer with two addresses, one of which the device may have had itself, a
  device without an address, two processes, one fault; the command line on Linux and
  the helper with the in-memory and Windows backends, with and without an adapter
  of its own.  2.4 million states.

Symmetry is used where the properties are invariants: connections, tokens, networks and
nodes in `ControlChannel`, requests and ordinary devices in `AddressLease`, requests in
`Membership`, private keys in `TunnelHost`.  Liveness runs use none.

### Fairness

* `MessageDelivery!FairSpec`: time passes (`Ripen`), the loops are driven by a ticker
  (`Loop`), and a started HTTP handler runs on (`AckHandler`).  Nothing is assumed of the
  client, its connection or the network.
* `ControlChannel!FairSpec`: goroutines run to their end (`Register`, `Close`,
  `StoreSession`); a connected client pings, since the application calls `control_sync` on
  a timer (`Heartbeat`); a session nobody pings for grows old (`Lapses`).  It is not assumed
  that a broken connection is noticed, nor that the cleanup runs.
* `ControlSync!FairSpec`: a sync that has begun goes on, to its end or to an error, because
  every read and connect of the client has a timeout.  That the application goes on calling is the
  premise of `MapConverges`, not an assumption.
* `ClientPaths!FairSpec`: a call of the client goes on; every socket has a read timeout,
  and the polling of a probe a deadline.

## 4. Proofs

All theorems hold for any sets of constants that satisfy the named assumptions of
the modules: `Nil` is none of the values it stands beside, `Owner`, `UserOf` and
`FirstOwner` are functions of the right sets, tickets are tickets, `NoPact` and `NoAddr` of the
relay are no pact and no address, ids are finite sets of naturals.  No bound of a configuration is assumed, and no fairness.

| theorem | states | inductive invariant |
|---|---|---|
| `RelayDaemonProofs!TypeCorrect` | `TypeOK` | itself, with lemmas on inserting into and removing from maps |
| `RelayDaemonProofs!TablesAgree` | `StoreMatchesEndpoints` | itself with `TypeOK`: attach writes both tables, the last detach clears both, an exit loses both |
| `RelayDaemonProofs!ExchangesTicketed` | `ExchangeWithinTicket` | with `StoreMatchesEndpoints`, `DownIsEmpty` and `AdmittedBack`: every address in the endpoint table was admitted, for the participant it is bound to, with a ticket of the session stored under that id |
| `RelayDaemonProofs!DaemonImplementsService` | `ImplementsService` | `TypeOK` and `StoreMatchesEndpoints`: under the mapping of the two tables to sessions with parties, each datagram is a step of `RelayService` or changes nothing it knows of |
| `MessageDeliveryProofs!TypeCorrect` | `TypeOK` | itself |
| `MessageDeliveryProofs!RowsOnlyMove` | `RowsMove` | itself: only `SendTracked` creates a row, and for a message without history |
| `MessageDeliveryProofs!AttemptsStayBounded` | `AttemptsBounded` | with `CopiesCounted`: a count a loop holds is at most the limit, that of a row sent again below it |
| `MessageDeliveryProofs!DeliveryIsReal` | `DeliveredToOwner` | with `AskedAfterReading`: a handler that asks stands for an envelope read by its user, one that found the row for the addressee |
| `ControlChannelProofs!TypeCorrect` | `TypeOK` | with `HelloGranted`: an accepted greeting has a granted token |
| `ControlChannelProofs!HubEntriesLive` | `HubEntryIsLive` | itself |
| `ControlChannelProofs!NothingIsLeft` | `LastCloseClears` | `StatusOwed` and `EndpointsOwed`: whoever is online, or has endpoints, has a goroutine that will still clear it |
| `AddressLeaseProofs!TypeCorrect` | `TypeOK` | itself |
| `AddressLeaseProofs!NoTwoAlike` | `LeasesUnique` | itself: every write passes the indexes |
| `AddressLeaseProofs!InRangeAlways` | `LeasesInRange` | `InRange`: an undisturbed change of the range runs without attachments beside it, its plan is in the new range, rows it has moved are in the new range, and attachments under way read the stored one; `PlanFits` shows that counting rows before a row gives addresses in the range when the rows fit |
| `MembershipProofs!TypeCorrect` | `TypeOK` | with `RequestsSound`: a handler works on a registered device of its user |
| `MembershipProofs!OnlyLetIn` | `MembersAreLetIn` | with `RequestsLetIn`: a request past its checks works on a network its user was let in to, however old the check is |
| `ControlSyncProofs!TypeCorrect` | `TypeOK` | `IInv`: what is under way, queued or kept of a former connection is a message of the server (`LinkOK`, `CallOK`), and a stage past the answer has a map of the current network |
| `ControlSyncProofs!RevisionAlwaysGrows` | `RevisionGrows` | `IInv` with `RevOK`: no message names a revision its network has not reached, the map is not ahead of its network, and a map under way is not behind the one it will replace |
| `ControlSyncProofs!OwnAddressAlwaysLearnt` | `OwnAddressLearnt` | `IInv` with `LearnInv`: see below |
| `ClientPathsProofs!TypeCorrect` | `TypeOK` | with `CallHasPeer` |
| `ClientPathsProofs!LinksAlwaysCarryTicket` | `LinksCarryTicket` | `PoolInv`, with the next row: installing replaces every link |
| `ClientPathsProofs!ActiveLinkAlwaysBest` | `ActiveLinkIsBest` | `PoolInv`: the choice is made again whenever a link opens or closes |
| `ClientPathsProofs!ConfirmedAlwaysForwarded` | `ConfirmedWasForwarded` | `AcksInv`: an acknowledgement at the socket answers a packet that was forwarded, and a send that waits is the last of its session |
| `ClientPathsProofs!ConnectedAlwaysLeadsToPeer` | `ConnectedLeadsToPeer` | with `PathFound`: a connect about to finish has a path to its peer, or a DERP path with an active link |
| `MembershipProofs!DevicesFollow` | `DevicesFollowUser` | `TidyUsers`: a user without overlapping requests has at most one, and `Progress` says what its stage has already made true |
| `TunnelHostProofs!CallsFollowTheirPath` | `CtlInv` | itself: `Programs` (what is left of a call is a path of the control flow graph `Flow`), `Alone`, and the types |
| `TunnelHostProofs!TunnelTypes` | `TypeOK` | `CtlInv` |
| `TunnelHostProofs!InterfaceHasOneSecret` | `OneSecret` | `KeyInv`: snapshots and state file have no other key either, and the key file is empty, torn or written as the next step of `ensure_tunnel_key_pair` says |
| `TunnelHostProofs!HelperShowsPlanned` | `ShownIsPlanned` | `ShownInv`: a peer that is shown and no longer planned is the one the next step hides |
| `TunnelHostProofs!SavedTunnelStaysUp` | `SavedTunnelIsUp` | `UpInv` (interface and route) and `PeerInv` (the peer): what the facade and the snapshot name is up too, and each step between them relies on what the steps before it did |
| `TunnelHostProofs!NothingIsLeftBehind` | `NoResidue` | `FileInv`, `LinuxInv` and `HelperInv`, with `UpInv` and `PeerInv`: in the middle of a call, the peers and routes are those its next step still has to deal with |

`DevicesFollow` is the deepest of them.  `Follows` is not inductive: in the middle of
a switch the user's active network is still the old one while devices have already left it.  `Progress`
says for each stage which devices are done and where they can be; its preservation by
each action is shown for the request that moves, for other requests of the user (there
are none), and for other users (their steps touch none of this user's rows).

The proofs about `TunnelHost` are in the style of Floyd.  A call is a sequence of steps that
a failure may cut at any point, so no invariant can be about whole calls.  `Flow(x, y)` says which step
may follow which, for each host and backend; `CallsFollowTheirPath` shows once that every call that is
begun, advanced or cut off is a path of that graph.  Every other invariant attaches an assertion to
the next step of a process ("at `wg peer` the interface is there"), and a step of the code
preserves it if the assertion of `x` and the effect of `x` give that of every `y` with `Flow(x, y)`.
Where the assertion depends on how the call ends (a disconnect or a replacement), it also names the last
step.  A fault, a kill or a restart is then only a matter of what remains true without a next step.

`OwnAddressLearnt` is about an empty queue, and says nothing of the states before.
`LearnInv` says of every network, not only the current one, since a bootstrap may make it current,
where its latest announced address is: not confirmed, or read and queued or
gathered by the call, or known, and then no former address is behind it in the
queue or the connection (`Learns`).  That reading in order suffices needs `OrderOK`: addresses of a
network are in the order of the changes within and between what is gathered, queued and
carried, which a message sent again after a newer one would break, and `past` records.
`FallsBack` says the same of the connection that a failing sync goes back to; `StageOK`
says that a call that fails unnoticed has read nothing.

Only model-checked: the liveness properties `RetriesEnd`, `GoneIsForgotten`,
`HeartbeatKeepsFresh`, `MapConverges` and `CallsReturn`, for liveness under fairness is out of
TLAPS's reach here.  Every invariant, action property and refinement that a passing run checks
is a theorem.

## 5. What is not modelled

* In modelled parts: rows of connection states and path health (written, read only for
  ranking plans), DNS and names of networks, additional subnets' creation, audit logs,
  metrics, and the contents of messages.  `ControlChannel` has one process; the hub of a
  second one is as independent of it as a second set of connections.  Redis' expiry of
  control tokens after 24 hours is a token nobody presents.
* `Allocate` and `Release` of the `Allocator` interface have no caller.
* In the client: registration, login and the list of networks, one HTTP request each
  whose answer is stored; the observations that `control_sync` reports; the encoding of
  frames, DTOs and configuration files; the conversions of the Windows backend's
  command lines; `force_switch` and `close` of the pool, and the NAT crate, which
  have no caller or no implementation.
* Not modelled at all: the operations console API (single statements), the
  applications, plugins and the web console (user interfaces), schemas and scripts; relay
  tickets, connect plans and the hand-over of a login are planned.

## 6. Running

    tlc -workers 2 -config MCRelayDaemon.cfg MCRelayDaemon
    tlapm RelayDaemonProofs.tla

The configuration of each run is named in `PROJECT.json`.  The longest runs are
`control_sync`, `tunnel_host` and `membership`, two minutes or so; the proofs of
`TunnelHostProofs` take five minutes, those of the other modules less than three each.

## 7. Plan

In the order of their weight for the system:

1. `RelayRendezvous`: composes `RelayDaemon` with the issuer and its ticket cache
   (`control_relay.go`, `control_bootstrap.go`) and two clients as `ClientPaths` has them:
   both peers must get tickets of one session, and re-attach after a restart of the daemon
   (`docs/architecture/relay-flow.md:158`).
2. `PeerFanout`: events from other instances by Redis (`control_ws_sync.go`), as
   another source of what `ControlSync` reads.
3. `ConnectPlan`: the ranking as operators against a reference order, and the retry window
   (`control_plan.go`, `control_ws_policy.go`); the hand-over of a login
   (`auth_callback_ws.go`).

Theorems to add: the agreement of both peers' tickets in `RelayRendezvous`, and what the retry
window of `ConnectPlan` bounds.
