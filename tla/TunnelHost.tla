----------------------------- MODULE TunnelHost -----------------------------
(***************************************************************************)
(* client/app_core: the WireGuard tunnel of a device.  A host process, the  *)
(* command line client or the long-running helper, keeps in memory which    *)
(* peer address its tunnel leads to; a tunnel backend keeps an interface    *)
(* and its planned peers in memory and programs the operating system with   *)
(* one command after the other.  Every command of the command line client   *)
(* is a process of its own: it restores its memory from the state file,     *)
(* runs, and saves the file if it succeeds.  Commands fail, processes are   *)
(* killed, and the machine restarts between any two steps.                  *)
(***************************************************************************)
EXTENDS Naturals, Sequences

CONSTANTS Ips,       \* virtual addresses of peers
          Keys,      \* public keys of peers
          Locals,    \* virtual addresses of this device
          Configs,   \* tunnel configurations the control plane leads to
          Secrets,   \* private keys this device can generate
          Nodes,     \* identities: the device of the bootstrap and the current node
          Hosts,     \* kinds of host that are started: records [kind, backend]
          Procs,     \* command line processes that can run at once
          Main,      \* the process of the helper
          MaxFaults, \* bound on failed commands, kills and restarts
          Overlaps,  \* bound: whether commands overlap again once two have
          Nil

\* A TunnelConfig; the fields a step does not use are Nil.
Config == [ip : Ips \cup {Nil}, key : Keys \cup {Nil}, local : Locals \cup {Nil}]
NoConfig == [ip |-> Nil, key |-> Nil, local |-> Nil]
\* An InterfaceRuntime: the address of this device and whether it is up.
Runtime == [local : Locals \cup {Nil}, up : BOOLEAN]
ASSUME ConfigsAssumption ==
    Configs \subseteq [ip : Ips, key : Keys, local : Locals] \cup {NoConfig}
ASSUME HostsAssumption ==
    Hosts \subseteq [kind : {"cli"}, backend : {"memory", "linux", "windows", "dedicated"}]
                    \cup [kind : {"helper"}, backend : {"memory", "windows", "dedicated"}]
ASSUME ProcsAssumption == Main \in Procs
ASSUME NilAssumption == Nil \notin Ips \cup Keys \cup Locals \cup Secrets \cup Nodes
                        /\ Nil \notin Runtime

VARIABLES host,    \* the kind of host and the backend it was built with
          os,      \* what the operating system has been programmed with
          file,    \* the state file of the command line client
          store,   \* the key file: one private key for every identity
          todo,    \* process -> steps of the call it is in, <<>> when idle
          iface,   \* process -> interface runtime of its backend, or Nil
          planned, \* process -> peers its backend has planned: address -> key
          tun,     \* process -> current_tunnel_peer_virtual_ip, or Nil
          snap,    \* process -> snapshot: tunnel address, identity, private key
          shown,   \* address of the configuration the helper shows, or Nil
          running, \* whether the helper shows the tunnel as running
          faults,  \* failures so far
          past,    \* history: the kinds of disturbance met so far
          stray    \* history: addresses of the calls that ended half-way

history == <<past, stray>>
vars == <<host, os, file, store, todo, iface, planned, tun, snap, shown, running, faults, history>>
memory == <<iface, planned, tun, snap>>

\* A snapshot keeps its private key with the identity it was made for.
Snapshot == [tun : Ips \cup {Nil}, node : Nodes \cup {Nil}, key : Secrets \cup {Nil},
             of : Nodes \cup {Nil}]
\* What the key file holds for each identity.
KeyTable == [Nodes -> Secrets \cup {Nil}]
System == [link : BOOLEAN, up : BOOLEAN, addrs : SUBSET Locals, peers : [Ips -> Keys \cup {Nil}],
           routes : SUBSET Ips, secret : Secrets \cup {Nil}]
\* The steps of a call: those with a configuration, and those with a new key.
ConfigOps == {"load key", "validate", "link add", "private key", "mtu", "address", "iface",
              "check peer", "wg peer", "route", "planned", "check up", "link up", "set address",
              "up", "check down", "link down", "drop address", "down", "check remove", "forget",
              "wg remove", "route del", "show", "hide", "run", "halt", "take", "tunnel",
              "connected", "disconnected", "send", "truncate", "write"}
KeyOps == {"store truncate", "store write", "key"}
Step == [do : ConfigOps, c : Config] \cup [do : KeyOps, s : Secrets, keys : KeyTable]

NoPeers == [i \in Ips |-> Nil]
NoSystem == [link |-> FALSE, up |-> FALSE, addrs |-> {}, peers |-> NoPeers, routes |-> {},
             secret |-> Nil]
NoKeys == [n \in Nodes |-> Nil]
Fresh == [tun |-> Nil, node |-> Nil, key |-> Nil, of |-> Nil]
NoFile == [is |-> "absent", has |-> Fresh]
Address(i) == [NoConfig EXCEPT !.ip = i]
S(do, c) == [do |-> do, c |-> c]

IsCli == host.kind = "cli"
Linux == host.backend = "linux"
\* resolve_interface_target found the adapter that nothing else uses.
Dedicated == host.backend = "dedicated"
Idle(p) == todo[p] = <<>>

Init ==
    /\ host \in Hosts
    /\ os = NoSystem
    /\ file = NoFile /\ store = [torn |-> FALSE, has |-> NoKeys]
    /\ todo = [p \in Procs |-> <<>>]
    /\ iface = [p \in Procs |-> Nil]
    /\ planned = [p \in Procs |-> NoPeers]
    /\ tun = [p \in Procs |-> Nil]
    /\ snap = [p \in Procs |-> Fresh]
    /\ shown = Nil /\ running = FALSE
    /\ faults = 0 /\ past = {} /\ stray = {}
-----------------------------------------------------------------------------
(* The steps of the backends' operations, in the order the code takes them. *)
(* The "check" steps stop an operation that finds no interface runtime.     *)

\* validate_config of the Linux and Windows backends; configurations with
\* empty fields, which it also refuses, are left out.
Valid(c) == c.ip # c.local

ApplyInterface(c) ==
    CASE Linux -> <<S("link add", c), S("private key", c), S("mtu", c), S("address", c),
                    S("iface", c)>>
      [] host.backend = "memory" -> <<>>
      [] OTHER -> <<S("iface", c)>>

ApplyPeer(c) ==
    IF Linux THEN <<S("check peer", c), S("wg peer", c), S("route", c), S("planned", c)>>
    ELSE <<S("planned", c)>>

BringUp(c) ==
    CASE Linux -> <<S("check up", c), S("link up", c), S("up", c)>>
      [] host.backend = "memory" -> <<>>
      [] OTHER -> <<S("check up", c), S("set address", c), S("up", c)>>

BringDown ==
    CASE Linux -> <<S("link down", NoConfig), S("down", NoConfig)>>
      [] host.backend = "memory" -> <<>>
      [] OTHER -> <<S("check down", NoConfig), S("drop address", NoConfig), S("down", NoConfig)>>

\* Mutant: the interface is never brought up.
EstablishDown(c) == <<S("validate", c)>> \o ApplyInterface(c) \o ApplyPeer(c)
Establish(c) ==
    IF host.backend = "memory" THEN ApplyPeer(c)
    ELSE <<S("validate", c)>> \o ApplyInterface(c) \o ApplyPeer(c) \o BringUp(c)

\* remove_peer: an address that is not planned needs no command.
RemovePeer(i, pl) ==
    LET c == [NoConfig EXCEPT !.ip = i, !.key = pl[i]]
    IN  IF ~Linux THEN <<S("forget", c)>>
        ELSE <<S("check remove", c)>>
             \o (IF pl[i] = Nil THEN <<>>
                 ELSE <<S("forget", c), S("wg remove", c), S("route del", c)>>)

\* The TunnelManager of the host: the helper also keeps what it shows.
ManagerEstablish(c) == Establish(c) \o (IF IsCli THEN <<>> ELSE <<S("show", c), S("run", c)>>)
\* Mutant: the helper goes on showing a closed tunnel.
ManagerCloseShown(i, pl) == RemovePeer(i, pl)
ManagerClose(i, pl) ==
    RemovePeer(i, pl) \o (IF IsCli THEN <<>> ELSE <<S("hide", Address(i))>>)

\* Mutant: the tunnel of the former peer is not closed.
ReplaceTunnelKeeps(t, pl, c) ==
    IF c.ip # Nil /\ t # c.ip THEN ManagerEstablish(c) \o <<S("tunnel", c)>> ELSE <<>>
\* Mutant: the current tunnel is kept by its peer's key instead of its address.
ReplaceTunnelByKey(t, pl, c) ==
    IF c.ip # Nil /\ t # c.ip
    THEN ManagerEstablish(c) \o <<S("tunnel", [c EXCEPT !.ip = c.key])>> ELSE <<>>
\* replace_tunnel: c is NoConfig when this device or the peer has no address.
ReplaceTunnel(t, pl, c) ==
    (IF t # Nil /\ t # c.ip THEN ManagerClose(t, pl) \o <<S("tunnel", NoConfig)>> ELSE <<>>)
    \o (IF c.ip # Nil /\ t # c.ip THEN ManagerEstablish(c) \o <<S("tunnel", c)>> ELSE <<>>)

\* save_snapshot: fs::write empties the file before it writes it.
Save == <<S("truncate", NoConfig), S("write", NoConfig)>>

\* connect once a path was found, with everything the host does afterwards.
\* The commands send and probe connect first, and save nothing if what they
\* then send fails; connect sends nothing, as a send that does not fail.
Finalize(t, pl, c) ==
    <<S("load key", c)>> \o ReplaceTunnel(t, pl, c) \o <<S("connected", c)>>
    \o (IF IsCli THEN <<S("send", c)>> ELSE <<>>) \o (IF IsCli THEN Save ELSE <<>>)

\* disconnect takes the current address before it closes the tunnel.
Disconnecting(t, pl) ==
    <<S("take", NoConfig)>> \o (IF t = Nil THEN <<>> ELSE ManagerClose(t, pl))
    \o <<S("disconnected", NoConfig)>> \o (IF IsCli THEN Save ELSE <<>>)
-----------------------------------------------------------------------------
(* Calls. *)

\* A command of the command line client starts: its memory comes from the
\* file.  What it changes of the snapshot alone, w, is not seen before Save.
CliRuns(p, w, steps) ==
    /\ IsCli /\ Idle(p)
    /\ file.is # "torn"
    /\ Overlaps \/ "overlap" \notin past \/ \A q \in Procs : Idle(q)
    /\ todo' = [todo EXCEPT ![p] = steps]
    /\ snap' = [snap EXCEPT ![p] = w]
    /\ tun' = [tun EXCEPT ![p] = w.tun]
    /\ past' = IF \A q \in Procs : Idle(q) THEN past ELSE past \cup {"overlap"}
    /\ UNCHANGED <<host, os, file, store, iface, planned, shown, running, faults, stray>>

FileTunnel == file.has.tun

\* connect, send and probe.
CliConnect(p, c) == CliRuns(p, file.has, Finalize(FileTunnel, NoPeers, c))
CliDisconnect(p) == CliRuns(p, file.has, Disconnecting(FileTunnel, NoPeers))
\* register_device and register_node change the identity and drop the key;
\* bootstrap may name another device, and keeps the key of the former one.
Registered(w, n) == [w EXCEPT !.node = n, !.key = Nil, !.of = Nil]
Bootstrapped(w, n) == [w EXCEPT !.node = n]
CliRegister(p, n) == CliRuns(p, Registered(file.has, n), Save)
CliBootstrap(p, n) == CliRuns(p, Bootstrapped(file.has, n), Save)
\* login, the networks and relay tickets load and save the file.
CliOther(p) == CliRuns(p, file.has, Save)

\* state clear removes the state file, but not the key file.
StateClear ==
    /\ IsCli /\ file # NoFile
    /\ file' = NoFile
    /\ stray' = stray \cup ({FileTunnel} \ {Nil})
    /\ UNCHANGED <<host, os, store, todo, memory, shown, running, faults, past>>

\* The helper serves one request at a time, whatever client sent it.
HelperRuns(steps, direct) ==
    /\ ~IsCli /\ Idle(Main)
    /\ todo' = [todo EXCEPT ![Main] = steps]
    /\ past' = IF direct THEN past \cup {"direct"} ELSE past
    /\ UNCHANGED <<host, os, file, store, memory, shown, running, faults, stray>>

HelperConnect(c) == HelperRuns(Finalize(tun[Main], planned[Main], c), FALSE)
HelperDisconnect == HelperRuns(Disconnecting(tun[Main], planned[Main]), FALSE)
\* control_sync applies the tunnel again when an address of an end of it changed.
HelperSync(c) == c.ip # Nil /\ HelperConnect(c)
\* The identity changes in one critical section.
HelperIdentifies(w) ==
    /\ ~IsCli /\ Idle(Main)
    /\ snap' = [snap EXCEPT ![Main] = w]
    /\ UNCHANGED <<host, os, file, store, todo, iface, planned, tun, shown, running, faults,
                   history>>
HelperRegister(n) == HelperIdentifies(Registered(snap[Main], n))
HelperBootstrap(n) == HelperIdentifies(Bootstrapped(snap[Main], n))
\* The methods of HelperTunnelHost, which bypass the facade.
ApplyConfiguration(c) == HelperRuns(ApplyInterface(c) \o ApplyPeer(c) \o <<S("show", c)>>, TRUE)
RemoveTunnelPeer(i) == HelperRuns(ManagerClose(i, planned[Main]), TRUE)
BringTunnelUp == shown # Nil /\ HelperRuns(BringUp(NoConfig) \o <<S("run", NoConfig)>>, TRUE)
BringTunnelDown == HelperRuns((IF shown = Nil THEN <<>> ELSE BringDown)
                              \o <<S("halt", NoConfig)>>, TRUE)
-----------------------------------------------------------------------------
(* Steps. *)

\* The process ends, and its memory with it.
Exit(p) ==
    /\ todo' = [todo EXCEPT ![p] = <<>>]
    /\ iface' = [iface EXCEPT ![p] = Nil]
    /\ planned' = [planned EXCEPT ![p] = NoPeers]
    /\ tun' = [tun EXCEPT ![p] = Nil]
    /\ snap' = [snap EXCEPT ![p] = Fresh]

\* The steps that need the runtime of the interface.
NeedIface == {"check peer", "check up", "check down", "check remove"}
AtStep(p, ops) == todo[p] # <<>> /\ Head(todo[p]).do \in ops
Advance(p) == todo' = [todo EXCEPT ![p] = Tail(@)]

\* Commands of the operating system, and the files, can fail.
OsOps == {"link add", "private key", "mtu", "address", "wg peer", "route", "link up", "link down",
          "wg remove", "route del", "set address"}
FileOps == {"truncate", "write", "store truncate", "store write"}

\* WireGuard routes an address to one peer and a wg command replaces the
\* addresses of its peer; route del ignores a route that is not there.
Programmed(step, secret) ==
    LET c == step.c
    IN  CASE step.do = "link add" -> [os EXCEPT !.link = TRUE]
          [] step.do = "private key" -> [os EXCEPT !.secret = secret]
          [] step.do = "mtu" -> os
          [] step.do = "address" -> [os EXCEPT !.addrs = @ \cup {c.local}]
          [] step.do = "wg peer" -> [os EXCEPT !.peers =
                 [i \in Ips |-> IF i = c.ip THEN c.key ELSE IF @[i] = c.key THEN Nil ELSE @[i]]]
          [] step.do = "route" -> [os EXCEPT !.routes = @ \cup {c.ip}]
          [] step.do = "wg remove" -> [os EXCEPT !.peers =
                 [i \in Ips |-> IF @[i] = c.key THEN Nil ELSE @[i]]]
          [] step.do = "route del" -> [os EXCEPT !.routes = @ \ {c.ip}]
          [] step.do = "link up" -> [os EXCEPT !.up = TRUE]
          [] step.do = "link down" -> [os EXCEPT !.up = FALSE]

OsStep(p) ==
    /\ AtStep(p, OsOps \ {"set address"})
    /\ os' = Programmed(Head(todo[p]), snap[p].key)
    /\ Advance(p)
    /\ UNCHANGED <<host, file, store, memory, shown, running, faults, history>>

\* Windows: netsh adds the address to those of the interface; on a dedicated
\* adapter the script replaces them.  Dropping it ignores errors.
WindowsStep(p) ==
    /\ AtStep(p, {"set address", "drop address"}) /\ iface[p] # Nil
    /\ LET own == {iface[p].local}
       IN  \/ /\ Head(todo[p]).do = "set address"
              /\ os' = [os EXCEPT !.addrs = IF Dedicated THEN own
                                            ELSE @ \cup own]
           \/ /\ Head(todo[p]).do = "drop address"
              /\ \E gone \in {{}, IF Dedicated THEN Locals ELSE own} :
                    os' = [os EXCEPT !.addrs = @ \ gone]
    /\ Advance(p)
    /\ UNCHANGED <<host, file, store, memory, shown, running, faults, history>>

\* The bookkeeping of the backend.
BackendStep(p) ==
    /\ AtStep(p, NeedIface \cup {"validate", "iface", "up", "down", "planned", "forget"})
    /\ LET step == Head(todo[p])
           c == step.c
       IN  /\ step.do \in NeedIface => iface[p] # Nil
           /\ step.do = "validate" => Valid(c)
           /\ iface' = CASE step.do = "iface" ->
                              [iface EXCEPT ![p] = [local |-> c.local, up |-> FALSE]]
                         [] step.do \in {"up", "down"} /\ iface[p] # Nil ->
                              [iface EXCEPT ![p].up = (step.do = "up")]
                         [] OTHER -> iface
           /\ planned' = CASE step.do = "planned" -> [planned EXCEPT ![p][c.ip] = c.key]
                           [] step.do = "forget" -> [planned EXCEPT ![p][c.ip] = Nil]
                           [] OTHER -> planned
    /\ Advance(p)
    /\ UNCHANGED <<host, os, file, store, tun, snap, shown, running, faults, history>>

\* The facade's current tunnel and its snapshot.
FacadeStep(p) ==
    /\ AtStep(p, {"take", "tunnel", "connected", "disconnected", "key", "send"})
    /\ LET step == Head(todo[p])
       IN  /\ tun' = IF step.do \in {"take", "tunnel"} THEN [tun EXCEPT ![p] = step.c.ip] ELSE tun
           /\ snap' = CASE step.do \in {"take", "tunnel", "send"} -> snap
                        [] step.do = "connected" -> [snap EXCEPT ![p].tun = tun[p]]
                        [] step.do = "disconnected" -> [snap EXCEPT ![p].tun = Nil]
                        [] step.do = "key" ->
                             [snap EXCEPT ![p] = [@ EXCEPT !.key = step.s, !.of = snap[p].node]]
    /\ Advance(p)
    /\ UNCHANGED <<host, os, file, store, iface, planned, shown, running, faults, history>>

\* The key of the snapshot, if it was made for the identity of now.
HeldKey(p) == IF snap[p].of = snap[p].node THEN snap[p].key ELSE Nil
\* The key file's entry for the identity of now.
StoredKey(p) == store.has[snap[p].node]
\* Mutant: the key file is written with the new entry alone.
NewKeysAlone(p, s) == [NoKeys EXCEPT ![snap[p].node] = s]
\* The entries that were read, and a new one.
NewKeys(p, s) == [store.has EXCEPT ![snap[p].node] = s]
KeyStep(do, s, keys) == [do |-> do, s |-> s, keys |-> keys]

\* ensure_tunnel_key_pair: the key of the snapshot, of the key file, or a new
\* one that is written to the key file first, with the entries read before.
\* (A helper that was not given a key file keeps its key in the snapshot only.)
LoadKey(p) ==
    /\ AtStep(p, {"load key"}) /\ snap[p].node # Nil
    /\ \/ /\ HeldKey(p) # Nil
          /\ Advance(p)
       \/ /\ HeldKey(p) = Nil /\ ~store.torn /\ StoredKey(p) # Nil
          /\ todo' = [todo EXCEPT ![p] =
                         <<KeyStep("key", StoredKey(p), store.has)>> \o Tail(@)]
       \/ /\ HeldKey(p) = Nil /\ ~store.torn /\ StoredKey(p) = Nil
          /\ \E s \in Secrets \ {store.has[n] : n \in Nodes} :
                todo' = [todo EXCEPT ![p] = <<KeyStep("store truncate", s, NewKeys(p, s)),
                                              KeyStep("store write", s, NewKeys(p, s)),
                                              KeyStep("key", s, NewKeys(p, s))>> \o Tail(@)]
    /\ UNCHANGED <<host, os, file, store, memory, shown, running, faults, history>>

FileStep(p) ==
    /\ AtStep(p, FileOps)
    /\ LET step == Head(todo[p])
       IN  /\ file' = CASE step.do = "truncate" -> [is |-> "torn", has |-> Fresh]
                        [] step.do = "write" -> [is |-> "saved", has |-> snap[p]]
                        [] OTHER -> file
           /\ store' = CASE step.do = "store truncate" -> [torn |-> TRUE, has |-> NoKeys]
                         [] step.do = "store write" -> [torn |-> FALSE, has |-> step.keys]
                         [] OTHER -> store
    /\ IF Len(todo[p]) = 1 THEN Exit(p) ELSE Advance(p) /\ UNCHANGED memory
    /\ UNCHANGED <<host, os, shown, running, faults, history>>

\* What the helper shows, and whether it is running.
HelperStep(p) ==
    /\ AtStep(p, {"show", "hide", "run", "halt"})
    /\ LET step == Head(todo[p])
           hides == step.do = "hide" /\ shown = step.c.ip
       IN  /\ shown' = CASE step.do = "show" -> step.c.ip [] hides -> Nil [] OTHER -> shown
           /\ running' = CASE step.do = "run" -> TRUE
                           [] step.do = "halt" \/ hides -> FALSE
                           [] OTHER -> running
    /\ Advance(p)
    /\ UNCHANGED <<host, os, file, store, memory, faults, history>>

\* A call ends with an error: the command line client exits without saving.
Abort(p) ==
    /\ IF IsCli THEN Exit(p) ELSE todo' = [todo EXCEPT ![p] = <<>>] /\ UNCHANGED memory
    /\ UNCHANGED <<host, os, file, store, shown, running>>

\* The addresses that a call which ends at its next step may leave behind.
Asked(p) ==
    ({tun[p]} \cup (IF AtStep(p, ConfigOps) THEN {Head(todo[p]).c.ip} ELSE {})) \ {Nil}

\* The early returns: no interface, a configuration that is not valid, no
\* identity, or a key file that does not parse.
Refused(p) ==
    /\ \/ AtStep(p, NeedIface \cup {"drop address"}) /\ iface[p] = Nil
       \/ AtStep(p, {"validate"}) /\ ~Valid(Head(todo[p]).c)
       \/ AtStep(p, {"load key"}) /\ snap[p].node = Nil
       \/ AtStep(p, {"load key"}) /\ HeldKey(p) = Nil /\ store.torn
    /\ Abort(p)
    /\ UNCHANGED <<faults, history>>

\* Nothing is sent, or the probe has no answer in time: no fault is needed.
SendFails(p) ==
    /\ AtStep(p, {"send"})
    /\ Abort(p)
    /\ stray' = stray \cup Asked(p)
    /\ UNCHANGED <<faults, past>>

StepFails(p) ==
    /\ faults < MaxFaults /\ AtStep(p, OsOps \cup FileOps)
    /\ Abort(p)
    /\ faults' = faults + 1 /\ stray' = stray \cup Asked(p)
    /\ UNCHANGED past

\* A process is killed; the helper also ends when a client's connection breaks.
Kill(p) ==
    /\ faults < MaxFaults
    /\ todo[p] # <<>> \/ (~IsCli /\ p = Main)
    /\ Exit(p)
    /\ shown' = Nil /\ running' = FALSE
    /\ faults' = faults + 1
    /\ stray' = IF IsCli THEN stray \cup Asked(p) ELSE {}
    /\ UNCHANGED <<host, os, file, store, past>>

\* The machine restarts: Linux forgets the interface, Windows keeps addresses.
Reboot ==
    /\ faults < MaxFaults
    /\ os' = IF Linux THEN NoSystem ELSE os
    /\ todo' = [p \in Procs |-> <<>>]
    /\ iface' = [p \in Procs |-> Nil]
    /\ planned' = [p \in Procs |-> NoPeers]
    /\ tun' = [p \in Procs |-> Nil]
    /\ snap' = [p \in Procs |-> Fresh]
    /\ shown' = Nil /\ running' = FALSE
    /\ faults' = faults + 1 /\ past' = past \cup {"reboot"} /\ stray' = {}
    /\ UNCHANGED <<host, file, store>>

Calls ==
    \/ \E p \in Procs : \/ CliDisconnect(p) \/ CliOther(p)
                        \/ \E c \in Configs : CliConnect(p, c)
                        \/ \E n \in Nodes : CliRegister(p, n) \/ CliBootstrap(p, n)
    \/ StateClear
    \/ HelperDisconnect \/ BringTunnelUp \/ BringTunnelDown
    \/ \E c \in Configs : \/ HelperConnect(c) \/ HelperSync(c)
                          \/ c.ip # Nil /\ ApplyConfiguration(c)
    \/ \E n \in Nodes : HelperRegister(n) \/ HelperBootstrap(n)
    \/ \E i \in Ips : RemoveTunnelPeer(i)

Steps(p) == OsStep(p) \/ WindowsStep(p) \/ BackendStep(p) \/ FacadeStep(p) \/ LoadKey(p)
            \/ FileStep(p) \/ HelperStep(p) \/ Refused(p) \/ SendFails(p)

Next == Calls \/ Reboot \/ \E p \in Procs : Steps(p) \/ StepFails(p) \/ Kill(p)

Spec == Init /\ [][Next]_vars
-----------------------------------------------------------------------------
(* Properties. *)

\* The state of the host, of its backend and of the system has its type.
TypeOK ==
    /\ host \in Hosts
    /\ os \in System
    /\ file \in [is : {"absent", "torn", "saved"}, has : Snapshot]
    /\ store \in [torn : BOOLEAN, has : KeyTable]
    /\ todo \in [Procs -> Seq(Step)]
    /\ iface \in [Procs -> {Nil} \cup Runtime]
    /\ planned \in [Procs -> [Ips -> Keys \cup {Nil}]]
    /\ tun \in [Procs -> Ips \cup {Nil}]
    /\ snap \in [Procs -> Snapshot]
    /\ shown \in Ips \cup {Nil}
    /\ running \in BOOLEAN
    /\ faults \in Nat
    /\ past \subseteq {"overlap", "direct", "reboot"}
    /\ stray \subseteq Ips

\* Crash safety of the command line client on Linux: whatever step fails and
\* whenever a process is killed, the tunnel the state file names leads through
\* an interface that is up and a route, until the machine restarts; and if no
\* two commands overlapped, WireGuard knows its peer.
SavedTunnelIsUp ==
    Linux /\ FileTunnel # Nil /\ "reboot" \notin past =>
        /\ os.link /\ os.up /\ FileTunnel \in os.routes
        /\ "overlap" \notin past => os.peers[FileTunnel] # Nil

\* What is left behind: between calls the peers and routes of the system, or
\* the peers of the helper's backend, are those of the tunnel that the state
\* file, or the facade, names, and of calls that a failed command, a failed
\* send or a kill ended half-way, or whose state file was cleared.  A refused
\* call leaves nothing, and neither does one that succeeds; the helper's
\* current tunnel is planned, shown and in its snapshot.  (The snapshot may
\* name a tunnel that a refused connect has closed.)
NoResidue ==
    (\A p \in Procs : Idle(p)) =>
        /\ Linux /\ "overlap" \notin past =>
               \A i \in Ips : os.peers[i] # Nil \/ i \in os.routes =>
                                 i = FileTunnel \/ i \in stray
        /\ ~IsCli /\ "direct" \notin past =>
               /\ \A i \in Ips : planned[Main][i] # Nil => i = tun[Main] \/ i \in stray
               /\ tun[Main] # Nil => /\ planned[Main][tun[Main]] # Nil
                                     /\ snap[Main].tun = tun[Main]
               /\ shown = tun[Main]

\* The helper never shows a tunnel its backend does not have, and never shows
\* one as running that it does not show at all.
ShownIsPlanned ==
    Idle(Main) => /\ shown # Nil => planned[Main][shown] # Nil
                  /\ running => shown # Nil

\* No private key in use is lost: also after failures, cleared state files,
\* changes of identity and restarts, the key file has the key of the interface
\* for some identity of this device, and for its own identity the key that the
\* state file holds; unless two commands overlapped, and while the key file
\* can be read.
OneSecret ==
    "overlap" \notin past /\ ~store.torn =>
        /\ os.secret # Nil => \E n \in Nodes : store.has[n] = os.secret
        /\ file.has.key # Nil => store.has[file.has.of] = file.has.key
=============================================================================
