-------------------------- MODULE TunnelHostProofs --------------------------
(***************************************************************************)
(* Theorems about TunnelHost for any addresses, keys, configurations,      *)
(* secrets, hosts and processes.  A call is a sequence of steps, and a step *)
(* of one process interleaves with the other processes, with failures and   *)
(* with restarts; the proofs follow the control flow of the calls: Flow     *)
(* says which step may come after which, and each invariant attaches to the *)
(* next step of a process what the earlier steps of its call have made true.*)
(***************************************************************************)
EXTENDS TunnelHost, SequenceTheorems, TLAPS
-----------------------------------------------------------------------------
(* The order of the steps. *)

\* The configuration of an establish; NoConfig and the partial configurations
\* of a close are in Config only.
FullConfig == [ip : Ips, key : Keys, local : Locals]

FullOps == {"validate", "link add", "private key", "mtu", "address", "iface", "check peer",
            "wg peer", "route", "planned", "link up", "show"}
PlainOps == {"load key", "check up", "check down", "check remove", "set address", "drop address",
             "up", "down", "run", "halt", "hide", "forget", "take", "tunnel", "connected",
             "disconnected", "send", "truncate", "write"}
LinuxOps == {"link add", "private key", "mtu", "address", "check peer", "wg peer", "route",
             "link up", "check remove"}
WindowsOps == {"set address", "check down", "drop address", "down"}
InterfaceOps == {"validate", "iface", "check up", "up"}
HelperOps == {"show", "run", "halt", "hide", "check down", "drop address", "down"}
SaveOps == {"send", "truncate", "write"}

GoodStep == [do : FullOps, c : FullConfig] \cup [do : PlainOps, c : Config]
            \cup [do : KeyOps, s : Secrets, keys : KeyTable]

\* Which steps the calls of this host are made of.
Fits(x) == /\ x.do \in LinuxOps => Linux
           /\ x.do \in WindowsOps \cup {"forget"} => ~Linux
           /\ x.do \in WindowsOps \cup InterfaceOps => host.backend # "memory"
           /\ x.do \in HelperOps => ~IsCli
           /\ x.do \in SaveOps => IsCli
           /\ x.do = "take" => x.c = NoConfig
HostStep == {x \in GoodStep : Fits(x)}

\* The last step of a call.
Ends == IF IsCli THEN {"write"}
        ELSE {"connected", "disconnected", "show", "run", "halt", "hide"}

\* y may come right after x: the control flow graph of the calls.
SameConfig(x, y, ops) == y.do \in ops /\ y.c = x.c
Cleared(y) == y.do \in {"tunnel", "disconnected"} /\ y.c = NoConfig
Flow(x, y) ==
    /\ x.do \in {"load key", "key"} =>
          \/ y.do \in {"validate", "connected", "forget", "check remove"}
          \/ y.do = "planned" /\ host.backend = "memory"
    /\ x.do = "store truncate" => y.do = "store write" /\ y.s = x.s /\ y.keys = x.keys
    /\ x.do = "store write" => y.do = "key" /\ y.s = x.s
    /\ x.do = "validate" => SameConfig(x, y, IF Linux THEN {"link add"} ELSE {"iface"})
    /\ x.do = "link add" => SameConfig(x, y, {"private key"})
    /\ x.do = "private key" => SameConfig(x, y, {"mtu"})
    /\ x.do = "mtu" => SameConfig(x, y, {"address"})
    /\ x.do = "address" => SameConfig(x, y, {"iface"})
    /\ x.do = "iface" => SameConfig(x, y, IF Linux THEN {"check peer"} ELSE {"planned"})
    /\ x.do = "check peer" => SameConfig(x, y, {"wg peer"})
    /\ x.do = "wg peer" => SameConfig(x, y, {"route"})
    /\ x.do = "route" => SameConfig(x, y, {"planned"})
    /\ x.do = "planned" => SameConfig(x, y, IF Linux THEN {"check up"}
                                            ELSE IF IsCli THEN {"check up", "tunnel"}
                                            ELSE {"check up", "show"})
    /\ x.do = "check up" => SameConfig(x, y, {"link up", "set address"})
    /\ x.do \in {"link up", "set address"} => SameConfig(x, y, {"up"})
    /\ x.do = "up" => \/ SameConfig(x, y, IF IsCli THEN {"tunnel"} ELSE {"show"})
                      \/ SameConfig(x, y, {"run"}) /\ x.c.ip = Nil
    /\ x.do = "show" => SameConfig(x, y, {"run"})
    /\ x.do = "run" => SameConfig(x, y, {"tunnel"}) /\ x.c.ip # Nil
    /\ x.do = "check remove" => Cleared(y)
    /\ x.do = "forget" => IF IsCli THEN Cleared(y) ELSE y.do = "hide" /\ y.c.ip = x.c.ip
    /\ x.do = "hide" => Cleared(y)
    /\ x.do = "take" => y.do \in {"forget", "check remove", "disconnected"}
    /\ x.do = "tunnel" => \/ y.do = "connected"
                          \/ x.c.ip = Nil /\ y.do = "validate"
                          \/ x.c.ip = Nil /\ y.do = "planned" /\ host.backend = "memory"
    /\ x.do = "check down" => y.do = "drop address"
    /\ x.do = "drop address" => y.do = "down"
    /\ x.do = "down" => y.do = "halt"
    /\ x.do = "connected" => y.do = "send"
    /\ x.do \in {"send", "disconnected"} => y.do = "truncate"
    /\ x.do = "truncate" => y.do = "write"
    /\ x.do \notin {"write", "halt"}

Path(s) == \A k \in 1..(Len(s) - 1) : Flow(s[k], s[k + 1])
Program(s) == /\ s \in Seq(HostStep)
              /\ Path(s)
              /\ s # <<>> => s[Len(s)].do \in Ends
Programs == \A p \in Procs : Program(todo[p])

\* TypeOK with the steps a call can be made of, and an interface that has the
\* address of this device.
TypeInv ==
    /\ host \in Hosts
    /\ os \in System
    /\ file \in [is : {"absent", "torn", "saved"}, has : Snapshot]
    /\ store \in [torn : BOOLEAN, has : KeyTable]
    /\ todo \in [Procs -> Seq(GoodStep)]
    /\ iface \in [Procs -> {Nil} \cup [local : Locals, up : BOOLEAN]]
    /\ planned \in [Procs -> [Ips -> Keys \cup {Nil}]]
    /\ tun \in [Procs -> Ips \cup {Nil}]
    /\ snap \in [Procs -> Snapshot]
    /\ shown \in Ips \cup {Nil}
    /\ running \in BOOLEAN
    /\ faults \in Nat
    /\ past \subseteq {"overlap", "direct", "reboot"}
    /\ stray \subseteq Ips

Alone ==
    /\ ~IsCli => \A p \in Procs \ {Main} : Idle(p)
    /\ "overlap" \notin past => \A p, q \in Procs : Idle(p) \/ Idle(q) \/ p = q
    /\ IsCli => \A p \in Procs : Idle(p) => iface[p] = Nil /\ tun[p] = Nil /\ snap[p] = Fresh
-----------------------------------------------------------------------------
(* Every call is a path of that graph. *)

\* A piece of a call.
Segment(s) == s \in Seq(HostStep) /\ s # <<>> /\ Path(s)
Last(s) == s[Len(s)]

\* The Linux backend is one of the command line client.
LEMMA LinuxIsCli ==
    ASSUME host \in Hosts
    PROVE  /\ Linux => IsCli /\ host.backend # "memory"
           /\ host.backend \in {"memory", "linux", "windows", "dedicated"}
  BY HostsAssumption DEF Linux, IsCli

\* A configuration of the control plane has all its fields or none.
LEMMA ConfigFacts ==
    /\ FullConfig \subseteq Config /\ NoConfig \in Config
    /\ NoConfig.ip = Nil /\ NoConfig.key = Nil
    /\ \A c \in FullConfig : c.ip \in Ips /\ c.ip # Nil /\ c.key \in Keys /\ c.key # Nil
    /\ \A c \in Configs : c \in Config /\ (c.ip # Nil => c \in FullConfig)
  BY ConfigsAssumption, NilAssumption DEF FullConfig, Config, NoConfig

\* A step with a configuration.
LEMMA StepFacts ==
    ASSUME NEW d, NEW c
    PROVE  /\ S(d, c).do = d /\ S(d, c).c = c
           /\ d \in FullOps /\ c \in FullConfig => S(d, c) \in GoodStep
           /\ d \in PlainOps /\ c \in Config => S(d, c) \in GoodStep
  BY DEF S, GoodStep

\* A single step is a segment.
LEMMA OneStep ==
    ASSUME NEW x \in HostStep
    PROVE  Segment(<<x>>) /\ <<x>>[1] = x /\ Last(<<x>>) = x
  BY DEF Segment, Path, Last

\* A segment has a first step, and nothing after it is the same segment.
LEMMA SegmentFacts ==
    ASSUME NEW s, Segment(s)
    PROVE  /\ s \in Seq(HostStep) /\ Len(s) \in Nat /\ Len(s) >= 1
           /\ s \o <<>> = s /\ <<>> \o s = s
  BY DEF Segment

\* Two segments can be put together where the control flow allows it.
LEMMA Glue ==
    ASSUME NEW s, NEW t, Segment(s), Segment(t), Flow(Last(s), t[1])
    PROVE  /\ Segment(s \o t)
           /\ (s \o t)[1] = s[1] /\ Last(s \o t) = Last(t)
           /\ Len(s \o t) = Len(s) + Len(t)
           /\ Len(s) = 1 => (s \o t)[2] = t[1]
           /\ Len(s) >= 2 => (s \o t)[2] = s[2]
  <1>1. /\ s \in Seq(HostStep) /\ t \in Seq(HostStep)
        /\ Len(s) \in Nat \ {0} /\ Len(t) \in Nat \ {0}
    BY DEF Segment
  <1>2. /\ s \o t \in Seq(HostStep) /\ Len(s \o t) = Len(s) + Len(t)
        /\ \A k \in 1..Len(s) : (s \o t)[k] = s[k]
        /\ \A k \in 1..Len(t) : (s \o t)[Len(s) + k] = t[k]
    BY <1>1
  <1>3. ASSUME NEW k \in 1..(Len(s \o t) - 1)
        PROVE  Flow((s \o t)[k], (s \o t)[k + 1])
    <2>1. CASE k < Len(s)
      <3>1. /\ k \in 1..(Len(s) - 1) /\ k + 1 \in 1..Len(s) /\ k \in 1..Len(s)
        BY <1>1, <2>1
      <3>2. (s \o t)[k] = s[k] /\ (s \o t)[k + 1] = s[k + 1]
        BY <1>2, <3>1
      <3>3. QED BY <3>1, <3>2 DEF Segment, Path
    <2>2. CASE k = Len(s)
      <3>1. Len(s) \in 1..Len(s) /\ 1 \in 1..Len(t)
        BY <1>1
      <3>2. (s \o t)[k] = Last(s) /\ (s \o t)[k + 1] = t[1]
        BY <1>2, <2>2, <3>1 DEF Last
      <3>3. QED BY <3>2
    <2>3. CASE k > Len(s)
      <3>1. PICK j \in 1..(Len(t) - 1) : k = Len(s) + j
        <4>1. k - Len(s) \in 1..(Len(t) - 1) /\ k = Len(s) + (k - Len(s))
          BY <1>1, <1>2, <2>3
        <4>2. QED BY <4>1
      <3>2. j \in 1..Len(t) /\ j + 1 \in 1..Len(t) /\ k + 1 = Len(s) + (j + 1)
        BY <1>1, <3>1
      <3>3. (s \o t)[k] = t[j] /\ (s \o t)[k + 1] = t[j + 1]
        BY <1>2, <3>1, <3>2
      <3>4. QED BY <3>1, <3>3 DEF Segment, Path
    <2>4. QED BY <1>1, <2>1, <2>2, <2>3
  <1>4. /\ (s \o t)[1] = s[1] /\ Last(s \o t) = Last(t)
        /\ Len(s) = 1 => (s \o t)[2] = t[1]
        /\ Len(s) >= 2 => (s \o t)[2] = s[2]
    BY <1>1, <1>2 DEF Last
  <1>5. QED
    BY <1>1, <1>2, <1>3, <1>4 DEF Segment, Path

\* Two steps one after the other.
LEMMA Pair ==
    ASSUME NEW x \in HostStep, NEW y \in HostStep, Flow(x, y)
    PROVE  /\ Segment(<<x, y>>) /\ <<x, y>>[1] = x /\ <<x, y>>[2] = y /\ Last(<<x, y>>) = y
           /\ <<x>> \o <<y>> = <<x, y>>
  <1>1. Segment(<<x, y>>) /\ <<x, y>>[1] = x /\ <<x, y>>[2] = y /\ Last(<<x, y>>) = y
    BY DEF Segment, Path, Last
  <1>2. <<x>> \o <<y>> = <<x, y>>
    <2>1. /\ <<x>> \o <<y>> \in Seq(HostStep) /\ <<x, y>> \in Seq(HostStep)
          /\ Len(<<x>> \o <<y>>) = 2 /\ Len(<<x, y>>) = 2
      OBVIOUS
    <2>2. (<<x>> \o <<y>>)[1] = x /\ (<<x>> \o <<y>>)[2] = y
      OBVIOUS
    <2>3. \A i \in 1..2 : (<<x>> \o <<y>>)[i] = <<x, y>>[i]
      BY <2>2
    <2> DEFINE s == <<x>> \o <<y>>
               t == <<x, y>>
    <2>4. s \in Seq(HostStep) /\ t \in Seq(HostStep) /\ Len(s) = Len(t)
          /\ \A i \in 1..Len(s) : s[i] = t[i]
      BY <2>1, <2>3
    <2> HIDE DEF s, t
    <2>5. s = t
      BY <2>4, SeqEqual
    <2>6. QED BY <2>5 DEF s, t
  <1>3. QED BY <1>1, <1>2

\* apply_interface, apply_peer and bring_up of one configuration.
LEMMA ApplyInterfaceSegment ==
    ASSUME host \in Hosts, NEW c \in FullConfig
    PROVE  IF host.backend = "memory" THEN ApplyInterface(c) = <<>>
           ELSE /\ Segment(ApplyInterface(c))
                /\ ApplyInterface(c)[1] = S(IF Linux THEN "link add" ELSE "iface", c)
                /\ Last(ApplyInterface(c)) = S("iface", c)
  <1> DEFINE v == S("link add", c)
             w == S("private key", c)
             x == S("mtu", c)
             y == S("address", c)
             z == S("iface", c)
  <1>1. CASE Linux
    <2>1. v \in HostStep /\ w \in HostStep /\ x \in HostStep /\ y \in HostStep /\ z \in HostStep
      BY <1>1, LinuxIsCli, ConfigFacts
         DEF S, HostStep, Fits, GoodStep, FullOps, PlainOps,
             LinuxOps, WindowsOps, InterfaceOps, HelperOps, SaveOps
    <2>2. Flow(v, w) /\ Flow(w, x) /\ Flow(x, y) /\ Flow(y, z)
      BY <1>1 DEF Flow, S, SameConfig
    <2>3. ApplyInterface(c) = <<v, w, x, y, z>> /\ host.backend # "memory"
      BY <1>1, LinuxIsCli DEF ApplyInterface
    <2>4. S(IF Linux THEN "link add" ELSE "iface", c) = v /\ S("iface", c) = z
      BY <1>1
    <2> HIDE DEF v, w, x, y, z
    <2>5. <<v, w, x, y, z>> \in Seq(HostStep) /\ Len(<<v, w, x, y, z>>) = 5
      BY <2>1
    <2>6. Segment(<<v, w, x, y, z>>) /\ <<v, w, x, y, z>>[1] = v /\ Last(<<v, w, x, y, z>>) = z
      BY <2>1, <2>2, <2>5 DEF Segment, Path, Last
    <2>7. QED BY <2>3, <2>4, <2>6
  <1>2. CASE ~Linux /\ host.backend # "memory"
    <2>1. z \in HostStep
      BY <1>2, ConfigFacts DEF S, HostStep, Fits, GoodStep, FullOps, PlainOps,
             LinuxOps, WindowsOps, InterfaceOps, HelperOps, SaveOps
    <2>2. ApplyInterface(c) = <<z>>
      BY <1>2 DEF ApplyInterface
    <2>3. S(IF Linux THEN "link add" ELSE "iface", c) = z /\ S("iface", c) = z
      BY <1>2
    <2> HIDE DEF z
    <2>4. QED BY <1>2, <2>1, <2>2, <2>3, OneStep
  <1>3. CASE host.backend = "memory"
    BY <1>3, LinuxIsCli DEF ApplyInterface
  <1>4. QED BY <1>1, <1>2, <1>3

LEMMA ApplyPeerSegment ==
    ASSUME host \in Hosts, NEW c \in FullConfig
    PROVE  /\ Segment(ApplyPeer(c))
           /\ ApplyPeer(c)[1] = S(IF Linux THEN "check peer" ELSE "planned", c)
           /\ Last(ApplyPeer(c)) = S("planned", c)
  <1> DEFINE w == S("check peer", c)
             x == S("wg peer", c)
             y == S("route", c)
             z == S("planned", c)
  <1>1. CASE Linux
    <2>1. w \in HostStep /\ x \in HostStep /\ y \in HostStep /\ z \in HostStep
      BY <1>1, LinuxIsCli, ConfigFacts
         DEF S, HostStep, Fits, GoodStep, FullOps, PlainOps,
             LinuxOps, WindowsOps, InterfaceOps, HelperOps, SaveOps
    <2>2. Flow(w, x) /\ Flow(x, y) /\ Flow(y, z)
      BY <1>1 DEF Flow, S, SameConfig
    <2>3. ApplyPeer(c) = <<w, x, y, z>>
      BY <1>1 DEF ApplyPeer
    <2>4. S(IF Linux THEN "check peer" ELSE "planned", c) = w /\ S("planned", c) = z
      BY <1>1
    <2> HIDE DEF w, x, y, z
    <2>5. <<w, x, y, z>> \in Seq(HostStep) /\ Len(<<w, x, y, z>>) = 4
      BY <2>1
    <2>6. Segment(<<w, x, y, z>>) /\ <<w, x, y, z>>[1] = w /\ Last(<<w, x, y, z>>) = z
      BY <2>1, <2>2, <2>5 DEF Segment, Path, Last
    <2>7. QED BY <2>3, <2>4, <2>6
  <1>2. CASE ~Linux
    <2>1. z \in HostStep
      BY <1>2, ConfigFacts DEF S, HostStep, Fits, GoodStep, FullOps, PlainOps,
             LinuxOps, WindowsOps, InterfaceOps, HelperOps, SaveOps
    <2>2. ApplyPeer(c) = <<z>>
      BY <1>2 DEF ApplyPeer
    <2>3. S(IF Linux THEN "check peer" ELSE "planned", c) = z /\ S("planned", c) = z
      BY <1>2
    <2> HIDE DEF z
    <2>4. QED BY <2>1, <2>2, <2>3, OneStep
  <1>3. QED BY <1>1, <1>2

LEMMA BringUpSegment ==
    ASSUME host \in Hosts, NEW c \in Config, Linux => c \in FullConfig
    PROVE  IF host.backend = "memory" THEN BringUp(c) = <<>>
           ELSE /\ Segment(BringUp(c))
                /\ BringUp(c)[1] = S("check up", c) /\ Last(BringUp(c)) = S("up", c)
  <1> DEFINE x == S("check up", c)
             y == S(IF Linux THEN "link up" ELSE "set address", c)
             z == S("up", c)
  <1>1. CASE host.backend # "memory"
    <2>1. x \in HostStep /\ y \in HostStep /\ z \in HostStep
      BY <1>1, LinuxIsCli
         DEF S, HostStep, Fits, GoodStep, FullOps, PlainOps,
             LinuxOps, WindowsOps, InterfaceOps, HelperOps, SaveOps
    <2>2. Flow(x, y) /\ Flow(y, z)
      BY DEF Flow, S, SameConfig
    <2>3. BringUp(c) = <<x, y, z>>
      BY <1>1 DEF BringUp
    <2>4. S("check up", c) = x /\ S("up", c) = z
      OBVIOUS
    <2> HIDE DEF x, y, z
    <2>5. Segment(<<x, y, z>>) /\ <<x, y, z>>[1] = x /\ Last(<<x, y, z>>) = z
      BY <2>1, <2>2 DEF Segment, Path, Last
    <2>6. QED BY <1>1, <2>3, <2>4, <2>5
  <1>2. CASE host.backend = "memory"
    BY <1>2, LinuxIsCli DEF BringUp
  <1>3. QED BY <1>1, <1>2

\* The borders between these pieces.
LEMMA EstablishFlow ==
    ASSUME NEW c
    PROVE  /\ Flow(S("validate", c), S(IF Linux THEN "link add" ELSE "iface", c))
           /\ Flow(S("iface", c), S(IF Linux THEN "check peer" ELSE "planned", c))
           /\ Flow(S("planned", c), S("check up", c))
  <1>1. CASE Linux
    BY <1>1 DEF Flow, S, SameConfig
  <1>2. CASE ~Linux
    BY <1>2 DEF Flow, S, SameConfig
  <1>3. QED BY <1>1, <1>2

\* establish goes from validate to the interface that is up, or only plans the
\* peer in memory.
LEMMA EstablishSegment ==
    ASSUME host \in Hosts, NEW c \in FullConfig
    PROVE  LET planOnly == host.backend = "memory"
           IN  /\ Segment(Establish(c))
               /\ Establish(c)[1] = S(IF planOnly THEN "planned" ELSE "validate", c)
               /\ Last(Establish(c)) = S(IF planOnly THEN "planned" ELSE "up", c)
  <1>1. CASE host.backend = "memory"
    <2>1. Establish(c) = ApplyPeer(c) /\ ~Linux
      BY <1>1, LinuxIsCli DEF Establish
    <2>2. QED BY <1>1, <2>1, ApplyPeerSegment
  <1>2. CASE host.backend # "memory"
    <2> DEFINE v == <<S("validate", c)>>
               a == ApplyInterface(c)
               p == ApplyPeer(c)
               b == BringUp(c)
    <2>1. Segment(v) /\ v[1] = S("validate", c) /\ Last(v) = S("validate", c)
      BY <1>2, OneStep, ConfigFacts
         DEF S, HostStep, Fits, GoodStep, FullOps, PlainOps,
             LinuxOps, WindowsOps, InterfaceOps, HelperOps, SaveOps
    <2>2. /\ Segment(a) /\ a[1] = S(IF Linux THEN "link add" ELSE "iface", c)
          /\ Last(a) = S("iface", c)
      BY <1>2, ApplyInterfaceSegment
    <2>3. /\ Segment(p) /\ p[1] = S(IF Linux THEN "check peer" ELSE "planned", c)
          /\ Last(p) = S("planned", c)
      BY ApplyPeerSegment
    <2>4. Segment(b) /\ b[1] = S("check up", c) /\ Last(b) = S("up", c)
      BY <1>2, BringUpSegment, ConfigFacts
    <2>5. /\ Flow(S("validate", c), S(IF Linux THEN "link add" ELSE "iface", c))
          /\ Flow(S("iface", c), S(IF Linux THEN "check peer" ELSE "planned", c))
          /\ Flow(S("planned", c), S("check up", c))
      BY EstablishFlow
    <2> HIDE DEF v, a, p, b
    <2>6. Segment(v \o a) /\ (v \o a)[1] = S("validate", c) /\ Last(v \o a) = S("iface", c)
      BY <2>1, <2>2, <2>5, Glue
    <2>7. /\ Segment((v \o a) \o p) /\ ((v \o a) \o p)[1] = S("validate", c)
          /\ Last((v \o a) \o p) = S("planned", c)
      BY <2>3, <2>5, <2>6, Glue
    <2>8. /\ Segment(((v \o a) \o p) \o b) /\ (((v \o a) \o p) \o b)[1] = S("validate", c)
          /\ Last(((v \o a) \o p) \o b) = S("up", c)
      BY <2>4, <2>5, <2>7, Glue
    <2>9. Establish(c) = ((v \o a) \o p) \o b
      BY <1>2 DEF Establish, v, a, p, b
    <2>10. QED BY <1>2, <2>8, <2>9
  <1>3. QED BY <1>1, <1>2

\* The manager of the helper shows the tunnel after that.
LEMMA ManagerEstablishSegment ==
    ASSUME host \in Hosts, NEW c \in FullConfig
    PROVE  LET planOnly == host.backend = "memory"
           IN  /\ Segment(ManagerEstablish(c))
               /\ ManagerEstablish(c)[1] = S(IF planOnly THEN "planned" ELSE "validate", c)
               /\ Flow(Last(ManagerEstablish(c)), S("tunnel", c))
  <1> DEFINE e == Establish(c)
             r == <<S("show", c), S("run", c)>>
  <1>1. /\ Segment(e) /\ e[1] = S(IF host.backend = "memory" THEN "planned" ELSE "validate", c)
        /\ Last(e) = S(IF host.backend = "memory" THEN "planned" ELSE "up", c)
    BY EstablishSegment
  <1>2. CASE IsCli
    <2>1. ManagerEstablish(c) = e
      <3>1. e \in Seq(HostStep)
        BY <1>1 DEF Segment
      <3>2. QED BY <1>2, <3>1 DEF ManagerEstablish
    <2>2. Flow(Last(e), S("tunnel", c))
      BY <1>1, <1>2, LinuxIsCli DEF Flow, S, SameConfig, Linux
    <2>3. QED BY <1>1, <2>1, <2>2
  <1>3. CASE ~IsCli
    <2> DEFINE x == S("show", c)
               y == S("run", c)
    <2>1. x \in HostStep /\ y \in HostStep
      BY <1>3, ConfigFacts, ConfigFacts
         DEF S, HostStep, Fits, GoodStep, FullOps, PlainOps,
             LinuxOps, WindowsOps, InterfaceOps, HelperOps, SaveOps
    <2>2. Flow(x, y)
      BY DEF Flow, S, SameConfig
    <2>3. Segment(r) /\ r[1] = x /\ Last(r) = y
      <3> HIDE DEF x, y
      <3>1. Segment(<<x, y>>) /\ <<x, y>>[1] = x /\ Last(<<x, y>>) = y
        BY <2>1, <2>2, Pair
      <3>2. QED BY <3>1 DEF x, y
    <2>4. Flow(Last(e), x) /\ Flow(y, S("tunnel", c))
      BY <1>1, <1>3, LinuxIsCli, ConfigFacts DEF Flow, S, SameConfig, Linux
    <2>5. ManagerEstablish(c) = e \o r
      BY <1>3 DEF ManagerEstablish
    <2> HIDE DEF e, r, x, y
    <2>6. Segment(e \o r) /\ (e \o r)[1] = e[1] /\ Last(e \o r) = y
      BY <1>1, <2>3, <2>4, Glue
    <2>7. QED BY <1>1, <2>4, <2>5, <2>6
  <1>4. QED BY <1>2, <1>3

\* close removes the peer; no process of the command line client has one.
LEMMA ManagerCloseSegment ==
    ASSUME host \in Hosts, NEW i \in Ips, NEW pl \in [Ips -> Keys \cup {Nil}],
           Linux => pl = NoPeers
    PROVE  LET s == ManagerClose(i, pl)
           IN  /\ Segment(s)
               /\ s[1].do = (IF Linux THEN "check remove" ELSE "forget") /\ s[1].c.ip = i
               /\ IF IsCli THEN Len(s) = 1 ELSE Len(s) = 2 /\ s[2].do = "hide"
  <1> DEFINE c == [NoConfig EXCEPT !.ip = i, !.key = pl[i]]
             x == S(IF Linux THEN "check remove" ELSE "forget", c)
             y == S("hide", Address(i))
  <1>1. c \in Config /\ c.ip = i /\ Address(i) \in Config /\ Address(i).ip = i
    BY DEF Config, NoConfig, Address
  <1>2. x \in HostStep /\ x.do = (IF Linux THEN "check remove" ELSE "forget") /\ x.c.ip = i
    <2> HIDE DEF c
    <2> QED BY <1>1, LinuxIsCli
       DEF S, HostStep, Fits, GoodStep, FullOps, PlainOps,
           LinuxOps, WindowsOps, InterfaceOps, HelperOps, SaveOps
  <1>3. RemovePeer(i, pl) = <<x>>
    <2>1. CASE Linux
      <3>1. pl[i] = Nil
        BY <2>1 DEF NoPeers
      <3>2. <<x>> \o << >> = <<x>>
        <4> HIDE DEF x
        <4>1. <<x>> \in Seq(HostStep)
          BY <1>2, OneStep DEF Segment
        <4>2. QED BY <4>1
      <3>3. QED BY <2>1, <3>1, <3>2 DEF RemovePeer
    <2>2. CASE ~Linux
      BY <2>2 DEF RemovePeer
    <2>3. QED BY <2>1, <2>2
  <1>4. CASE IsCli
    <2> HIDE DEF x
    <2>1. ManagerClose(i, pl) = <<x>>
      BY <1>3, <1>4 DEF ManagerClose
    <2>2. QED BY <1>2, <1>4, <2>1, OneStep
  <1>5. CASE ~IsCli
    <2>1. y \in HostStep /\ y.do = "hide" /\ y.c.ip = i
      BY <1>1, <1>5
       DEF S, HostStep, Fits, GoodStep, FullOps, PlainOps,
           LinuxOps, WindowsOps, InterfaceOps, HelperOps, SaveOps
    <2>2. ManagerClose(i, pl) = <<x>> \o <<y>>
      <3> HIDE DEF x
      <3> QED BY <1>3, <1>5 DEF ManagerClose
    <2> HIDE DEF x, y
    <2>3. ~Linux
      BY <1>5, LinuxIsCli
    <2>4. Flow(x, y)
      BY <1>2, <1>5, <2>1, <2>3 DEF Flow
    <2>5. /\ Segment(<<x, y>>) /\ <<x, y>>[1] = x /\ <<x, y>>[2] = y
          /\ <<x>> \o <<y>> = <<x, y>>
      BY <1>2, <2>1, <2>4, Pair
    <2>6. ManagerClose(i, pl) = <<x, y>> /\ Len(<<x, y>>) = 2
      BY <2>2, <2>5
    <2>7. QED BY <1>2, <1>5, <2>1, <2>3, <2>5, <2>6
  <1>6. QED BY <1>4, <1>5

\* The steps that are common to all hosts.
LEMMA CommonSteps ==
    ASSUME NEW c \in Config
    PROVE  /\ S("load key", c) \in HostStep /\ S("connected", c) \in HostStep
           /\ S("tunnel", c) \in HostStep /\ (c = NoConfig => S("take", c) \in HostStep)
           /\ S("disconnected", c) \in HostStep
           /\ IsCli => /\ S("send", c) \in HostStep
                    /\ S("truncate", c) \in HostStep /\ S("write", c) \in HostStep
  BY DEF S, HostStep, Fits, GoodStep, FullOps, PlainOps,
         LinuxOps, WindowsOps, InterfaceOps, HelperOps, SaveOps

\* A close is followed by a step of the facade.
LEMMA CloseEnds ==
    ASSUME host \in Hosts, NEW i \in Ips, NEW pl \in [Ips -> Keys \cup {Nil}],
           Linux => pl = NoPeers, NEW z, Cleared(z)
    PROVE  Flow(Last(ManagerClose(i, pl)), z)
  <1> DEFINE s == ManagerClose(i, pl)
  <1>1. /\ Segment(s)
        /\ s[1].do = (IF Linux THEN "check remove" ELSE "forget") /\ s[1].c.ip = i
        /\ IF IsCli THEN Len(s) = 1 ELSE Len(s) = 2 /\ s[2].do = "hide"
    BY ManagerCloseSegment
  <1> HIDE DEF s
  <1>2. Last(s) = IF IsCli THEN s[1] ELSE s[2]
    BY <1>1 DEF Segment, Last
  <1>3. Flow(Last(s), z)
    BY <1>1, <1>2, LinuxIsCli DEF Flow
  <1>4. QED BY <1>3 DEF s

Closing(i, pl, z) == ManagerClose(i, pl) \o <<z>>
LEMMA CloseThen ==
    ASSUME host \in Hosts, NEW i \in Ips, NEW pl \in [Ips -> Keys \cup {Nil}],
           Linux => pl = NoPeers, NEW z \in HostStep, Cleared(z)
    PROVE  /\ Segment(Closing(i, pl, z)) /\ Last(Closing(i, pl, z)) = z
           /\ Closing(i, pl, z)[1].do = (IF Linux THEN "check remove" ELSE "forget")
           /\ Closing(i, pl, z)[1].c.ip = i
  <1> DEFINE s == ManagerClose(i, pl)
  <1>1. /\ Segment(s) /\ Flow(Last(s), z)
        /\ s[1].do = (IF Linux THEN "check remove" ELSE "forget") /\ s[1].c.ip = i
    BY ManagerCloseSegment, CloseEnds
  <1>2. Segment(<<z>>) /\ <<z>>[1] = z /\ Last(<<z>>) = z
    BY OneStep
  <1> HIDE DEF s
  <1>3. Segment(s \o <<z>>) /\ (s \o <<z>>)[1] = s[1] /\ Last(s \o <<z>>) = z
    BY <1>1, <1>2, Glue
  <1>4. QED BY <1>1, <1>3 DEF s, Closing

\* replace_tunnel, from the tunnel to t: nothing, or a path that ends with the
\* new value of current_tunnel_peer_virtual_ip.
Replaces(t, r) ==
    \/ r = <<>>
    \/ /\ Segment(r) /\ Last(r).do = "tunnel"
       /\ \/ t = Nil /\ r[1].do = IF host.backend = "memory" THEN "planned" ELSE "validate"
          \/ /\ t # Nil /\ r[1].c.ip = t
             /\ r[1].do = IF Linux THEN "check remove" ELSE "forget"
LEMMA ReplaceSegment ==
    ASSUME host \in Hosts, NEW t \in Ips \cup {Nil}, NEW pl \in [Ips -> Keys \cup {Nil}],
           Linux => pl = NoPeers, NEW c \in Configs
    PROVE  Replaces(t, ReplaceTunnel(t, pl, c))
  <1> DEFINE n == S("tunnel", NoConfig)
             m == S("tunnel", c)
             a == Closing(t, pl, n)
             e == ManagerEstablish(c)
             b == e \o <<m>>
             closes == t # Nil /\ t # c.ip
             opens == c.ip # Nil /\ t # c.ip
  <1>1. ReplaceTunnel(t, pl, c) = (IF closes THEN a ELSE <<>>) \o (IF opens THEN b ELSE <<>>)
    BY DEF ReplaceTunnel, Closing
  <1>2. n \in HostStep /\ m \in HostStep /\ Cleared(n) /\ n.do = "tunnel" /\ m.do = "tunnel"
    BY CommonSteps, ConfigFacts DEF S, Cleared
  <1>3. ASSUME closes
        PROVE  /\ Segment(a) /\ Last(a) = n
               /\ a[1].do = (IF Linux THEN "check remove" ELSE "forget") /\ a[1].c.ip = t
    <2>1. t \in Ips
      BY <1>3
    <2>2. n \in HostStep /\ Cleared(n)
      BY <1>2
    <2> HIDE DEF n, closes
    <2>3. QED BY <2>1, <2>2, CloseThen
  <1>4. ASSUME opens
        PROVE  /\ Segment(b) /\ Last(b) = m
               /\ b[1] = S(IF host.backend = "memory" THEN "planned" ELSE "validate", c)
    <2>1. c \in FullConfig
      BY <1>4, ConfigFacts
    <2>2. /\ Segment(e) /\ Flow(Last(e), m)
          /\ e[1] = S(IF host.backend = "memory" THEN "planned" ELSE "validate", c)
      BY <2>1, ManagerEstablishSegment
    <2> HIDE DEF m, e
    <2>3. Segment(<<m>>) /\ <<m>>[1] = m /\ Last(<<m>>) = m
      BY <1>2, OneStep
    <2>4. QED BY <2>2, <2>3, Glue
  <1>5. ASSUME opens
        PROVE  /\ b[1].do = (IF host.backend = "memory" THEN "planned" ELSE "validate")
               /\ Flow(n, b[1])
    <2>1. b[1] = S(IF host.backend = "memory" THEN "planned" ELSE "validate", c)
      BY <1>4, <1>5
    <2> HIDE DEF b
    <2>2. QED BY <2>1, ConfigFacts DEF Flow, S
  <1> HIDE DEF a, b, n, m
  <1>6. ASSUME NEW s, Segment(s)
        PROVE  s \o <<>> = s /\ <<>> \o s = s
    BY <1>6, SegmentFacts
  <1>7. CASE closes /\ opens
    <2>1. Segment(a \o b) /\ (a \o b)[1] = a[1] /\ Last(a \o b) = m
      BY <1>3, <1>4, <1>5, <1>7, Glue
    <2>2. ReplaceTunnel(t, pl, c) = a \o b
      BY <1>1, <1>7
    <2>3. QED BY <1>2, <1>3, <1>7, <2>1, <2>2 DEF Replaces
  <1>8. CASE closes /\ ~opens
    BY <1>1, <1>2, <1>3, <1>6, <1>8 DEF Replaces
  <1>9. CASE ~closes /\ opens
    <2>1. t = Nil /\ ReplaceTunnel(t, pl, c) = b
      BY <1>1, <1>4, <1>6, <1>9
    <2>2. QED BY <1>2, <1>4, <1>5, <1>9, <2>1 DEF Replaces
  <1>10. CASE ~closes /\ ~opens
    <2>1. ReplaceTunnel(t, pl, c) = << >> \o << >>
      BY <1>1, <1>10
    <2>2. QED BY <2>1 DEF Replaces
  <1>11. QED BY <1>7, <1>8, <1>9, <1>10

\* save_snapshot ends every command of the command line client.
Done == IF IsCli THEN {"send", "disconnected"} ELSE {"connected", "disconnected"}
LEMMA Saved ==
    ASSUME NEW s, Segment(s), Last(s).do \in Done
    PROVE  LET w == s \o (IF IsCli THEN Save ELSE <<>>)
           IN  /\ Program(w) /\ w[1] = s[1] /\ Len(w) >= Len(s)
               /\ Len(s) >= 2 => w[2] = s[2]
               /\ ~IsCli => w = s
  <1>1. CASE IsCli
    <2> DEFINE x == S("truncate", NoConfig)
               y == S("write", NoConfig)
    <2>1. x \in HostStep /\ y \in HostStep /\ x.do = "truncate" /\ y.do = "write"
      BY <1>1, CommonSteps, ConfigFacts DEF S
    <2>2. Save = <<x, y>>
      BY DEF Save
    <2> HIDE DEF x, y
    <2>3. Flow(x, y) /\ Flow(Last(s), x)
      BY <1>1, <2>1 DEF Flow, Done
    <2>4. Segment(<<x, y>>) /\ <<x, y>>[1] = x /\ Last(<<x, y>>) = y
      BY <2>1, <2>3, Pair
    <2> DEFINE w == s \o <<x, y>>
    <2>5. Segment(w) /\ w[1] = s[1] /\ Last(w) = y /\ Len(w) = Len(s) + Len(<<x, y>>)
      BY <2>3, <2>4, Glue
    <2>6. Len(s) >= 2 => w[2] = s[2]
      BY <2>1 DEF Segment
    <2> HIDE DEF w
    <2>7. Program(w)
      BY <1>1, <2>1, <2>5 DEF Program, Segment, Last, Ends
    <2>8. Len(w) >= Len(s)
      BY <2>5 DEF Segment
    <2>9. s \o (IF IsCli THEN Save ELSE <<>>) = w
      BY <1>1, <2>2 DEF w
    <2>10. QED BY <1>1, <2>5, <2>6, <2>7, <2>8, <2>9
  <1>2. CASE ~IsCli
    <2>1. s \o (IF IsCli THEN Save ELSE <<>>) = s
      BY <1>2 DEF Segment
    <2>2. Program(s) /\ Len(s) >= Len(s)
      BY <1>2 DEF Program, Segment, Last, Ends, Done
    <2>3. QED BY <1>2, <2>1, <2>2
  <1>3. QED BY <1>1, <1>2

\* A call: a first step, a segment or nothing, and a step of the facade.
Call(l, r, k) == (<<l>> \o r) \o <<k>>
LEMMA CallSegment ==
    ASSUME NEW l \in HostStep, NEW k \in HostStep, NEW r,
           Segment(r), Flow(l, r[1]), Flow(Last(r), k)
    PROVE  /\ Segment(Call(l, r, k)) /\ Call(l, r, k)[1] = l /\ Call(l, r, k)[2] = r[1]
           /\ Last(Call(l, r, k)) = k /\ Len(Call(l, r, k)) >= 2
  <1> DEFINE s == <<l>>
             t == <<k>>
             q == s \o r
  <1>1. Segment(s) /\ s[1] = l /\ Last(s) = l /\ Segment(t) /\ t[1] = k /\ Last(t) = k
    BY OneStep
  <1>2. Len(s) = 1 /\ Len(t) = 1
    OBVIOUS
  <1>3. Len(r) \in Nat /\ Len(r) >= 1 /\ r \in Seq(HostStep) /\ s \in Seq(HostStep)
    BY <1>1, SegmentFacts
  <1>4. Call(l, r, k) = q \o t
    BY DEF Call
  <1> HIDE DEF s, t
  <1>5. Segment(q) /\ q[1] = l /\ Last(q) = Last(r) /\ Len(q) = Len(s) + Len(r)
    BY <1>1, Glue
  <1>6. q[2] = r[1]
    <2>1. \A j \in 1..Len(r) : (s \o r)[Len(s) + j] = r[j]
      BY <1>3
    <2>2. 1 \in 1..Len(r) /\ Len(s) + 1 = 2
      BY <1>2, <1>3
    <2>3. QED BY <2>1, <2>2
  <1> HIDE DEF q
  <1>7. Len(q) >= 2
    BY <1>2, <1>3, <1>5
  <1>8. Segment(q \o t) /\ (q \o t)[1] = l /\ Last(q \o t) = k /\ Len(q \o t) = Len(q) + Len(t)
    BY <1>1, <1>5, Glue
  <1>9. (q \o t)[2] = r[1]
    BY <1>1, <1>5, <1>6, <1>7, Glue
  <1>10. Len(q \o t) >= 2
    BY <1>2, <1>3, <1>5, <1>8
  <1>11. QED BY <1>4, <1>8, <1>9, <1>10

LEMMA CallPair ==
    ASSUME NEW l \in HostStep, NEW k \in HostStep, Flow(l, k)
    PROVE  /\ Segment(Call(l, <<>>, k)) /\ Call(l, <<>>, k)[1] = l /\ Call(l, <<>>, k)[2] = k
           /\ Last(Call(l, <<>>, k)) = k /\ Len(Call(l, <<>>, k)) = 2
  <1>1. Call(l, <<>>, k) = <<l>> \o <<k>>
    <2>1. <<l>> \in Seq(HostStep)
      OBVIOUS
    <2>2. <<l>> \o <<>> = <<l>>
      BY <2>1
    <2>3. QED BY <2>2 DEF Call
  <1>2. Call(l, <<>>, k) = <<l, k>>
    BY <1>1, Pair
  <1>3. Len(<<l, k>>) = 2
    OBVIOUS
  <1>4. Segment(<<l, k>>) /\ <<l, k>>[1] = l /\ <<l, k>>[2] = k /\ Last(<<l, k>>) = k
    BY Pair
  <1>5. QED BY <1>2, <1>3, <1>4

\* ... and, in the command line client, the snapshot that is saved.
Finished(s) == s \o (IF IsCli THEN Save ELSE <<>>)
LEMMA FinishedProgram ==
    ASSUME NEW s, Segment(s), Len(s) >= 2, Last(s).do \in Done
    PROVE  /\ Program(Finished(s)) /\ Len(Finished(s)) >= 2
           /\ Finished(s)[1] = s[1] /\ Finished(s)[2] = s[2]
           /\ ~IsCli => Finished(s) = s
  <1> DEFINE w == s \o (IF IsCli THEN Save ELSE <<>>)
  <1>1. Finished(s) = w
    BY DEF Finished
  <1>2. Program(w) /\ w[1] = s[1] /\ Len(w) >= Len(s) /\ w[2] = s[2] /\ (~IsCli => w = s)
    BY Saved
  <1> HIDE DEF w
  <1>3. Len(w) \in Nat /\ Len(s) \in Nat
    BY <1>2 DEF Program, Segment
  <1>4. Len(w) >= 2
    BY <1>2, <1>3
  <1>5. QED BY <1>1, <1>2, <1>4

\* What comes after the key in a connect, and after the address was taken in a
\* disconnect, says which tunnel there was.
After(t, y) == /\ y.do \in {"validate", "planned", "disconnected"} => t = Nil
               /\ y.do = "forget" => t # Nil /\ y.c.ip = t

\* connect is a path from the key to the saved snapshot.
LEMMA FinalizeProgram ==
    ASSUME host \in Hosts, NEW t \in Ips \cup {Nil}, NEW pl \in [Ips -> Keys \cup {Nil}],
           Linux => pl = NoPeers, NEW c \in Configs
    PROVE  /\ Program(Finalize(t, pl, c)) /\ Len(Finalize(t, pl, c)) >= 2
           /\ Finalize(t, pl, c)[1].do = "load key" /\ After(t, Finalize(t, pl, c)[2])
           /\ ~IsCli => Last(Finalize(t, pl, c)).do = "connected"
  <1> DEFINE l == S("load key", c)
             k == S("connected", c)
             z == S("send", c)
             r == ReplaceTunnel(t, pl, c)
             g == Call(l, r, k)
             h == g \o (IF IsCli THEN <<z>> ELSE <<>>)
  <1>1. /\ l \in HostStep /\ k \in HostStep /\ l.do = "load key" /\ k.do = "connected"
        /\ z.do = "send" /\ (IsCli => z \in HostStep)
    BY CommonSteps, ConfigFacts DEF S
  <1>2. Replaces(t, r)
    BY ReplaceSegment
  <1>3. Finalize(t, pl, c) = Finished(h)
    BY DEF Finalize, Finished, Call
  <1> HIDE DEF l, k, z, r
  <1>4. /\ Segment(g) /\ g[1] = l /\ Last(g) = k /\ Len(g) >= 2
        /\ After(t, g[2])
    <2>1. CASE r = <<>>
      <3>1. Flow(l, k) /\ After(t, k) /\ g = Call(l, <<>>, k)
        BY <1>1, <2>1 DEF Flow, After
      <3>2. l \in HostStep /\ k \in HostStep /\ Flow(l, k)
        BY <1>1, <3>1
      <3> HIDE DEF g
      <3>3. Segment(g) /\ g[1] = l /\ g[2] = k /\ Last(g) = k /\ Len(g) >= 2
        BY <3>1, <3>2, CallPair
      <3>4. QED BY <3>1, <3>3
    <2>2. CASE r # <<>>
      <3>1. Segment(r) /\ Flow(l, r[1]) /\ After(t, r[1]) /\ Flow(Last(r), k)
        BY <1>1, <1>2, <2>2 DEF Flow, After, Replaces
      <3>2. /\ Segment(Call(l, r, k)) /\ Call(l, r, k)[1] = l /\ Call(l, r, k)[2] = r[1]
            /\ Last(Call(l, r, k)) = k /\ Len(Call(l, r, k)) >= 2
        BY <1>1, <3>1, CallSegment
      <3>3. QED BY <3>1, <3>2
    <2>3. QED BY <2>1, <2>2
  <1> HIDE DEF g
  <1>5. /\ Segment(h) /\ h[1] = l /\ h[2] = g[2] /\ Len(h) >= 2
        /\ Last(h) = IF IsCli THEN z ELSE k
    <2>1. CASE IsCli
      <3>1. Flow(k, z) /\ Segment(<<z>>) /\ <<z>>[1] = z /\ Last(<<z>>) = z
        BY <1>1, <2>1, OneStep DEF Flow
      <3>2. g \in Seq(HostStep) /\ z \in HostStep
        BY <1>1, <1>4, <2>1 DEF Segment
      <3> DEFINE w == g \o <<z>>
      <3>3. Segment(w) /\ w[1] = l /\ Last(w) = z
        BY <1>4, <3>1, Glue
      <3>4. w[2] = g[2] /\ Len(w) >= 2
        BY <1>4, <3>2
      <3>5. h = w
        BY <2>1
      <3>6. QED BY <2>1, <3>3, <3>4, <3>5
    <2>2. CASE ~IsCli
      <3>1. h = g
        BY <1>4, <2>2, SegmentFacts
      <3>2. QED BY <1>4, <2>2, <3>1
    <2>3. QED BY <2>1, <2>2
  <1> HIDE DEF h
  <1>6. Last(h).do \in Done
    BY <1>1, <1>5 DEF Done
  <1>7. /\ Program(Finished(h)) /\ Len(Finished(h)) >= 2
        /\ Finished(h)[1] = h[1] /\ Finished(h)[2] = h[2]
        /\ ~IsCli => Finished(h) = h
    BY <1>5, <1>6, FinishedProgram
  <1>8. QED
    BY <1>1, <1>3, <1>4, <1>5, <1>7

\* disconnect takes the address, closes that tunnel if there is one, and saves.
LEMMA DisconnectProgram ==
    ASSUME host \in Hosts, NEW t \in Ips \cup {Nil}, NEW pl \in [Ips -> Keys \cup {Nil}],
           Linux => pl = NoPeers
    PROVE  /\ Program(Disconnecting(t, pl)) /\ Len(Disconnecting(t, pl)) >= 2
           /\ Disconnecting(t, pl)[1] = S("take", NoConfig)
           /\ After(t, Disconnecting(t, pl)[2])
           /\ ~IsCli => Last(Disconnecting(t, pl)).do = "disconnected"
  <1> DEFINE l == S("take", NoConfig)
             k == S("disconnected", NoConfig)
             r == IF t = Nil THEN <<>> ELSE ManagerClose(t, pl)
             g == Call(l, r, k)
  <1>1. l \in HostStep /\ k \in HostStep /\ l.do = "take" /\ k.do = "disconnected" /\ Cleared(k)
    BY CommonSteps, ConfigFacts DEF S, Cleared
  <1>2. Disconnecting(t, pl) = Finished(g) /\ l = S("take", NoConfig)
    BY DEF Disconnecting, Finished, Call
  <1> HIDE DEF l, k
  <1>4. /\ Segment(g) /\ g[1] = l /\ Last(g) = k /\ Len(g) >= 2
        /\ IF t = Nil THEN g[2] = k
           ELSE g[2].do = (IF Linux THEN "check remove" ELSE "forget") /\ g[2].c.ip = t
    <2>1. CASE t = Nil
      <3>1. Flow(l, k) /\ g = Call(l, <<>>, k)
        BY <1>1, <2>1 DEF Flow
      <3> HIDE DEF g
      <3>2. QED BY <1>1, <2>1, <3>1, CallPair
    <2>2. CASE t # Nil
      <3> DEFINE s == ManagerClose(t, pl)
      <3>1. /\ Segment(s)
            /\ s[1].do = (IF Linux THEN "check remove" ELSE "forget") /\ s[1].c.ip = t
            /\ Flow(Last(s), k)
        BY <1>1, <2>2, ManagerCloseSegment, CloseEnds
      <3>2. g = Call(l, s, k)
        BY <2>2
      <3> HIDE DEF s, g
      <3>3. Flow(l, s[1])
        BY <1>1, <3>1 DEF Flow
      <3>4. /\ Segment(Call(l, s, k)) /\ Call(l, s, k)[1] = l /\ Call(l, s, k)[2] = s[1]
            /\ Last(Call(l, s, k)) = k /\ Len(Call(l, s, k)) >= 2
        BY <1>1, <3>1, <3>3, CallSegment
      <3>5. QED BY <2>2, <3>1, <3>2, <3>4
    <2>3. QED BY <2>1, <2>2
  <1> HIDE DEF g
  <1>5. /\ Program(Finished(g)) /\ Len(Finished(g)) >= 2
        /\ Finished(g)[1] = g[1] /\ Finished(g)[2] = g[2]
        /\ ~IsCli => Finished(g) = g
    BY <1>1, <1>4, FinishedProgram DEF Done
  <1>6. After(t, g[2])
    BY <1>1, <1>4 DEF After
  <1>7. QED
    BY <1>1, <1>2, <1>4, <1>5, <1>6

\* The commands that only load and save the state file.
LEMMA SaveProgram ==
    ASSUME IsCli
    PROVE  Program(Save) /\ Save # <<>> /\ Save[1].do = "truncate"
  <1> DEFINE x == S("truncate", NoConfig)
             y == S("write", NoConfig)
  <1>1. x \in HostStep /\ y \in HostStep /\ x.do = "truncate" /\ y.do = "write"
    BY CommonSteps, ConfigFacts DEF S
  <1>2. Save = <<x, y>>
    BY DEF Save
  <1> HIDE DEF x, y
  <1>3. Flow(x, y)
    BY <1>1 DEF Flow
  <1>4. Segment(<<x, y>>) /\ <<x, y>>[1] = x /\ Last(<<x, y>>) = y
    BY <1>1, <1>3, Pair
  <1>5. QED BY <1>1, <1>2, <1>4 DEF Segment, Program, Last, Ends

\* A segment whose last step ends a call is a program.
LEMMA SegmentProgram ==
    ASSUME NEW s, Segment(s), Last(s).do \in Ends
    PROVE  Program(s) /\ s # <<>>
  BY DEF Segment, Program, Last

\* apply_configuration of the helper.
LEMMA ApplyConfigurationProgram ==
    ASSUME host \in Hosts, ~IsCli, NEW c \in FullConfig
    PROVE  LET f == ApplyInterface(c) \o ApplyPeer(c) \o <<S("show", c)>>
           IN  Program(f) /\ f # <<>> /\ f[1].do \in {"iface", "planned"}
  <1> DEFINE a == ApplyInterface(c)
             b == ApplyPeer(c)
             x == S("show", c)
             i == S("iface", c)
             j == S("planned", c)
  <1>1. ~Linux
    BY LinuxIsCli
  <1>2. x \in HostStep /\ x.do = "show" /\ Flow(j, x) /\ Flow(i, j)
    BY <1>1, ConfigFacts
       DEF S, HostStep, Fits, GoodStep, FullOps, PlainOps,
           LinuxOps, WindowsOps, InterfaceOps, HelperOps, SaveOps, Flow, SameConfig
  <1>3. IF host.backend = "memory" THEN a = <<>>
        ELSE Segment(a) /\ a[1] = i /\ Last(a) = i
    BY <1>1, ApplyInterfaceSegment
  <1>4. Segment(b) /\ b[1] = j /\ Last(b) = j
    BY <1>1, ApplyPeerSegment
  <1>5. i.do = "iface" /\ j.do = "planned"
    BY DEF S
  <1>6. ApplyInterface(c) \o ApplyPeer(c) \o <<S("show", c)>> = (a \o b) \o <<x>>
    OBVIOUS
  <1> HIDE DEF a, b, x, i, j
  <1> DEFINE q == a \o b
  <1>7. Segment(q) /\ q[1].do \in {"iface", "planned"} /\ Last(q) = j
    <2>1. CASE a = <<>>
      <3>1. q = b
        BY <1>4, <2>1, SegmentFacts
      <3> HIDE DEF q
      <3>2. QED BY <1>4, <1>5, <3>1
    <2>2. CASE a # <<>>
      BY <1>2, <1>3, <1>4, <1>5, <2>2, Glue
    <2>3. QED BY <2>1, <2>2
  <1> HIDE DEF q
  <1>8. Segment(<<x>>) /\ <<x>>[1] = x /\ Last(<<x>>) = x
    BY <1>2, OneStep
  <1> DEFINE f == q \o <<x>>
  <1>9. Segment(f) /\ f[1] = q[1] /\ Last(f) = x
    BY <1>2, <1>7, <1>8, Glue
  <1>10. ApplyInterface(c) \o ApplyPeer(c) \o <<S("show", c)>> = f
    BY <1>6 DEF q
  <1> HIDE DEF f
  <1>11. Program(f) /\ f # <<>>
    BY <1>2, <1>9, SegmentProgram DEF Ends
  <1>12. QED BY <1>7, <1>9, <1>10, <1>11

\* remove_peer of the helper.
LEMMA RemovePeerProgram ==
    ASSUME host \in Hosts, ~IsCli, NEW i \in Ips, NEW pl \in [Ips -> Keys \cup {Nil}]
    PROVE  /\ Program(ManagerClose(i, pl)) /\ ManagerClose(i, pl) # <<>>
           /\ ManagerClose(i, pl)[1].do = "forget" /\ ManagerClose(i, pl)[1].c.ip = i
  <1> DEFINE s == ManagerClose(i, pl)
  <1>1. ~Linux
    BY LinuxIsCli
  <1>2. Segment(s) /\ s[1].do = "forget" /\ s[1].c.ip = i /\ Len(s) = 2 /\ s[2].do = "hide"
    BY <1>1, ManagerCloseSegment
  <1> HIDE DEF s
  <1>3. Last(s).do \in Ends
    BY <1>2 DEF Last, Ends
  <1>4. Program(s) /\ s # <<>>
    BY <1>2, <1>3, SegmentProgram
  <1>5. QED BY <1>2, <1>4 DEF s

\* bring_up of the helper.
LEMMA BringTunnelUpProgram ==
    ASSUME host \in Hosts, ~IsCli
    PROVE  LET f == BringUp(NoConfig) \o <<S("run", NoConfig)>>
           IN  /\ Program(f) /\ f # <<>> /\ f[1].do \in {"check up", "run"} /\ f[1].c = NoConfig
  <1> DEFINE u == BringUp(NoConfig)
             x == S("run", NoConfig)
             a == S("check up", NoConfig)
             b == S("up", NoConfig)
  <1>1. ~Linux /\ NoConfig \in Config /\ NoConfig.ip = Nil
    BY LinuxIsCli, ConfigFacts
  <1>2. x \in HostStep /\ x.do = "run" /\ x.c = NoConfig /\ a.do = "check up" /\ a.c = NoConfig
    BY <1>1
       DEF S, HostStep, Fits, GoodStep, FullOps, PlainOps,
           LinuxOps, WindowsOps, InterfaceOps, HelperOps, SaveOps
  <1>3. Flow(b, x)
    BY <1>1 DEF Flow, SameConfig, S
  <1>4. IF host.backend = "memory" THEN u = <<>>
        ELSE Segment(u) /\ u[1] = a /\ Last(u) = b
    BY <1>1, BringUpSegment
  <1>5. BringUp(NoConfig) \o <<S("run", NoConfig)>> = u \o <<x>>
    OBVIOUS
  <1> HIDE DEF u, x, a, b
  <1>6. Segment(<<x>>) /\ <<x>>[1] = x /\ Last(<<x>>) = x
    BY <1>2, OneStep
  <1> DEFINE f == u \o <<x>>
  <1>7. Segment(f) /\ f[1].do \in {"check up", "run"} /\ f[1].c = NoConfig /\ Last(f) = x
    <2>1. CASE u = <<>>
      <3>1. f = <<x>>
        BY <1>6, <2>1, SegmentFacts
      <3> HIDE DEF f
      <3>2. QED BY <1>2, <1>6, <3>1
    <2>2. CASE u # <<>>
      <3>1. Segment(f) /\ f[1] = a /\ Last(f) = x
        BY <1>3, <1>4, <1>6, <2>2, Glue
      <3> HIDE DEF f
      <3>2. QED BY <1>2, <3>1
    <2>3. QED BY <2>1, <2>2
  <1> HIDE DEF f
  <1>8. Program(f) /\ f # <<>>
    BY <1>2, <1>7, SegmentProgram DEF Ends
  <1>9. QED BY <1>5, <1>7, <1>8 DEF f

\* bring_down of the helper.
LEMMA BringTunnelDownProgram ==
    ASSUME host \in Hosts, ~IsCli
    PROVE  LET f == (IF shown = Nil THEN <<>> ELSE BringDown) \o <<S("halt", NoConfig)>>
           IN  Program(f) /\ f # <<>> /\ f[1].do \in {"check down", "halt"}
  <1> DEFINE d == IF shown = Nil THEN <<>> ELSE BringDown
             h == S("halt", NoConfig)
             x == S("check down", NoConfig)
             y == S("drop address", NoConfig)
             z == S("down", NoConfig)
             f == d \o <<h>>
  <1>1. ~Linux /\ NoConfig \in Config
    BY LinuxIsCli, ConfigFacts
  <1>2. h \in HostStep /\ h.do = "halt"
    BY <1>1
       DEF S, HostStep, Fits, GoodStep, FullOps, PlainOps,
           LinuxOps, WindowsOps, InterfaceOps, HelperOps, SaveOps
  <1>3. (IF shown = Nil THEN <<>> ELSE BringDown) \o <<S("halt", NoConfig)>> = f
    OBVIOUS
  <1>4. CASE d = <<>>
    <2> HIDE DEF d, h
    <2>1. Segment(<<h>>) /\ <<h>>[1] = h /\ Last(<<h>>) = h
      BY <1>2, OneStep
    <2>2. f = <<h>>
      BY <1>4, <2>1, SegmentFacts
    <2> HIDE DEF f
    <2>3. Program(f) /\ f # <<>>
      BY <1>2, <2>1, <2>2, SegmentProgram DEF Ends
    <2>4. QED BY <1>2, <2>1, <2>2, <2>3 DEF f, d, h
  <1>5. CASE d # <<>>
    <2>1. host.backend # "memory" /\ d = <<x, y, z>>
      BY <1>1, <1>5 DEF BringDown
    <2>2. x \in HostStep /\ y \in HostStep /\ z \in HostStep /\ x.do = "check down"
      BY <1>1, <2>1
         DEF S, HostStep, Fits, GoodStep, FullOps, PlainOps,
             LinuxOps, WindowsOps, InterfaceOps, HelperOps, SaveOps
    <2>3. Flow(x, y) /\ Flow(y, z) /\ Flow(z, h)
      BY DEF Flow, S
    <2> HIDE DEF x, y, z, h, d
    <2>4. Segment(<<x, y, z>>) /\ <<x, y, z>>[1] = x /\ Last(<<x, y, z>>) = z
      <3>0. x \in HostStep /\ y \in HostStep /\ z \in HostStep
        BY <2>2
      <3>1. <<x, y, z>> \in Seq(HostStep) /\ Len(<<x, y, z>>) = 3
        BY <3>0
      <3>2. Flow(x, y) /\ Flow(y, z)
        BY <2>3
      <3>3. QED BY <3>1, <3>2 DEF Segment, Path, Last
    <2>5. Segment(<<h>>) /\ <<h>>[1] = h /\ Last(<<h>>) = h
      BY <1>2, OneStep
    <2>6. Segment(f) /\ f[1] = x /\ Last(f) = h
      BY <2>1, <2>3, <2>4, <2>5, Glue
    <2> HIDE DEF f
    <2>7. Program(f) /\ f # <<>>
      BY <1>2, <2>6, SegmentProgram DEF Ends
    <2>8. QED BY <2>2, <2>6, <2>7 DEF f, d, h
  <1>6. QED BY <1>4, <1>5
-----------------------------------------------------------------------------
(* What is left of a call after a step is a path of the graph again. *)

\* The process is in a call.
Busy(s) == Program(s) /\ s # <<>>

\* A step is taken.
LEMMA TailProgram ==
    ASSUME NEW s, Busy(s)
    PROVE  /\ Program(Tail(s)) /\ s[1] \in HostStep /\ Head(s) = s[1]
           /\ Len(s) \in Nat /\ Len(s) >= 1 /\ Len(Tail(s)) = Len(s) - 1
           /\ \A k \in 1..(Len(s) - 1) : Tail(s)[k] = s[k + 1]
           /\ Tail(s) = <<>> <=> Len(s) = 1
           /\ Tail(s) = <<>> => s[1].do \in Ends
           /\ Tail(s) # <<>> => /\ Flow(s[1], Tail(s)[1]) /\ Tail(s)[1] \in HostStep
                                /\ Last(Tail(s)) = Last(s) /\ Len(s) >= 2
                                /\ Tail(s)[1] = s[2]
  <1>1. s \in Seq(HostStep) /\ s # <<>> /\ Path(s) /\ s[Len(s)].do \in Ends
    BY DEF Program, Busy
  <1>2. /\ Len(s) \in Nat /\ Len(s) >= 1 /\ Tail(s) \in Seq(HostStep)
        /\ Len(Tail(s)) = Len(s) - 1 /\ Head(s) = s[1] /\ s[1] \in HostStep
        /\ \A k \in 1..(Len(s) - 1) : Tail(s)[k] = s[k + 1]
    BY <1>1
  <1>3. Tail(s) = <<>> <=> Len(s) = 1
    <2>1. Len(s) \in Nat /\ Tail(s) \in Seq(HostStep) /\ Len(Tail(s)) = Len(s) - 1
      BY <1>2
    <2>2. Tail(s) = <<>> <=> Len(Tail(s)) = 0
      BY <2>1, EmptySeq
    <2>3. QED BY <2>1, <2>2
  <1>4. Path(Tail(s))
    <2>1. SUFFICES ASSUME NEW k \in 1..(Len(Tail(s)) - 1)
                   PROVE  Flow(Tail(s)[k], Tail(s)[k + 1])
      BY DEF Path
    <2>2. /\ k + 1 \in 1..(Len(s) - 1) /\ k \in 1..(Len(s) - 1)
      BY <1>2
    <2>3. Tail(s)[k] = s[k + 1] /\ Tail(s)[k + 1] = s[(k + 1) + 1]
      BY <1>2, <2>2
    <2>4. QED BY <1>1, <2>2, <2>3 DEF Path
  <1>5. CASE Tail(s) = <<>>
    BY <1>1, <1>2, <1>3, <1>4, <1>5 DEF Program
  <1>6. CASE Tail(s) # <<>>
    <2>1. Len(s) >= 2 /\ 1 \in 1..(Len(s) - 1) /\ Len(s) - 1 \in 1..(Len(s) - 1)
      BY <1>2, <1>3, <1>6
    <2>2. /\ Tail(s)[1] = s[2] /\ Tail(s)[Len(s) - 1] = s[Len(s)]
      <3>1. Tail(s)[1] = s[1 + 1] /\ Tail(s)[Len(s) - 1] = s[(Len(s) - 1) + 1]
        BY <1>2, <2>1
      <3>2. (Len(s) - 1) + 1 = Len(s) /\ 1 + 1 = 2
        BY <1>2
      <3>3. QED BY <3>1, <3>2
    <2>3. Flow(s[1], s[2])
      <3>1. Flow(s[1], s[1 + 1])
        BY <1>1, <2>1 DEF Path
      <3>2. QED BY <3>1
    <2>4. Last(Tail(s)) = Last(s) /\ s[2] \in HostStep
      BY <1>1, <1>2, <2>1, <2>2 DEF Last
    <2>5. Program(Tail(s))
      BY <1>1, <1>2, <1>4, <2>2 DEF Program
    <2>6. QED BY <1>2, <1>3, <1>6, <2>1, <2>2, <2>3, <2>4, <2>5
  <1>7. QED BY <1>5, <1>6

\* The steps that hand over a private key, and the entries of the key file.
LEMMA KeySteps ==
    ASSUME NEW d \in KeyOps, NEW s \in Secrets, NEW k \in KeyTable
    PROVE  /\ KeyStep(d, s, k) \in HostStep
           /\ KeyStep(d, s, k).do = d /\ KeyStep(d, s, k).s = s /\ KeyStep(d, s, k).keys = k
  BY DEF KeyStep, KeyOps, HostStep, GoodStep, Fits, LinuxOps, WindowsOps, InterfaceOps,
         HelperOps, SaveOps

\* A step in front of a program.
Front(x, s) == <<x>> \o s
LEMMA InFront ==
    ASSUME NEW x \in HostStep, NEW s, Busy(s), Flow(x, s[1])
    PROVE  /\ Busy(Front(x, s)) /\ Front(x, s)[1] = x
           /\ Len(Front(x, s)) = Len(s) + 1 /\ Last(Front(x, s)) = Last(s)
           /\ \A k \in 1..Len(s) : Front(x, s)[k + 1] = s[k]
  <1> DEFINE a == <<x>>
  <1>1. Segment(a) /\ a[1] = x /\ Last(a) = x /\ Len(a) = 1
    BY OneStep
  <1>2. Segment(s) /\ Last(s).do \in Ends
    BY DEF Segment, Program, Last, Busy
  <1>3. a \in Seq(HostStep) /\ s \in Seq(HostStep) /\ Len(s) \in Nat
    BY <1>1, <1>2, SegmentFacts
  <1> HIDE DEF a
  <1>4. Segment(a \o s) /\ (a \o s)[1] = x /\ Last(a \o s) = Last(s)
    BY <1>1, <1>2, Glue
  <1>5. /\ \A k \in 1..Len(s) : (a \o s)[Len(a) + k] = s[k]
        /\ Len(a \o s) = Len(a) + Len(s)
    BY <1>3
  <1>l. Len(a) = 1
    BY <1>1
  <1>6. Len(a \o s) = Len(s) + 1
    BY <1>3, <1>5, <1>l
  <1>7. \A k \in 1..Len(s) : (a \o s)[k + 1] = s[k]
    <2>1. ASSUME NEW k \in 1..Len(s)
          PROVE  (a \o s)[k + 1] = s[k]
      <3>1. Len(a) + k = k + 1
        BY <1>3, <1>l
      <3>2. QED BY <1>5, <3>1
    <2>2. QED BY <2>1
  <1>8. Program(a \o s) /\ a \o s # <<>>
    BY <1>2, <1>4, SegmentProgram
  <1>9. Front(x, s) = a \o s
    BY DEF Front, a
  <1>10. QED BY <1>4, <1>6, <1>7, <1>8, <1>9 DEF Busy

\* ensure_tunnel_key_pair finds the key in the key file.
AtKey(s) == s[1].do = "load key"
Found(s, e, m) == <<KeyStep("key", e, m)>> \o Tail(s)
LEMMA FoundKey ==
    ASSUME NEW s, Busy(s), AtKey(s), NEW e \in Secrets, NEW m \in KeyTable
    PROVE  /\ Busy(Found(s, e, m)) /\ Len(Found(s, e, m)) = Len(s)
           /\ Found(s, e, m)[1] = KeyStep("key", e, m)
           /\ Last(Found(s, e, m)) = Last(s) /\ Len(s) >= 2 /\ Found(s, e, m)[2] = s[2]
  <1> DEFINE x == KeyStep("key", e, m)
             t == Tail(s)
             r == Found(s, e, m)
  <1>1. "load key" \notin Ends
    BY DEF Ends
  <1>2. /\ Busy(t) /\ Flow(s[1], t[1]) /\ Last(t) = Last(s) /\ Len(s) >= 2
        /\ t[1] = s[2] /\ Len(s) \in Nat /\ Len(t) = Len(s) - 1
    BY <1>1, TailProgram DEF Busy, AtKey
  <1>3. x \in HostStep /\ x.do = "key"
    <2>1. "key" \in KeyOps
      BY DEF KeyOps
    <2>2. QED BY <2>1, KeySteps
  <1>4. r = Front(x, t)
    BY DEF Front, Found
  <1> HIDE DEF x, t, r
  <1>5. Flow(x, t[1])
    BY <1>2, <1>3 DEF Flow, AtKey
  <1>6. /\ Busy(r) /\ r[1] = x /\ Len(r) = Len(t) + 1 /\ Last(r) = Last(t)
        /\ \A k \in 1..Len(t) : r[k + 1] = t[k]
    BY <1>2, <1>3, <1>4, <1>5, InFront
  <1>7. Len(r) = Len(s) /\ 1 \in 1..Len(t)
    <2>1. Len(s) \in Nat /\ Len(s) >= 2 /\ Len(t) = Len(s) - 1 /\ Len(r) = Len(t) + 1
      BY <1>2, <1>6
    <2>2. QED BY <2>1
  <1>8. r[1 + 1] = t[1]
    BY <1>6, <1>7
  <1>9. r[2] = s[2] /\ Last(r) = Last(s)
    BY <1>2, <1>6, <1>8
  <1>10. QED BY <1>2, <1>6, <1>7, <1>9 DEF x, r

LEMMA ConcatTriple ==
    ASSUME NEW T, NEW x \in T, NEW y \in T, NEW z \in T, NEW t \in Seq(T)
    PROVE  <<x, y, z>> \o t = Front(x, Front(y, Front(z, t)))
  <1> DEFINE a == <<x, y, z>>
             r == a \o t
             q == <<z>> \o t
             v == <<y>> \o q
             w == <<x>> \o v
  <1>1. a \in Seq(T) /\ Len(a) = 3 /\ Len(t) \in Nat
    OBVIOUS
  <1>2. /\ q \in Seq(T) /\ Len(q) = Len(t) + 1
        /\ q[1] = z /\ \A k \in 1..Len(t) : q[k + 1] = t[k]
    OBVIOUS
  <1> HIDE DEF q
  <1>3. /\ v \in Seq(T) /\ Len(v) = Len(q) + 1
        /\ v[1] = y /\ \A k \in 1..Len(q) : v[k + 1] = q[k]
    BY <1>2
  <1> HIDE DEF v
  <1>4. /\ w \in Seq(T) /\ Len(w) = Len(v) + 1
        /\ w[1] = x /\ \A k \in 1..Len(v) : w[k + 1] = v[k]
    BY <1>3
  <1> HIDE DEF w
  <1>5. /\ r \in Seq(T) /\ Len(r) = Len(t) + 3 /\ r[1] = x /\ r[2] = y /\ r[3] = z
        /\ \A k \in 1..Len(t) : r[k + 3] = t[k]
    <2>1. a[1] = x /\ a[2] = y /\ a[3] = z
      OBVIOUS
    <2> HIDE DEF a
    <2>2. a \in Seq(T)
      BY <1>1
    <2>3. /\ r \in Seq(T) /\ Len(r) = Len(a) + Len(t)
          /\ \A k \in 1..Len(a) : r[k] = a[k]
          /\ \A k \in 1..Len(t) : r[Len(a) + k] = t[k]
      BY <2>2
    <2> HIDE DEF r
    <2>4. QED BY <1>1, <2>1, <2>3
  <1> HIDE DEF r
  <1>6. Len(w) = Len(r)
    BY <1>1, <1>2, <1>3, <1>4, <1>5
  <1>7. ASSUME NEW k \in 1..Len(r)
        PROVE  r[k] = w[k]
    <2>1. CASE k = 1
      BY <1>4, <1>5, <2>1
    <2>2. CASE k = 2
      <3>1. 1 \in 1..Len(v)
        BY <1>1, <1>2, <1>3
      <3>2. w[1 + 1] = v[1]
        BY <1>4, <3>1
      <3>3. QED BY <1>3, <1>5, <2>2, <3>2
    <2>3. CASE k = 3
      <3>1. 2 \in 1..Len(v) /\ 1 \in 1..Len(q)
        BY <1>1, <1>2, <1>3
      <3>2. w[2 + 1] = v[2] /\ v[1 + 1] = q[1]
        BY <1>3, <1>4, <3>1
      <3>3. QED BY <1>2, <1>5, <2>3, <3>2
    <2>4. CASE k > 3
      <3>1. PICK j \in 1..Len(t) : k = j + 3
        <4>1. k - 3 \in 1..Len(t) /\ k = (k - 3) + 3
          BY <1>1, <1>5, <2>4
        <4>2. QED BY <4>1
      <3>2. j + 1 \in 1..Len(q) /\ (j + 1) + 1 \in 1..Len(v) /\ k = ((j + 1) + 1) + 1
        BY <1>1, <1>2, <1>3, <3>1
      <3>3. /\ w[((j + 1) + 1) + 1] = v[(j + 1) + 1] /\ v[(j + 1) + 1] = q[j + 1]
            /\ q[j + 1] = t[j] /\ r[j + 3] = t[j]
        BY <1>2, <1>3, <1>4, <1>5, <3>2
      <3>4. QED BY <3>1, <3>2, <3>3
    <2>5. QED BY <1>1, <2>1, <2>2, <2>3, <2>4
  <1>8. r = w
    BY <1>4, <1>5, <1>6, <1>7, SeqEqual
  <1>9. QED BY <1>8 DEF r, w, v, q, Front

\* ... or generates one and writes it to the key file.
Generated(s, e, m) == <<KeyStep("store truncate", e, m), KeyStep("store write", e, m),
                        KeyStep("key", e, m)>> \o Tail(s)
LEMMA NewKey ==
    ASSUME NEW s, Busy(s), AtKey(s), NEW e \in Secrets, NEW m \in KeyTable
    PROVE  /\ Busy(Generated(s, e, m)) /\ Len(Generated(s, e, m)) = Len(s) + 2
           /\ Generated(s, e, m)[1] = KeyStep("store truncate", e, m)
           /\ Last(Generated(s, e, m)) = Last(s) /\ Len(s) >= 2 /\ Generated(s, e, m)[4] = s[2]
  <1> DEFINE x == KeyStep("store truncate", e, m)
             y == KeyStep("store write", e, m)
             z == KeyStep("key", e, m)
             t == Tail(s)
             r == Generated(s, e, m)
             q == Front(z, t)
             v == Front(y, q)
             w == Front(x, v)
  <1>1. /\ x \in HostStep /\ x.do = "store truncate" /\ x.s = e /\ x.keys = m
        /\ y \in HostStep /\ y.do = "store write" /\ y.s = e /\ y.keys = m
        /\ z \in HostStep /\ z.do = "key" /\ z.s = e
    <2>1. "key" \in KeyOps /\ "store truncate" \in KeyOps /\ "store write" \in KeyOps
      BY DEF KeyOps
    <2>2. \A d \in KeyOps : /\ KeyStep(d, e, m) \in HostStep /\ KeyStep(d, e, m).do = d
                            /\ KeyStep(d, e, m).s = e /\ KeyStep(d, e, m).keys = m
      <3>1. ASSUME NEW d \in KeyOps
            PROVE  /\ KeyStep(d, e, m) \in HostStep /\ KeyStep(d, e, m).do = d
                   /\ KeyStep(d, e, m).s = e /\ KeyStep(d, e, m).keys = m
        BY KeySteps
      <3>2. QED BY <3>1
    <2>3. QED BY <2>1, <2>2
  <1>2. q = Found(s, e, m)
    BY DEF Front, Found
  <1>3. /\ Busy(q) /\ Len(q) = Len(s) /\ q[1] = z
        /\ Last(q) = Last(s) /\ Len(s) >= 2 /\ q[2] = s[2]
    <2> HIDE DEF q
    <2> QED BY <1>2, FoundKey
  <1>4. r = <<x, y, z>> \o t /\ t \in Seq(HostStep)
    BY TailProgram DEF Program, Generated
  <1>5. Len(s) \in Nat
    BY TailProgram
  <1> HIDE DEF x, y, z, t, r
  <1>6. r = w
    <2>1. x \in HostStep /\ y \in HostStep /\ z \in HostStep /\ t \in Seq(HostStep)
      BY <1>1, <1>4
    <2>2. QED BY <1>4, <2>1, ConcatTriple
  <1> HIDE DEF q
  <1>7. /\ Busy(v) /\ v[1] = y /\ Len(v) = Len(q) + 1 /\ Last(v) = Last(q)
        /\ \A k \in 1..Len(q) : v[k + 1] = q[k]
    <2>1. Flow(y, q[1])
      BY <1>1, <1>3 DEF Flow
    <2>2. y \in HostStep /\ Busy(q)
      BY <1>1, <1>3
    <2>3. QED BY <2>1, <2>2, InFront
  <1> HIDE DEF v
  <1>8. /\ Busy(w) /\ w[1] = x /\ Len(w) = Len(v) + 1 /\ Last(w) = Last(v)
        /\ \A k \in 1..Len(v) : w[k + 1] = v[k]
    <2>1. Flow(x, v[1])
      BY <1>1, <1>7 DEF Flow
    <2>2. x \in HostStep /\ Busy(v)
      BY <1>1, <1>7
    <2>3. QED BY <2>1, <2>2, InFront
  <1> HIDE DEF w
  <1>9. 2 \in 1..Len(q) /\ 3 \in 1..Len(v) /\ Len(w) = Len(s) + 2
    <2>1. Len(q) = Len(s) /\ Len(s) >= 2 /\ Len(v) = Len(q) + 1 /\ Len(w) = Len(v) + 1
      BY <1>3, <1>7, <1>8
    <2>2. QED BY <1>5, <2>1
  <1>10. v[2 + 1] = q[2] /\ w[3 + 1] = v[3]
    BY <1>7, <1>8, <1>9
  <1>11. w[4] = s[2]
    <2>1. q[2] = s[2]
      BY <1>3
    <2>2. QED BY <1>10, <2>1
  <1>12. QED BY <1>3, <1>6, <1>7, <1>8, <1>9, <1>11 DEF x, r
-----------------------------------------------------------------------------
(* The control invariant: every process is in the middle of such a path.   *)

\* The graph depends on the kind of host only, and that never changes.
LEMMA SameHost ==
    ASSUME host' = host, \A p \in Procs : Program(todo'[p])
    PROVE  Programs'
  <1>1. HostStep' = HostStep /\ Ends' = Ends
    BY DEF HostStep, Fits, Ends, Linux, IsCli
  <1>2. ASSUME NEW x, NEW y, Flow(x, y)
        PROVE  Flow(x, y)'
    BY <1>2 DEF Flow, SameConfig, Cleared, Linux, IsCli
  <1>3. ASSUME NEW p \in Procs
        PROVE  Program(todo[p])'
    <2>1. todo'[p] \in Seq(HostStep) /\ (todo'[p] # <<>> => todo'[p][Len(todo'[p])].do \in Ends)
      BY <1>3 DEF Program
    <2>2. Path(todo[p])'
      <3>1. ASSUME NEW k \in 1..(Len(todo'[p]) - 1)
            PROVE  Flow(todo'[p][k], todo'[p][k + 1])
        BY <1>3, <3>1 DEF Program, Path
      <3>2. ASSUME NEW k \in 1..(Len(todo'[p]) - 1)
            PROVE  Flow(todo[p][k], todo[p][k + 1])'
        BY <3>1, <3>2, <1>2
      <3>3. QED BY <3>2 DEF Path
    <2>3. QED BY <1>1, <2>1, <2>2 DEF Program
  <1>4. QED BY <1>3 DEF Programs

CtlInv == TypeInv /\ Programs /\ Alone

\* The memory of every other process stays as it is.
Apart(p) == \A q \in Procs \ {p} : iface'[q] = iface[q] /\ tun'[q] = tun[q] /\ snap'[q] = snap[q]
Emptied(p) == iface[p] = Nil /\ tun[p] = Nil /\ snap[p] = Fresh
\* What is left of the call of p.
Left(p, r) == /\ todo' = [todo EXCEPT ![p] = r]
              /\ todo[p] = <<>> => r = <<>>
              /\ IsCli /\ r = <<>> => Emptied(p)'

LEMMA GoodPrograms ==
    ASSUME NEW r, Program(r)
    PROVE  r \in Seq(GoodStep)
  <1>1. HostStep \subseteq GoodStep
    BY DEF HostStep
  <1>2. QED BY <1>1 DEF Program

LEMMA ControlMoves ==
    ASSUME CtlInv, NEW p \in Procs, NEW r, Program(r), Left(p, r), Apart(p),
           host' = host, past \subseteq past'
    PROVE  Programs' /\ Alone' /\ todo' \in [Procs -> Seq(GoodStep)]
  <1>1. /\ \A q \in Procs : todo'[q] = IF q = p THEN r ELSE todo[q]
        /\ todo' \in [Procs -> Seq(GoodStep)]
    BY GoodPrograms DEF CtlInv, TypeInv, Left
  <1>2. Programs'
    BY <1>1, SameHost DEF CtlInv, Programs
  <1>3. \A q \in Procs : Idle(q) => Idle(q)'
    BY <1>1 DEF Left, Idle
  <1>4. (IsCli <=> IsCli') /\ ("overlap" \notin past' => "overlap" \notin past)
    BY DEF IsCli
  <1>5. (~IsCli => \A q \in Procs \ {Main} : Idle(q))'
    BY <1>3, <1>4 DEF CtlInv, Alone
  <1>6. ("overlap" \notin past => \A a, b \in Procs : Idle(a) \/ Idle(b) \/ a = b)'
    BY <1>3, <1>4 DEF CtlInv, Alone
  <1>7. (IsCli => \A q \in Procs : Idle(q) => Emptied(q))'
    <2>1. ASSUME NEW q \in Procs, IsCli', Idle(q)'
          PROVE  Emptied(q)'
      <3>1. CASE q = p
        BY <1>1, <1>4, <2>1, <3>1 DEF Left, Idle
      <3>2. CASE q # p
        BY <1>1, <1>4, <2>1, <3>2 DEF CtlInv, Alone, Apart, Emptied, Idle
      <3>3. QED BY <3>1, <3>2
    <2>2. QED BY <2>1
  <1>8. Alone'
    BY <1>5, <1>6, <1>7 DEF Alone, Emptied
  <1>9. QED BY <1>1, <1>2, <1>8

\* The next step of a process, and the one after it.
LEMMA HeadFacts ==
    ASSUME CtlInv, NEW p \in Procs, NEW ops, AtStep(p, ops)
    PROVE  /\ Busy(todo[p]) /\ Head(todo[p]) = todo[p][1] /\ todo[p][1] \in HostStep
           /\ todo[p][1].do \in ops /\ todo[p][1] \in GoodStep /\ Fits(todo[p][1])
  <1>1. Busy(todo[p])
    BY DEF CtlInv, Programs, AtStep, Busy
  <1>2. Head(todo[p]) = todo[p][1] /\ todo[p][1] \in HostStep
    BY <1>1, TailProgram
  <1>3. QED BY <1>1, <1>2 DEF AtStep, HostStep

\* Every step but the last write leaves a path.
LEMMA ControlAdvances ==
    ASSUME CtlInv, NEW p \in Procs, NEW ops, AtStep(p, ops), "write" \notin ops,
           Advance(p), Apart(p), host' = host, past' = past
    PROVE  Programs' /\ Alone' /\ todo' \in [Procs -> Seq(GoodStep)]
  <1>1. Busy(todo[p]) /\ todo[p][1].do \in ops
    BY HeadFacts
  <1>2. Program(Tail(todo[p])) /\ (Tail(todo[p]) = <<>> => todo[p][1].do \in Ends)
    BY <1>1, TailProgram
  <1>3. ~(IsCli /\ Tail(todo[p]) = <<>>)
    BY <1>1, <1>2 DEF Ends
  <1>4. Left(p, Tail(todo[p]))
    BY <1>1, <1>3 DEF Left, Advance, CtlInv, TypeInv, Busy
  <1>5. QED BY <1>2, <1>4, ControlMoves

\* A process that ends leaves nothing.
LEMMA ControlExits ==
    ASSUME CtlInv, NEW p \in Procs, host' = host, past \subseteq past',
           Exit(p) \/ (~IsCli /\ todo' = [todo EXCEPT ![p] = <<>>] /\ UNCHANGED memory)
    PROVE  Programs' /\ Alone' /\ todo' \in [Procs -> Seq(GoodStep)]
  <1>1. Program(<<>>)
    BY DEF Program, Path
  <1>2. Left(p, <<>>) /\ Apart(p)
    BY DEF Left, Exit, Emptied, CtlInv, TypeInv, memory, Apart
  <1>3. QED BY <1>1, <1>2, ControlMoves

\* The empty values have their types.
LEMMA Nothing ==
    /\ NoPeers \in [Ips -> Keys \cup {Nil}] /\ Fresh \in Snapshot /\ NoSystem \in System
    /\ NoFile \in [is : {"absent", "torn", "saved"}, has : Snapshot]
    /\ NoKeys \in KeyTable
    /\ Fresh.tun = Nil /\ Fresh.key = Nil /\ NoFile.has = Fresh /\ NoFile.is = "absent"
  <1>1. NoPeers \in [Ips -> Keys \cup {Nil}] /\ Fresh \in Snapshot
    BY DEF NoPeers, Fresh, Snapshot
  <1>2. NoSystem \in System
    BY <1>1 DEF NoSystem, System
  <1>3. NoKeys \in KeyTable
    BY DEF NoKeys, KeyTable
  <1>4. QED BY <1>1, <1>2, <1>3 DEF NoFile, Fresh

\* A snapshot whose identity may have changed: it has the key it had, or none.
Renamed(w, v) == /\ w \in Snapshot /\ w.tun = v.tun
                 /\ w.key = Nil \/ (w.key = v.key /\ w.of = v.of)
LEMMA Identities ==
    ASSUME NEW v \in Snapshot, NEW n \in Nodes
    PROVE  Renamed(v, v) /\ Renamed(Registered(v, n), v) /\ Renamed(Bootstrapped(v, n), v)
  BY DEF Renamed, Registered, Bootstrapped, Snapshot

\* What a call may leave behind has a type.
LEMMA AskedTypes ==
    ASSUME TypeInv, NEW p \in Procs
    PROVE  /\ Asked(p) \subseteq Ips
           /\ tun[p] # Nil => tun[p] \in Asked(p)
           /\ AtStep(p, ConfigOps) /\ Head(todo[p]).c.ip # Nil => Head(todo[p]).c.ip \in Asked(p)
  <1>1. tun[p] \in Ips \cup {Nil} /\ todo[p] \in Seq(GoodStep)
    BY DEF TypeInv
  <1>2. ASSUME AtStep(p, ConfigOps)
        PROVE  Head(todo[p]).c.ip \in Ips \cup {Nil}
    <2>1. Head(todo[p]) \in GoodStep /\ Head(todo[p]).do \in ConfigOps
      BY <1>1, <1>2 DEF AtStep
    <2> DEFINE x == Head(todo[p])
    <2>2. x \in GoodStep /\ x.do \in ConfigOps
      BY <2>1
    <2> HIDE DEF x
    <2>3. x.c.ip \in Ips \cup {Nil}
      BY <2>2 DEF GoodStep, ConfigOps, KeyOps, FullConfig, Config
    <2>4. QED BY <2>3 DEF x
  <1>3. QED BY <1>1, <1>2 DEF Asked

\* A call of the command line client begins.
LEMMA ControlCliRuns ==
    ASSUME CtlInv, NEW p \in Procs, NEW w, Renamed(w, file.has), NEW steps, Busy(steps),
           CliRuns(p, w, steps)
    PROVE  CtlInv'
  <1>1. /\ IsCli /\ Idle(p) /\ host' = host
        /\ todo' = [todo EXCEPT ![p] = steps]
        /\ snap' = [snap EXCEPT ![p] = w]
        /\ tun' = [tun EXCEPT ![p] = file.has.tun]
        /\ past' = IF \A q \in Procs : Idle(q) THEN past ELSE past \cup {"overlap"}
        /\ UNCHANGED <<os, file, store, iface, planned, shown, running, faults, stray>>
    BY DEF CliRuns, CtlInv, TypeInv, Renamed
  <1>2. /\ \A q \in Procs : todo'[q] = IF q = p THEN steps ELSE todo[q]
        /\ todo' \in [Procs -> Seq(GoodStep)] /\ steps # <<>>
    BY <1>1, GoodPrograms DEF CtlInv, TypeInv, Busy
  <1>3. Programs'
    BY <1>1, <1>2, SameHost DEF CtlInv, Programs, Busy
  <1>4. /\ file.has.tun \in Ips \cup {Nil} /\ w \in Snapshot
        /\ past' \subseteq {"overlap", "direct", "reboot"}
    BY <1>1 DEF CtlInv, TypeInv, Snapshot, Renamed
  <1>5. TypeInv'
    BY <1>1, <1>2, <1>4 DEF CtlInv, TypeInv
  <1>6. IsCli'
    BY <1>1 DEF IsCli
  <1>7. \A q \in Procs : Idle(q)' => Idle(q) /\ q # p
    BY <1>2 DEF Idle
  <1>8. ("overlap" \notin past => \A a, b \in Procs : Idle(a) \/ Idle(b) \/ a = b)'
    <2>1. "overlap" \notin past' => \A q \in Procs : Idle(q)
      BY <1>1
    <2>2. (\A q \in Procs : Idle(q)) => \A q \in Procs \ {p} : Idle(q)'
      BY <1>2 DEF Idle
    <2>3. QED BY <2>1, <2>2
  <1>9. \A q \in Procs : Idle(q)' => Emptied(q)'
    BY <1>1, <1>7 DEF CtlInv, Alone, TypeInv, Emptied
  <1>10. QED BY <1>3, <1>5, <1>6, <1>8, <1>9 DEF CtlInv, Alone, Emptied

\* A call of the helper begins.
LEMMA ControlHelperRuns ==
    ASSUME CtlInv, NEW steps, Busy(steps), NEW direct, HelperRuns(steps, direct)
    PROVE  CtlInv'
  <1>1. /\ ~IsCli /\ Idle(Main) /\ host' = host /\ past \subseteq past'
        /\ todo' = [todo EXCEPT ![Main] = steps]
        /\ past' \subseteq {"overlap", "direct", "reboot"}
        /\ ("overlap" \notin past' => "overlap" \notin past)
        /\ UNCHANGED <<os, file, store, iface, planned, tun, snap, shown, running, faults, stray>>
    BY DEF HelperRuns, CtlInv, TypeInv, memory
  <1>2. /\ \A q \in Procs : todo'[q] = IF q = Main THEN steps ELSE todo[q]
        /\ todo' \in [Procs -> Seq(GoodStep)]
    BY <1>1, GoodPrograms DEF CtlInv, TypeInv, Busy
  <1>3. Programs'
    BY <1>1, <1>2, SameHost DEF CtlInv, Programs, Busy
  <1>4. TypeInv'
    BY <1>1, <1>2 DEF CtlInv, TypeInv
  <1>5. ~IsCli'
    BY <1>1 DEF IsCli
  <1>6. \A q \in Procs \ {Main} : Idle(q)'
    BY <1>1, <1>2 DEF CtlInv, Alone, Idle
  <1>7. QED BY <1>3, <1>4, <1>5, <1>6 DEF CtlInv, Alone

\* The first step of a call after those that are about the key.
Then(s) == CASE s[1].do = "store truncate" -> s[4]
             [] s[1].do = "store write" -> s[3]
             [] OTHER -> s[2]
Begins(t, f) == Head(f).do \in {"load key", "take"} => After(t, Then(f))

\* A call begins with one of these steps; bring_up with a tunnel that is shown.
CliCall(p, w, f) ==
    /\ CliRuns(p, w, f) /\ Renamed(w, file.has)
    /\ Busy(f) /\ Head(f).do \in {"load key", "take", "truncate"} /\ Begins(FileTunnel, f)
\* ... or changes the identity of the helper.
HelperRenames == \E w : Renamed(w, snap[Main]) /\ HelperIdentifies(w)
FacadeCall(f) ==
    /\ Head(f).do \in {"load key", "take"} /\ Begins(tun[Main], f)
    /\ Last(f).do = IF Head(f).do = "load key" THEN "connected" ELSE "disconnected"
HelperCall(f) ==
    /\ HelperRuns(f, TRUE) \/ (HelperRuns(f, FALSE) /\ FacadeCall(f))
    /\ Busy(f)
    /\ Head(f).do \in {"load key", "take", "iface", "planned", "forget", "check up", "run",
                       "check down", "halt"}
    /\ Head(f).do \in {"check up", "run"} => shown # Nil /\ Head(f).c.ip = Nil
LEMMA CallShape ==
    ASSUME CtlInv, Calls
    PROVE  \/ StateClear
           \/ \E p \in Procs : \E w, f : CliCall(p, w, f)
           \/ \E f : HelperCall(f)
           \/ HelperRenames
  <1>1. host \in Hosts /\ file.has \in Snapshot /\ FileTunnel \in Ips \cup {Nil}
    BY DEF CtlInv, TypeInv, FileTunnel, Snapshot
  <1>2. NoPeers \in [Ips -> Keys \cup {Nil}]
    BY Nothing
  <1>3. ASSUME NEW f, Program(f), f # <<>>
        PROVE  Busy(f) /\ Head(f) = f[1]
    BY <1>3, TailProgram DEF Busy
  <1>4. ASSUME NEW f, Program(f), Len(f) >= 2
        PROVE  Program(f) /\ f # <<>>
    BY <1>4
  <1>5. ASSUME NEW p \in Procs, NEW c \in Configs, CliConnect(p, c)
        PROVE  CliCall(p, file.has, Finalize(FileTunnel, NoPeers, c))
    <2> DEFINE f == Finalize(FileTunnel, NoPeers, c)
    <2>1. Program(f) /\ Len(f) >= 2 /\ f[1].do = "load key" /\ After(FileTunnel, f[2])
      BY <1>1, <1>2, FinalizeProgram
    <2>2. CliRuns(p, file.has, f) /\ Renamed(file.has, file.has)
      BY <1>1, <1>5, Identities DEF CliConnect, Renamed
    <2> HIDE DEF f
    <2>3. Busy(f) /\ Head(f) = f[1]
      BY <1>3, <1>4, <2>1
    <2>4. CliCall(p, file.has, f)
      BY <2>1, <2>2, <2>3 DEF CliCall, Begins, Then
    <2>5. QED BY <2>4 DEF f
  <1>6. ASSUME NEW p \in Procs, CliDisconnect(p)
        PROVE  CliCall(p, file.has, Disconnecting(FileTunnel, NoPeers))
    <2> DEFINE f == Disconnecting(FileTunnel, NoPeers)
    <2>1. Program(f) /\ Len(f) >= 2 /\ f[1] = S("take", NoConfig) /\ After(FileTunnel, f[2])
      BY <1>1, <1>2, DisconnectProgram
    <2>2. CliRuns(p, file.has, f) /\ Renamed(file.has, file.has)
      BY <1>1, <1>6 DEF CliDisconnect, Renamed
    <2> HIDE DEF f
    <2>3. Busy(f) /\ Head(f) = f[1]
      BY <1>3, <1>4, <2>1
    <2>4. Head(f).do = "take"
      BY <2>1, <2>3, StepFacts
    <2>5. CliCall(p, file.has, f)
      BY <2>1, <2>2, <2>3, <2>4 DEF CliCall, Begins, Then
    <2>6. QED BY <2>5 DEF f
  <1>7. ASSUME NEW p \in Procs, NEW w, Renamed(w, file.has), CliRuns(p, w, Save)
        PROVE  CliCall(p, w, Save)
    <2>1. IsCli
      BY <1>7 DEF CliRuns
    <2>2. Program(Save) /\ Save # <<>> /\ Save[1].do = "truncate"
      BY <2>1, SaveProgram
    <2>3. QED BY <1>3, <1>7, <2>2 DEF CliCall, Begins
  <1>o. ASSUME NEW p \in Procs, CliOther(p)
        PROVE  CliCall(p, file.has, Save)
    BY <1>1, <1>7, <1>o DEF CliOther, Renamed
  <1>r. ASSUME NEW p \in Procs, NEW n \in Nodes, CliRegister(p, n)
        PROVE  \E w : CliCall(p, w, Save)
    <2>1. Renamed(Registered(file.has, n), file.has)
      BY <1>1, Identities
    <2>2. QED BY <1>7, <1>r, <2>1 DEF CliRegister
  <1>b. ASSUME NEW p \in Procs, NEW n \in Nodes, CliBootstrap(p, n)
        PROVE  \E w : CliCall(p, w, Save)
    <2>1. Renamed(Bootstrapped(file.has, n), file.has)
      BY <1>1, Identities
    <2>2. QED BY <1>7, <1>b, <2>1 DEF CliBootstrap
  <1>h. ASSUME NEW n \in Nodes, HelperRegister(n) \/ HelperBootstrap(n)
        PROVE  HelperRenames
    <2>1. snap[Main] \in Snapshot
      BY ProcsAssumption DEF CtlInv, TypeInv
    <2>2. /\ Renamed(Registered(snap[Main], n), snap[Main])
          /\ Renamed(Bootstrapped(snap[Main], n), snap[Main])
      BY <2>1, Identities
    <2>3. QED BY <1>h, <2>2 DEF HelperRegister, HelperBootstrap, HelperRenames
  <1>8. tun[Main] \in Ips \cup {Nil} /\ planned[Main] \in [Ips -> Keys \cup {Nil}]
    BY ProcsAssumption DEF CtlInv, TypeInv
  <1>9. ASSUME ~IsCli PROVE ~Linux
    BY <1>1, <1>9, LinuxIsCli
  <1>10. ASSUME NEW c \in Configs, HelperConnect(c)
         PROVE  HelperCall(Finalize(tun[Main], planned[Main], c))
    <2> DEFINE f == Finalize(tun[Main], planned[Main], c)
    <2>1. HelperRuns(f, FALSE) /\ ~Linux
      BY <1>9, <1>10 DEF HelperConnect, HelperRuns
    <2>2. /\ Program(f) /\ Len(f) >= 2 /\ f[1].do = "load key" /\ After(tun[Main], f[2])
          /\ Last(f).do = "connected"
      BY <1>1, <1>8, <2>1, FinalizeProgram DEF HelperRuns
    <2> HIDE DEF f
    <2>3. Busy(f) /\ Head(f) = f[1]
      BY <1>3, <1>4, <2>2
    <2>4. HelperCall(f)
      BY <2>1, <2>2, <2>3 DEF HelperCall, FacadeCall, Begins, Then
    <2>5. QED BY <2>4 DEF f
  <1>11. ASSUME HelperDisconnect
         PROVE  HelperCall(Disconnecting(tun[Main], planned[Main]))
    <2> DEFINE f == Disconnecting(tun[Main], planned[Main])
    <2>1. HelperRuns(f, FALSE) /\ ~Linux
      BY <1>9, <1>11 DEF HelperDisconnect, HelperRuns
    <2>2. /\ Program(f) /\ Len(f) >= 2 /\ f[1] = S("take", NoConfig) /\ After(tun[Main], f[2])
          /\ Last(f).do = "disconnected"
      BY <1>1, <1>8, <2>1, DisconnectProgram DEF HelperRuns
    <2> HIDE DEF f
    <2>3. Busy(f) /\ Head(f) = f[1]
      BY <1>3, <1>4, <2>2
    <2>4. Head(f).do = "take"
      BY <2>2, <2>3, StepFacts
    <2>5. HelperCall(f)
      BY <2>1, <2>2, <2>3, <2>4 DEF HelperCall, FacadeCall, Begins, Then
    <2>6. QED BY <2>5 DEF f
  <1>12. ASSUME NEW c \in Configs, c.ip # Nil, ApplyConfiguration(c)
         PROVE  HelperCall(ApplyInterface(c) \o ApplyPeer(c) \o <<S("show", c)>>)
    <2> DEFINE f == ApplyInterface(c) \o ApplyPeer(c) \o <<S("show", c)>>
    <2>1. c \in FullConfig /\ ~IsCli /\ HelperRuns(f, TRUE)
      BY <1>12, ConfigFacts DEF ApplyConfiguration, HelperRuns
    <2>2. Program(f) /\ f # <<>> /\ f[1].do \in {"iface", "planned"}
      BY <1>1, <2>1, ApplyConfigurationProgram
    <2> HIDE DEF f
    <2>3. HelperCall(f)
      BY <1>3, <2>1, <2>2 DEF HelperCall
    <2>4. QED BY <2>3 DEF f
  <1>13. ASSUME NEW i \in Ips, RemoveTunnelPeer(i)
         PROVE  HelperCall(ManagerClose(i, planned[Main]))
    <2> DEFINE f == ManagerClose(i, planned[Main])
    <2>1. HelperRuns(f, TRUE) /\ ~IsCli
      BY <1>13 DEF RemoveTunnelPeer, HelperRuns
    <2>2. Program(f) /\ f # <<>> /\ f[1].do = "forget"
      BY <1>1, <1>8, <2>1, RemovePeerProgram
    <2> HIDE DEF f
    <2>3. HelperCall(f)
      BY <1>3, <2>1, <2>2 DEF HelperCall
    <2>4. QED BY <2>3 DEF f
  <1>14. ASSUME BringTunnelUp
         PROVE  HelperCall(BringUp(NoConfig) \o <<S("run", NoConfig)>>)
    <2> DEFINE f == BringUp(NoConfig) \o <<S("run", NoConfig)>>
    <2>1. HelperRuns(f, TRUE) /\ ~IsCli /\ shown # Nil
      BY <1>14 DEF BringTunnelUp, HelperRuns
    <2>2. Program(f) /\ f # <<>> /\ f[1].do \in {"check up", "run"} /\ f[1].c.ip = Nil
      BY <1>1, <2>1, BringTunnelUpProgram, ConfigFacts
    <2> HIDE DEF f
    <2>3. HelperCall(f)
      BY <1>3, <2>1, <2>2 DEF HelperCall
    <2>4. QED BY <2>3 DEF f
  <1>15. ASSUME BringTunnelDown
         PROVE  HelperCall((IF shown = Nil THEN <<>> ELSE BringDown) \o <<S("halt", NoConfig)>>)
    <2> DEFINE f == (IF shown = Nil THEN <<>> ELSE BringDown) \o <<S("halt", NoConfig)>>
    <2>1. HelperRuns(f, TRUE) /\ ~IsCli
      BY <1>15 DEF BringTunnelDown, HelperRuns
    <2>2. Program(f) /\ f # <<>> /\ f[1].do \in {"check down", "halt"}
      BY <1>1, <2>1, BringTunnelDownProgram
    <2> HIDE DEF f
    <2>3. HelperCall(f)
      BY <1>3, <2>1, <2>2 DEF HelperCall
    <2>4. QED BY <2>3 DEF f
  <1>16. ASSUME NEW c \in Configs, HelperSync(c)
         PROVE  HelperConnect(c)
    BY <1>16 DEF HelperSync
  <1>17. QED
    BY <1>5, <1>6, <1>o, <1>r, <1>b, <1>h, <1>10, <1>11, <1>12, <1>13, <1>14, <1>15, <1>16
       DEF Calls

LEMMA ControlCalls ==
    ASSUME CtlInv, Calls
    PROVE  CtlInv'
  <1>1. ASSUME StateClear
        PROVE  CtlInv'
    <2>1. /\ IsCli /\ host' = host /\ todo' = todo /\ iface' = iface /\ tun' = tun /\ snap' = snap
          /\ past' = past /\ file' = NoFile /\ stray' = stray \cup ({FileTunnel} \ {Nil})
          /\ UNCHANGED <<os, store, planned, shown, running, faults>>
      BY <1>1 DEF StateClear, memory
    <2>f. FileTunnel \in Ips \cup {Nil}
      BY DEF CtlInv, TypeInv, FileTunnel, Snapshot
    <2>2. Programs'
      BY <2>1, SameHost DEF CtlInv, Programs
    <2>3. TypeInv'
      BY <2>1, <2>f, Nothing DEF CtlInv, TypeInv
    <2>4. Alone'
      BY <2>1 DEF CtlInv, Alone, Idle, IsCli
    <2>5. QED BY <2>2, <2>3, <2>4 DEF CtlInv
  <1>2. ASSUME NEW p \in Procs, NEW w, NEW f, CliCall(p, w, f)
        PROVE  CtlInv'
    BY <1>2, ControlCliRuns DEF CliCall
  <1>3. ASSUME NEW f, HelperCall(f)
        PROVE  CtlInv'
    BY <1>3, ControlHelperRuns DEF HelperCall
  <1>4. ASSUME NEW w, Renamed(w, snap[Main]), HelperIdentifies(w)
        PROVE  CtlInv'
    <2>1. /\ ~IsCli /\ host' = host /\ todo' = todo /\ snap' = [snap EXCEPT ![Main] = w]
          /\ past' = past /\ stray' = stray
          /\ UNCHANGED <<os, file, store, iface, planned, tun, shown, running, faults>>
      BY <1>4 DEF HelperIdentifies, history
    <2>2. Programs'
      BY <2>1, SameHost DEF CtlInv, Programs
    <2>3. TypeInv'
      BY <1>4, <2>1 DEF CtlInv, TypeInv, Renamed
    <2>4. Alone'
      BY <2>1 DEF CtlInv, Alone, Idle, IsCli
    <2>5. QED BY <2>2, <2>3, <2>4 DEF CtlInv
  <1>5. QED BY <1>1, <1>2, <1>3, <1>4, CallShape DEF HelperRenames

\* The steps with a configuration, and those with a private key.
LEMMA GoodStepFacts ==
    ASSUME NEW x \in GoodStep
    PROVE  /\ x.do \in FullOps => /\ x.c \in FullConfig /\ x.c.ip \in Ips /\ x.c.key \in Keys
                                  /\ x.c.local \in Locals
           /\ x.do \in FullOps \cup PlainOps =>
                x.c \in Config /\ x.c.ip \in Ips \cup {Nil} /\ x.c.key \in Keys \cup {Nil}
           /\ x.do \in KeyOps => x.s \in Secrets /\ x.keys \in KeyTable
           /\ x.do \in FullOps \cup PlainOps \cup KeyOps
  <1>1. CASE x \in [do : FullOps, c : FullConfig]
    BY <1>1, ConfigFacts DEF FullOps, KeyOps, PlainOps, FullConfig, Config
  <1>2. CASE x \in [do : PlainOps, c : Config]
    BY <1>2 DEF FullOps, KeyOps, PlainOps, Config
  <1>3. CASE x \in [do : KeyOps, s : Secrets, keys : KeyTable]
    BY <1>3 DEF FullOps, KeyOps, PlainOps
  <1>4. QED BY <1>1, <1>2, <1>3 DEF GoodStep

LEMMA ControlOsStep ==
    ASSUME CtlInv, NEW p \in Procs, OsStep(p)
    PROVE  CtlInv'
  <1> DEFINE ops == OsOps \ {"set address"}
             x == todo[p][1]
  <1>1. /\ AtStep(p, ops) /\ Advance(p) /\ os' = Programmed(Head(todo[p]), snap[p].key)
        /\ UNCHANGED <<host, file, store, iface, planned, tun, snap, shown, running, faults, past,
                       stray>>
    BY DEF OsStep, memory, history
  <1>2. x \in GoodStep /\ x.do \in ops /\ Head(todo[p]) = x
    BY <1>1, HeadFacts
  <1>3. Programs' /\ Alone' /\ todo' \in [Procs -> Seq(GoodStep)]
    <2>1. "write" \notin ops
      BY DEF OsOps
    <2>2. Apart(p)
      BY <1>1 DEF Apart
    <2> HIDE DEF ops
    <2>3. QED BY <1>1, <2>1, <2>2, ControlAdvances
  <1>4. os \in System /\ snap[p].key \in Secrets \cup {Nil}
    BY DEF CtlInv, TypeInv, Snapshot
  <1> HIDE DEF x
  <1>5. Programmed(x, snap[p].key) \in System
    <2>1. x.do \in FullOps => x.c.ip \in Ips /\ x.c.key \in Keys /\ x.c.local \in Locals
      BY <1>2, GoodStepFacts
    <2>2. x.do \in ops
      BY <1>2
    <2>3. CASE x.do \in {"link add", "link up", "link down", "mtu"}
      BY <1>4, <2>3 DEF Programmed, System
    <2>4. CASE x.do = "private key"
      BY <1>4, <2>4 DEF Programmed, System
    <2>5. CASE x.do = "address"
      BY <1>4, <2>1, <2>5 DEF Programmed, System, FullOps
    <2>6. CASE x.do = "wg peer"
      BY <1>4, <2>1, <2>6 DEF Programmed, System, FullOps
    <2>7. CASE x.do = "route"
      BY <1>4, <2>1, <2>7 DEF Programmed, System, FullOps
    <2>8. CASE x.do = "wg remove"
      BY <1>4, <2>8 DEF Programmed, System
    <2>9. CASE x.do = "route del"
      BY <1>4, <2>9 DEF Programmed, System
    <2>10. QED BY <2>2, <2>3, <2>4, <2>5, <2>6, <2>7, <2>8, <2>9 DEF OsOps
  <1>6. TypeInv'
    <2>1. os' \in System
      BY <1>1, <1>2, <1>5
    <2>2. QED BY <1>1, <1>3, <2>1 DEF CtlInv, TypeInv
  <1>7. QED BY <1>3, <1>6 DEF CtlInv

LEMMA ControlWindowsStep ==
    ASSUME CtlInv, NEW p \in Procs, WindowsStep(p)
    PROVE  CtlInv'
  <1> DEFINE ops == {"set address", "drop address"}
  <1>1. /\ AtStep(p, ops) /\ Advance(p) /\ iface[p] # Nil
        /\ UNCHANGED <<host, file, store, iface, planned, tun, snap, shown, running, faults, past,
                       stray>>
    BY DEF WindowsStep, memory, history
  <1>2. \E a \in SUBSET Locals : os' = [os EXCEPT !.addrs = a]
    <2>1. iface[p].local \in Locals /\ os.addrs \subseteq Locals
      BY <1>1 DEF CtlInv, TypeInv, System
    <2>2. CASE Head(todo[p]).do = "set address"
      BY <2>1, <2>2 DEF WindowsStep
    <2>3. CASE Head(todo[p]).do = "drop address"
      <3>1. PICK gone : os' = [os EXCEPT !.addrs = @ \ gone]
        BY <2>3 DEF WindowsStep
      <3>2. os' = [os EXCEPT !.addrs = os.addrs \ gone]
        BY <3>1
      <3>3. QED BY <2>1, <3>2
    <2>4. QED BY <2>2, <2>3 DEF WindowsStep
  <1>3. Programs' /\ Alone' /\ todo' \in [Procs -> Seq(GoodStep)]
    <2>1. "write" \notin ops
      OBVIOUS
    <2>2. Apart(p)
      BY <1>1 DEF Apart
    <2> HIDE DEF ops
    <2>3. QED BY <1>1, <2>1, <2>2, ControlAdvances
  <1>4. os' \in System
    BY <1>2 DEF CtlInv, TypeInv, System
  <1>5. TypeInv'
    BY <1>1, <1>3, <1>4 DEF CtlInv, TypeInv
  <1>6. QED BY <1>3, <1>5 DEF CtlInv

LEMMA ControlBackendStep ==
    ASSUME CtlInv, NEW p \in Procs, BackendStep(p)
    PROVE  CtlInv'
  <1> DEFINE ops == NeedIface \cup {"validate", "iface", "up", "down", "planned", "forget"}
             x == todo[p][1]
  <1>1. /\ AtStep(p, ops) /\ Advance(p)
        /\ UNCHANGED <<host, os, file, store, tun, snap, shown, running, faults, past,
                       stray>>
    BY DEF BackendStep, history
  <1>2. x \in GoodStep /\ x.do \in ops /\ Head(todo[p]) = x
    BY <1>1, HeadFacts
  <1>3. /\ iface' = CASE x.do = "iface" ->
                              [iface EXCEPT ![p] = [local |-> x.c.local, up |-> FALSE]]
                         [] x.do \in {"up", "down"} /\ iface[p] # Nil ->
                              [iface EXCEPT ![p].up = (x.do = "up")]
                         [] OTHER -> iface
        /\ planned' = CASE x.do = "planned" -> [planned EXCEPT ![p][x.c.ip] = x.c.key]
                        [] x.do = "forget" -> [planned EXCEPT ![p][x.c.ip] = Nil]
                        [] OTHER -> planned
    BY <1>2 DEF BackendStep
  <1> HIDE DEF x
  <1>4. /\ iface' \in [Procs -> {Nil} \cup [local : Locals, up : BOOLEAN]]
        /\ \A q \in Procs \ {p} : iface'[q] = iface[q]
    <2>1. x.do = "iface" => x.c.local \in Locals
      BY <1>2, GoodStepFacts DEF FullOps
    <2>2. iface \in [Procs -> {Nil} \cup [local : Locals, up : BOOLEAN]]
      BY DEF CtlInv, TypeInv
    <2>3. CASE x.do = "iface"
      BY <1>3, <2>1, <2>2, <2>3
    <2>4. CASE x.do \in {"up", "down"} /\ iface[p] # Nil
      <3>1. iface[p] \in [local : Locals, up : BOOLEAN]
        BY <2>2, <2>4
      <3>2. iface' = [iface EXCEPT ![p] = [iface[p] EXCEPT !.up = (x.do = "up")]]
        BY <1>3, <2>2, <2>4
      <3>3. QED BY <2>2, <3>1, <3>2
    <2>5. CASE x.do # "iface" /\ ~(x.do \in {"up", "down"} /\ iface[p] # Nil)
      BY <1>3, <2>2, <2>5
    <2>6. QED BY <2>3, <2>4, <2>5
  <1>5. planned' \in [Procs -> [Ips -> Keys \cup {Nil}]]
    <2>1. x.do = "planned" => x.c.key \in Keys
      BY <1>2, GoodStepFacts DEF FullOps
    <2>2. planned \in [Procs -> [Ips -> Keys \cup {Nil}]]
      BY DEF CtlInv, TypeInv
    <2>3. CASE x.do = "planned"
      <3>1. planned' = [planned EXCEPT ![p] = [planned[p] EXCEPT ![x.c.ip] = x.c.key]]
        BY <1>3, <2>2, <2>3
      <3>2. QED BY <2>1, <2>2, <2>3, <3>1
    <2>4. CASE x.do = "forget"
      <3>1. planned' = [planned EXCEPT ![p] = [planned[p] EXCEPT ![x.c.ip] = Nil]]
        BY <1>3, <2>2, <2>4
      <3>2. QED BY <2>2, <3>1
    <2>5. CASE x.do \notin {"planned", "forget"}
      BY <1>3, <2>2, <2>5
    <2>6. QED BY <2>3, <2>4, <2>5
  <1>6. Programs' /\ Alone' /\ todo' \in [Procs -> Seq(GoodStep)]
    <2>1. "write" \notin ops
      BY DEF NeedIface
    <2>2. Apart(p)
      BY <1>1, <1>4 DEF Apart
    <2> HIDE DEF ops
    <2>3. QED BY <1>1, <2>1, <2>2, ControlAdvances
  <1>7. TypeInv'
    BY <1>1, <1>4, <1>5, <1>6 DEF CtlInv, TypeInv
  <1>8. QED BY <1>6, <1>7 DEF CtlInv

LEMMA ControlFacadeStep ==
    ASSUME CtlInv, NEW p \in Procs, FacadeStep(p)
    PROVE  CtlInv'
  <1> DEFINE ops == {"take", "tunnel", "connected", "disconnected", "key", "send"}
             x == todo[p][1]
  <1>1. /\ AtStep(p, ops) /\ Advance(p)
        /\ UNCHANGED <<host, os, file, store, iface, planned, shown, running, faults, past, stray>>
    BY DEF FacadeStep, history
  <1>2. x \in GoodStep /\ x.do \in ops /\ Head(todo[p]) = x
    BY <1>1, HeadFacts
  <1>3. /\ tun' = IF x.do \in {"take", "tunnel"} THEN [tun EXCEPT ![p] = x.c.ip] ELSE tun
        /\ snap' = CASE x.do \in {"take", "tunnel", "send"} -> snap
                     [] x.do = "connected" -> [snap EXCEPT ![p].tun = tun[p]]
                     [] x.do = "disconnected" -> [snap EXCEPT ![p].tun = Nil]
                     [] x.do = "key" ->
                          [snap EXCEPT ![p] = [@ EXCEPT !.key = x.s, !.of = snap[p].node]]
    BY <1>2 DEF FacadeStep
  <1> HIDE DEF x
  <1>4. tun' \in [Procs -> Ips \cup {Nil}] /\ \A q \in Procs \ {p} : tun'[q] = tun[q]
    <2>1. x.do \in {"take", "tunnel"} => x.c.ip \in Ips \cup {Nil}
      BY <1>2, GoodStepFacts DEF PlainOps
    <2>2. QED BY <1>3, <2>1 DEF CtlInv, TypeInv
  <1>5. snap' \in [Procs -> Snapshot] /\ \A q \in Procs \ {p} : snap'[q] = snap[q]
    <2>1. x.do = "key" => x.s \in Secrets
      BY <1>2, GoodStepFacts DEF KeyOps
    <2>2. x.do \in ops
      BY <1>2
    <2>3. QED BY <1>3, <2>1, <2>2 DEF CtlInv, TypeInv, Snapshot
  <1>6. Programs' /\ Alone' /\ todo' \in [Procs -> Seq(GoodStep)]
    <2>1. "write" \notin ops
      OBVIOUS
    <2>2. Apart(p)
      BY <1>1, <1>4, <1>5 DEF Apart
    <2> HIDE DEF ops
    <2>3. QED BY <1>1, <2>1, <2>2, ControlAdvances
  <1>7. TypeInv'
    BY <1>1, <1>4, <1>5, <1>6 DEF CtlInv, TypeInv
  <1>8. QED BY <1>6, <1>7 DEF CtlInv

LEMMA ControlHelperStep ==
    ASSUME CtlInv, NEW p \in Procs, HelperStep(p)
    PROVE  CtlInv'
  <1> DEFINE ops == {"show", "hide", "run", "halt"}
             x == todo[p][1]
  <1>1. /\ AtStep(p, ops) /\ Advance(p)
        /\ UNCHANGED <<host, os, file, store, iface, planned, tun, snap, faults, past, stray>>
    BY DEF HelperStep, memory, history
  <1>2. x \in GoodStep /\ x.do \in ops /\ Head(todo[p]) = x
    BY <1>1, HeadFacts
  <1>3. shown' \in Ips \cup {Nil} /\ running' \in BOOLEAN
    <2>1. x.do = "show" => x.c.ip \in Ips
      BY <1>2, GoodStepFacts DEF FullOps
    <2>2. shown' \in {x.c.ip, Nil, shown} /\ (x.do # "show" => shown' \in {Nil, shown})
      BY <1>2 DEF HelperStep
    <2>3. running' \in {TRUE, FALSE, running}
      BY DEF HelperStep
    <2>4. QED BY <2>1, <2>2, <2>3 DEF CtlInv, TypeInv
  <1>4. Programs' /\ Alone' /\ todo' \in [Procs -> Seq(GoodStep)]
    <2>1. "write" \notin ops
      OBVIOUS
    <2>2. Apart(p)
      BY <1>1 DEF Apart
    <2> HIDE DEF ops
    <2>3. QED BY <1>1, <2>1, <2>2, ControlAdvances
  <1>5. TypeInv'
    BY <1>1, <1>3, <1>4 DEF CtlInv, TypeInv
  <1>6. QED BY <1>4, <1>5 DEF CtlInv

Keyed(p, r) == /\ todo' = [todo EXCEPT ![p] = r] /\ Busy(r) /\ Head(r).do \in KeyOps
               /\ Then(r) = Then(todo[p]) /\ Last(r) = Last(todo[p])
LEMMA LoadKeyMoves ==
    ASSUME CtlInv, NEW p \in Procs, LoadKey(p)
    PROVE  /\ Busy(todo[p]) /\ Head(todo[p]).do = "load key"
           /\ UNCHANGED <<host, os, file, store, iface, planned, tun, snap, shown, running,
                          faults, past, stray>>
           /\ Advance(p) \/ \E r : Keyed(p, r)
  <1>1. /\ AtStep(p, {"load key"})
        /\ UNCHANGED <<host, os, file, store, iface, planned, tun, snap, shown, running, faults, past,
                       stray>>
    BY DEF LoadKey, memory, history
  <1>2. Busy(todo[p]) /\ Head(todo[p]) = todo[p][1] /\ todo[p][1].do \in {"load key"}
    BY <1>1, HeadFacts
  <1>3. AtKey(todo[p])
    BY <1>2 DEF AtKey
  <1>4. ASSUME NEW e \in Secrets, NEW m \in KeyTable,
               todo' = [todo EXCEPT ![p] = Found(todo[p], e, m)]
        PROVE  Keyed(p, Found(todo[p], e, m))
    <2> DEFINE r == Found(todo[p], e, m)
    <2>1. Busy(r) /\ r[1] = KeyStep("key", e, m) /\ Last(r) = Last(todo[p]) /\ r[2] = todo[p][2]
      BY <1>2, <1>3, FoundKey
    <2>2. KeyStep("key", e, m).do = "key"
      BY DEF KeyStep
    <2> HIDE DEF r
    <2>3. Head(r) = r[1]
      BY <2>1, TailProgram
    <2>4. Then(r) = Then(todo[p])
      BY <1>2, <2>1, <2>2 DEF Then
    <2>5. QED BY <1>4, <2>1, <2>2, <2>3, <2>4 DEF Keyed, KeyOps, r
  <1>5. ASSUME NEW e \in Secrets, NEW m \in KeyTable,
               todo' = [todo EXCEPT ![p] = Generated(todo[p], e, m)]
        PROVE  Keyed(p, Generated(todo[p], e, m))
    <2> DEFINE r == Generated(todo[p], e, m)
    <2>1. /\ Busy(r) /\ r[1] = KeyStep("store truncate", e, m) /\ Last(r) = Last(todo[p])
          /\ r[4] = todo[p][2]
      BY <1>2, <1>3, NewKey
    <2>2. KeyStep("store truncate", e, m).do = "store truncate"
      BY DEF KeyStep
    <2> HIDE DEF r
    <2>3. Head(r) = r[1]
      BY <2>1, TailProgram
    <2>4. Then(r) = Then(todo[p])
      BY <1>2, <2>1, <2>2 DEF Then
    <2>5. QED BY <1>5, <2>1, <2>2, <2>3, <2>4 DEF Keyed, KeyOps, r
  <1>6. \/ Advance(p)
        \/ \E e \in Secrets : \E m \in KeyTable :
              \/ todo' = [todo EXCEPT ![p] = Found(todo[p], e, m)]
              \/ todo' = [todo EXCEPT ![p] = Generated(todo[p], e, m)]
    <2>1. store.has \in KeyTable /\ snap[p].node \in Nodes \cup {Nil}
      BY DEF CtlInv, TypeInv, Snapshot
    <2>2. snap[p].node # Nil => /\ StoredKey(p) \in Secrets \cup {Nil}
                               /\ \A e \in Secrets : NewKeys(p, e) \in KeyTable
      BY <2>1 DEF StoredKey, NewKeys, KeyTable
    <2>3. CASE Advance(p)
      BY <2>3
    <2>4. CASE todo' = [todo EXCEPT ![p] = <<KeyStep("key", StoredKey(p), store.has)>> \o Tail(@)]
               /\ StoredKey(p) # Nil
      <3>1. todo' = [todo EXCEPT ![p] = Found(todo[p], StoredKey(p), store.has)]
        BY <2>4 DEF Found
      <3>2. StoredKey(p) \in Secrets
        BY <2>2, <2>4 DEF LoadKey
      <3>3. QED BY <2>1, <3>1, <3>2
    <2>5. ASSUME NEW e \in Secrets,
                 todo' = [todo EXCEPT ![p] = <<KeyStep("store truncate", e, NewKeys(p, e)),
                                               KeyStep("store write", e, NewKeys(p, e)),
                                               KeyStep("key", e, NewKeys(p, e))>> \o Tail(@)]
          PROVE  \E m \in KeyTable : todo' = [todo EXCEPT ![p] = Generated(todo[p], e, m)]
      <3>1. todo' = [todo EXCEPT ![p] = Generated(todo[p], e, NewKeys(p, e))]
        BY <2>5 DEF Generated
      <3>2. NewKeys(p, e) \in KeyTable
        BY <2>2 DEF LoadKey
      <3>3. QED BY <3>1, <3>2
    <2>6. QED BY <2>3, <2>4, <2>5 DEF LoadKey
  <1>7. QED BY <1>1, <1>2, <1>4, <1>5, <1>6

\* The steps about the key leave the rest of the call as it is.
KeyPhase(s) == s[1].do \in KeyOps \cup {"load key"}
LEMMA ThenStays ==
    ASSUME NEW s, Busy(s), KeyPhase(s)
    PROVE  /\ Busy(Tail(s))
           /\ s[1].do \in {"load key", "key"} => Head(Tail(s)) = Then(s)
           /\ s[1].do \in {"store truncate", "store write"} => Then(Tail(s)) = Then(s)
  <1>1. s[1].do \notin Ends
    BY DEF KeyOps, Ends, KeyPhase
  <1>2. /\ Busy(Tail(s)) /\ Flow(s[1], Tail(s)[1]) /\ Len(s) \in Nat /\ Len(s) >= 2
        /\ Len(Tail(s)) = Len(s) - 1 /\ Tail(s)[1] = s[2]
    BY <1>1, TailProgram DEF Busy
  <1>3. Head(Tail(s)) = Tail(s)[1]
    BY <1>2, TailProgram
  <1>4. s[1].do \in {"load key", "key"} => Head(Tail(s)) = Then(s)
    BY <1>2, <1>3 DEF Then
  <1>5. ASSUME s[1].do = "store write"
        PROVE  Then(Tail(s)) = Then(s)
    <2>1. Tail(s)[1].do = "key"
      BY <1>2, <1>5 DEF Flow
    <2>2. "key" \notin Ends
      BY DEF Ends
    <2>3. Len(Tail(s)) >= 2
      BY <1>2, <2>1, <2>2, TailProgram
    <2>4. Tail(s)[2] = s[2 + 1]
      <3>1. 2 \in 1..(Len(s) - 1) /\ \A k \in 1..(Len(s) - 1) : Tail(s)[k] = s[k + 1]
        BY <1>2, <2>3, TailProgram
      <3>2. QED BY <3>1
    <2>5. Then(s) = s[3] /\ Then(Tail(s)) = Tail(s)[2]
      BY <1>5, <2>1 DEF Then
    <2>6. Tail(s)[2] = s[3]
      <3> DEFINE t == Tail(s)
      <3>1. t[2] = s[2 + 1]
        BY <2>4
      <3> HIDE DEF t
      <3>2. t[2] = s[3]
        BY <3>1
      <3>3. QED BY <3>2 DEF t
    <2>7. QED BY <2>5, <2>6
  <1>6. ASSUME s[1].do = "store truncate"
        PROVE  Then(Tail(s)) = Then(s)
    <2> DEFINE t == Tail(s)
               u == Tail(t)
    <2>1. t[1].do = "store write"
      BY <1>2, <1>6 DEF Flow
    <2>2. "store write" \notin Ends /\ "key" \notin Ends
      BY DEF Ends
    <2>3. Busy(t) /\ Len(t) = Len(s) - 1
      BY <1>2
    <2> HIDE DEF t
    <2>4. /\ Busy(u) /\ Flow(t[1], u[1]) /\ Len(t) \in Nat /\ Len(u) = Len(t) - 1
      BY <2>1, <2>2, <2>3, TailProgram DEF Busy
    <2> HIDE DEF u
    <2>5. u[1].do = "key"
      BY <2>1, <2>4 DEF Flow
    <2>6. Len(u) >= 2
      BY <2>2, <2>4, <2>5, TailProgram
    <2>7. 3 \in 1..(Len(s) - 1)
      <3>1. Len(s) \in Nat /\ Len(t) = Len(s) - 1 /\ Len(u) = Len(t) - 1 /\ Len(u) >= 2
        BY <1>2, <2>3, <2>4, <2>6
      <3>2. QED BY <3>1
    <2>8. t[3] = s[3 + 1]
      <3>1. \A k \in 1..(Len(s) - 1) : t[k] = s[k + 1]
        BY TailProgram DEF t
      <3>2. QED BY <2>7, <3>1
    <2>9. Then(s) = s[4] /\ Then(t) = t[3]
      BY <1>6, <2>1 DEF Then
    <2>10. t[3] = s[4]
      BY <2>8
    <2>11. Then(t) = Then(s)
      BY <2>9, <2>10
    <2>12. QED BY <2>11 DEF t
  <1>7. QED BY <1>2, <1>4, <1>5, <1>6

LEMMA ControlLoadKey ==
    ASSUME CtlInv, NEW p \in Procs, LoadKey(p)
    PROVE  CtlInv'
  <1>1. /\ AtStep(p, {"load key"})
        /\ UNCHANGED <<host, os, file, store, iface, planned, tun, snap, shown, running, faults, past,
                       stray>>
    BY DEF LoadKey, memory, history
  <1>2. Apart(p)
    BY <1>1 DEF Apart
  <1>3. Programs' /\ Alone' /\ todo' \in [Procs -> Seq(GoodStep)]
    <2>1. CASE Advance(p)
      BY <1>1, <1>2, <2>1, ControlAdvances
    <2>2. ASSUME NEW r, Keyed(p, r)
          PROVE  Programs' /\ Alone' /\ todo' \in [Procs -> Seq(GoodStep)]
      <3>1. Left(p, r) /\ Program(r)
        BY <1>1, <2>2 DEF Left, Keyed, Busy, AtStep
      <3>2. QED BY <1>1, <1>2, <3>1, ControlMoves
    <2>3. QED BY <2>1, <2>2, LoadKeyMoves
  <1>4. TypeInv'
    BY <1>1, <1>3 DEF CtlInv, TypeInv
  <1>5. QED BY <1>3, <1>4 DEF CtlInv

\* What Exit leaves of the memory has its type.
LEMMA ExitTypes ==
    ASSUME CtlInv, NEW p \in Procs, Exit(p) \/ UNCHANGED memory
    PROVE  /\ iface' \in [Procs -> {Nil} \cup [local : Locals, up : BOOLEAN]]
           /\ planned' \in [Procs -> [Ips -> Keys \cup {Nil}]]
           /\ tun' \in [Procs -> Ips \cup {Nil}]
           /\ snap' \in [Procs -> Snapshot]
  <1>1. CASE UNCHANGED memory
    BY <1>1 DEF CtlInv, TypeInv, memory
  <1>2. CASE Exit(p)
    BY <1>2, Nothing DEF CtlInv, TypeInv, Exit
  <1>3. QED BY <1>1, <1>2

LEMMA ControlFileStep ==
    ASSUME CtlInv, NEW p \in Procs, FileStep(p)
    PROVE  CtlInv'
  <1> DEFINE x == todo[p][1]
  <1>1. /\ AtStep(p, FileOps) /\ UNCHANGED <<host, os, shown, running, faults, past, stray>>
        /\ IF Len(todo[p]) = 1 THEN Exit(p) ELSE Advance(p) /\ UNCHANGED memory
    BY DEF FileStep, history
  <1>2. x \in GoodStep /\ x.do \in FileOps /\ Head(todo[p]) = x /\ Busy(todo[p])
    BY <1>1, HeadFacts
  <1>3. Programs' /\ Alone' /\ todo' \in [Procs -> Seq(GoodStep)]
    <2>1. CASE Len(todo[p]) = 1
      BY <1>1, <2>1, ControlExits
    <2>2. CASE Len(todo[p]) # 1
      <3>1. Advance(p) /\ Apart(p)
        BY <1>1, <2>2 DEF memory, Apart
      <3>2. x.do # "write"
        <4>1. Flow(todo[p][1], Tail(todo[p])[1])
          BY <1>2, <2>2, TailProgram
        <4>2. QED BY <4>1 DEF Flow
      <3>3. AtStep(p, FileOps \ {"write"})
        BY <1>1, <1>2, <3>2 DEF AtStep
      <3>4. QED BY <1>1, <3>1, <3>3, ControlAdvances
    <2>3. QED BY <2>1, <2>2
  <1>4. file' \in [is : {"absent", "torn", "saved"}, has : Snapshot]
    BY <1>2 DEF FileStep, CtlInv, TypeInv, Fresh, Snapshot
  <1>5. store' \in [torn : BOOLEAN, has : KeyTable]
    <2>1. x.do = "store write" => x.keys \in KeyTable
      BY <1>2, GoodStepFacts DEF KeyOps
    <2>3. store \in [torn : BOOLEAN, has : KeyTable]
      BY DEF CtlInv, TypeInv
    <2>4. NoKeys \in KeyTable
      BY Nothing
    <2>5. CASE x.do = "store write"
      <3>1. store' = [torn |-> FALSE, has |-> x.keys]
        BY <1>2, <2>5 DEF FileStep
      <3>2. QED BY <2>1, <2>5, <3>1
    <2>2. CASE x.do = "store truncate"
      <3>1. store' = [torn |-> TRUE, has |-> NoKeys]
        BY <1>2, <2>2 DEF FileStep
      <3>2. QED BY <2>4, <3>1
    <2>6. CASE x.do \notin {"store truncate", "store write"}
      <3>1. store' = store
        BY <1>2, <2>6 DEF FileStep
      <3>2. QED BY <2>3, <3>1
    <2>7. QED BY <2>2, <2>5, <2>6
  <1>6. TypeInv'
    <2>1. Exit(p) \/ UNCHANGED memory
      BY <1>1
    <2>2. QED BY <1>1, <1>3, <1>4, <1>5, <2>1, ExitTypes DEF CtlInv, TypeInv
  <1>7. QED BY <1>3, <1>6 DEF CtlInv

\* Errors, kills and restarts.
LEMMA ControlFaults ==
    ASSUME CtlInv,
           Reboot \/ \E p \in Procs : Refused(p) \/ SendFails(p) \/ StepFails(p) \/ Kill(p)
    PROVE  CtlInv'
  <1>1. ASSUME NEW p \in Procs, Refused(p) \/ SendFails(p) \/ StepFails(p) \/ Kill(p)
        PROVE  CtlInv'
    <2>1. /\ Exit(p) \/ (~IsCli /\ todo' = [todo EXCEPT ![p] = <<>>] /\ UNCHANGED memory)
          /\ UNCHANGED <<host, os, file, store>>
          /\ shown' \in {Nil, shown} /\ running' \in {FALSE, running}
          /\ past' = past /\ faults' \in {faults, faults + 1}
          /\ stray' \in {stray, {}, stray \cup Asked(p)}
      BY <1>1 DEF Refused, SendFails, StepFails, Kill, Abort, history
    <2>2. Programs' /\ Alone' /\ todo' \in [Procs -> Seq(GoodStep)]
      BY <2>1, ControlExits
    <2>3. TypeInv'
      <3>1. Exit(p) \/ UNCHANGED memory
        BY <2>1
      <3>2. /\ iface' \in [Procs -> {Nil} \cup [local : Locals, up : BOOLEAN]]
            /\ planned' \in [Procs -> [Ips -> Keys \cup {Nil}]]
            /\ tun' \in [Procs -> Ips \cup {Nil}]
            /\ snap' \in [Procs -> Snapshot]
        BY <3>1, ExitTypes
      <3>3. /\ shown' \in Ips \cup {Nil} /\ running' \in BOOLEAN
            /\ past' \subseteq {"overlap", "direct", "reboot"} /\ stray' \subseteq Ips
        BY <2>1, AskedTypes DEF CtlInv, TypeInv
      <3>4. faults' \in Nat
        BY <2>1 DEF CtlInv, TypeInv
      <3>5. QED BY <2>1, <2>2, <3>2, <3>3, <3>4 DEF CtlInv, TypeInv
    <2>4. QED BY <2>2, <2>3 DEF CtlInv
  <1>2. ASSUME Reboot
        PROVE  CtlInv'
    <2>1. /\ host' = host /\ UNCHANGED <<file, store>> /\ os' \in {NoSystem, os}
          /\ todo' = [p \in Procs |-> <<>>] /\ shown' = Nil /\ running' = FALSE
          /\ faults' = faults + 1 /\ past' = past \cup {"reboot"} /\ stray' = {}
          /\ iface' = [p \in Procs |-> Nil] /\ planned' = [p \in Procs |-> NoPeers]
          /\ tun' = [p \in Procs |-> Nil] /\ snap' = [p \in Procs |-> Fresh]
      BY <1>2 DEF Reboot
    <2>2. Program(<<>>)
      BY DEF Program, Path
    <2>3. Programs'
      BY <2>1, <2>2, SameHost
    <2>4. Alone'
      BY <2>1 DEF Alone, Idle
    <2>5. todo' \in [Procs -> Seq(GoodStep)]
      BY <2>1
    <2>6. TypeInv'
      <3>1. /\ iface' \in [Procs -> {Nil} \cup [local : Locals, up : BOOLEAN]]
            /\ planned' \in [Procs -> [Ips -> Keys \cup {Nil}]]
            /\ tun' \in [Procs -> Ips \cup {Nil}]
            /\ snap' \in [Procs -> Snapshot]
        BY <2>1, Nothing
      <3>2. /\ faults' \in Nat /\ past' \subseteq {"overlap", "direct", "reboot"}
            /\ os' \in System
        BY <2>1, Nothing DEF CtlInv, TypeInv
      <3>3. QED BY <2>1, <2>5, <3>1, <3>2 DEF CtlInv, TypeInv
    <2>7. QED BY <2>3, <2>4, <2>6 DEF CtlInv
  <1>3. QED BY <1>1, <1>2

LEMMA ControlInit ==
    ASSUME Init
    PROVE  CtlInv
  <1>1. Program(<<>>)
    BY DEF Program, Path
  <1>2. Programs /\ Alone
    BY <1>1 DEF Init, Programs, Alone, Idle
  <1>3. todo \in [Procs -> Seq(GoodStep)]
    BY DEF Init
  <1>4. TypeInv
    BY <1>3, Nothing DEF Init, TypeInv
  <1>5. QED BY <1>2, <1>4 DEF CtlInv

LEMMA ControlNext ==
    ASSUME CtlInv, [Next]_vars
    PROVE  CtlInv'
  <1>1. CASE Calls
    BY <1>1, ControlCalls
  <1>2. CASE Reboot
    BY <1>2, ControlFaults
  <1>3. ASSUME NEW p \in Procs, Steps(p) \/ StepFails(p) \/ Kill(p)
        PROVE  CtlInv'
    BY <1>3, ControlOsStep, ControlWindowsStep, ControlBackendStep, ControlFacadeStep,
       ControlLoadKey, ControlFileStep, ControlHelperStep, ControlFaults DEF Steps
  <1>4. CASE UNCHANGED vars
    <2>1. /\ UNCHANGED <<host, os, file, store, todo, iface, planned, tun, snap, shown, running,
                         faults, past, stray>>
      BY <1>4 DEF vars, history
    <2>2. Programs'
      BY <2>1, SameHost DEF CtlInv, Programs
    <2>3. TypeInv' /\ Alone'
      BY <2>1 DEF CtlInv, TypeInv, Alone, Idle, IsCli
    <2>4. QED BY <2>2, <2>3 DEF CtlInv
  <1>5. QED BY <1>1, <1>2, <1>3, <1>4 DEF Next

\* The control invariant: whatever fails, is killed or restarts in between,
\* what each process still has to do is a path of the control flow graph, at
\* most one process is in a call until two commands overlap, and a command
\* line process that has ended has left no memory.
THEOREM CallsFollowTheirPath == Spec => []CtlInv
  <1>1. Init => CtlInv
    BY ControlInit
  <1>2. CtlInv /\ [Next]_vars => CtlInv'
    BY ControlNext
  <1>3. QED BY <1>1, <1>2, PTL DEF Spec

\* Type correctness: the host, its backend, the files and the operating
\* system have their types, and a call only holds steps of the code.
THEOREM TunnelTypes == Spec => []TypeOK
  <1>1. CtlInv => TypeOK
    <2>1. GoodStep \subseteq Step
      <3>1. FullOps \subseteq ConfigOps /\ PlainOps \subseteq ConfigOps
        BY DEF FullOps, PlainOps, ConfigOps
      <3>2. QED BY <3>1, ConfigFacts DEF GoodStep, Step
    <2>2. Seq(GoodStep) \subseteq Seq(Step)
      BY <2>1
    <2>3. [local : Locals, up : BOOLEAN] \subseteq Runtime
      BY DEF Runtime
    <2>4. QED BY <2>2, <2>3 DEF CtlInv, TypeInv, TypeOK
  <1>2. QED BY <1>1, CallsFollowTheirPath, PTL
-----------------------------------------------------------------------------
(* One secret: no private key in use is lost.                              *)

\* The kind of host stays, and what disturbed the host is not forgotten.
LEMMA Constancy ==
    ASSUME [Next]_vars
    PROVE  host' = host /\ past \subseteq past'
  BY DEF Next, vars, history, Calls, CliConnect, CliDisconnect, CliOther, CliRegister,
         CliBootstrap, CliRuns, StateClear, HelperDisconnect, HelperConnect, HelperSync,
         HelperRegister, HelperBootstrap, HelperIdentifies, BringTunnelUp, BringTunnelDown,
         ApplyConfiguration, RemoveTunnelPeer, HelperRuns, Steps, OsStep, WindowsStep,
         BackendStep, FacadeStep, LoadKey, FileStep, HelperStep, Refused, SendFails, Abort,
         StepFails, Kill, Reboot

\* How a step leaves the other processes and the next step of its own.
LEMMA Advances ==
    ASSUME CtlInv, NEW p \in Procs, Busy(todo[p]), Advance(p)
    PROVE  /\ \A q \in Procs \ {p} : todo'[q] = todo[q]
           /\ todo'[p] = Tail(todo[p]) /\ Head(todo[p]) \in HostStep
           /\ todo'[p] # <<>> => Flow(Head(todo[p]), Head(todo'[p]))
                                 /\ Head(todo'[p]) \in HostStep
           /\ todo'[p] = <<>> => Head(todo[p]).do \in Ends
  <1>1. /\ \A q \in Procs \ {p} : todo'[q] = todo[q]
        /\ todo'[p] = Tail(todo[p])
    BY DEF CtlInv, TypeInv, Advance
  <1>2. /\ Head(todo[p]) = todo[p][1] /\ todo[p][1] \in HostStep
        /\ Tail(todo[p]) = <<>> => todo[p][1].do \in Ends
        /\ Tail(todo[p]) # <<>> => /\ Flow(todo[p][1], Tail(todo[p])[1])
                                   /\ Tail(todo[p])[1] \in HostStep
    BY TailProgram
  <1>3. Tail(todo[p]) # <<>> => Head(Tail(todo[p])) = Tail(todo[p])[1]
    <2>1. Program(Tail(todo[p]))
      BY TailProgram
    <2>2. ASSUME Tail(todo[p]) # <<>> PROVE Busy(Tail(todo[p]))
      BY <2>1, <2>2 DEF Busy
    <2>3. QED BY <2>2, TailProgram
  <1>4. QED BY <1>1, <1>2, <1>3

\* The key table T has the keys of a snapshot w, of the interface, of the
\* state file and of the processes.
Owned(w, T) == w.key # Nil => w.of \in Nodes /\ T[w.of] = w.key
Kept(secret, has, sn, T) ==
    /\ secret # Nil => \E n \in Nodes : T[n] = secret
    /\ Owned(has, T)
    /\ \A p \in Procs : Owned(sn[p], T)
\* What ensure_tunnel_key_pair has made sure of before the next step of a call.
HeadKeeps(r, st, secret, has, sn, p) ==
    r # <<>> =>
        /\ Head(r).do \in {"store truncate", "store write"} =>
              /\ Kept(secret, has, sn, Head(r).keys)
              /\ sn[p].node \in Nodes /\ Head(r).keys[sn[p].node] = Head(r).s
        /\ Head(r).do = "key" =>
              ~st.torn /\ sn[p].node \in Nodes /\ st.has[sn[p].node] = Head(r).s
KeyAtHead(p) == HeadKeeps(todo[p], store, os.secret, file.has, snap, p)
KeyData == ~store.torn => Kept(os.secret, file.has, snap, store.has)
KeyInv == "overlap" \notin past => KeyData /\ \A p \in Procs : KeyAtHead(p)

\* Only the steps that write the key file come before a step with a key.
LEMMA KeyFlow ==
    ASSUME NEW x \in HostStep, NEW y, Flow(x, y), x.do \notin {"store truncate", "store write"}
    PROVE  y.do \notin KeyOps
  BY GoodStepFacts DEF HostStep, Flow, SameConfig, Cleared, KeyOps, FullOps, PlainOps

\* Copying or forgetting a key keeps the keys in the table.
Copied(a2, a, sn) == a2 \in {a, Nil} \cup {sn[q].key : q \in Procs}
LEMMA KeyCopies ==
    ASSUME NEW T, NEW a, NEW b, NEW sn, Kept(a, b, sn, T), NEW a2, Copied(a2, a, sn),
           NEW b2, Owned(b2, T), NEW sn2, \A q \in Procs : Owned(sn2[q], T)
    PROVE  Kept(a2, b2, sn2, T)
  <1>1. a2 # Nil => \E n \in Nodes : T[n] = a2
    BY DEF Kept, Owned, Copied
  <1>2. QED BY <1>1 DEF Kept

\* An entry for an identity that had none loses nothing.
LEMMA KeyAdded ==
    ASSUME NEW T \in KeyTable, NEW a, NEW b, NEW sn, Kept(a, b, sn, T),
           NEW n \in Nodes, T[n] = Nil, NEW e \in Secrets
    PROVE  /\ Kept(a, b, sn, [T EXCEPT ![n] = e]) /\ [T EXCEPT ![n] = e] \in KeyTable
           /\ [T EXCEPT ![n] = e][n] = e
  <1> DEFINE U == [T EXCEPT ![n] = e]
  <1>1. U \in KeyTable /\ U[n] = e /\ \A m \in Nodes : T[m] # Nil => U[m] = T[m]
    BY DEF KeyTable
  <1> HIDE DEF U
  <1>2. \A w : Owned(w, T) => Owned(w, U)
    BY <1>1 DEF Owned
  <1>3. a # Nil => \E m \in Nodes : U[m] = a
    BY <1>1 DEF Kept
  <1>4. Kept(a, b, sn, U)
    BY <1>2, <1>3 DEF Kept
  <1>5. QED BY <1>1, <1>4 DEF U

\* Until commands overlap, no other process is in a call.
LEMMA OthersIdle ==
    ASSUME CtlInv, "overlap" \notin past, NEW p \in Procs, todo[p] # <<>>
    PROVE  \A q \in Procs \ {p} : todo[q] = <<>>
  BY DEF CtlInv, Alone, Idle

\* No process is about to write a key.
LEMMA NoKeyIsNext ==
    ASSUME NEW p \in Procs, \A q \in Procs \ {p} : todo'[q] = <<>>,
           todo'[p] # <<>> => Head(todo'[p]).do \notin KeyOps
    PROVE  \A q \in Procs : KeyAtHead(q)'
  BY DEF KeyAtHead, HeadKeeps, KeyOps

\* A step that is not about the key: it copies the key of the process at most.
SameKeys(sn2, sn) == \A q \in Procs : sn2[q].key = sn[q].key /\ sn2[q].of = sn[q].of
LEMMA KeyAdvances ==
    ASSUME CtlInv, KeyData, "overlap" \notin past, NEW p \in Procs, NEW ops, AtStep(p, ops),
           Advance(p), ops \cap {"store truncate", "store write"} = {},
           UNCHANGED <<file, store>>, SameKeys(snap', snap),
           os'.secret \in {os.secret, snap[p].key}
    PROVE  KeyData' /\ \A q \in Procs : KeyAtHead(q)'
  <1>1. Busy(todo[p]) /\ Head(todo[p]).do \in ops /\ todo[p] # <<>>
    BY HeadFacts DEF AtStep
  <1>2. /\ \A q \in Procs \ {p} : todo'[q] = todo[q]
        /\ todo'[p] # <<>> => Head(todo'[p]).do \notin KeyOps
    BY <1>1, Advances, KeyFlow
  <1>3. \A q \in Procs : KeyAtHead(q)'
    BY <1>1, <1>2, OthersIdle, NoKeyIsNext
  <1>4. KeyData'
    <2> SUFFICES ASSUME ~store.torn
                 PROVE  Kept(os'.secret, file.has, snap', store.has)
      BY DEF KeyData
    <2>1. Kept(os.secret, file.has, snap, store.has)
      BY DEF KeyData
    <2>2. Owned(file.has, store.has) /\ \A q \in Procs : Owned(snap'[q], store.has)
      BY <2>1 DEF Kept, SameKeys, Owned
    <2>3. Copied(os'.secret, os.secret, snap)
      BY DEF Copied
    <2>4. QED BY <2>1, <2>2, <2>3, KeyCopies
  <1>5. QED BY <1>3, <1>4

\* The call of a process ends.
LEMMA KeyExits ==
    ASSUME CtlInv, KeyData, "overlap" \notin past, NEW p \in Procs,
           todo' = [todo EXCEPT ![p] = <<>>], UNCHANGED <<os, file, store>>,
           snap' = snap \/ snap' = [snap EXCEPT ![p] = Fresh],
           todo[p] # <<>> \/ (~IsCli /\ p = Main)
    PROVE  KeyData' /\ \A q \in Procs : KeyAtHead(q)'
  <1>1. \A q \in Procs \ {p} : todo'[q] = <<>>
    <2>1. \A q \in Procs \ {p} : todo[q] = <<>>
      BY OthersIdle DEF CtlInv, Alone, Idle
    <2>2. QED BY <2>1 DEF CtlInv, TypeInv
  <1>2. todo'[p] = <<>>
    BY DEF CtlInv, TypeInv
  <1>3. \A q \in Procs : KeyAtHead(q)'
    BY <1>1, <1>2, NoKeyIsNext
  <1>4. KeyData'
    <2> SUFFICES ASSUME ~store.torn
                 PROVE  Kept(os.secret, file.has, snap', store.has)
      BY DEF KeyData
    <2>1. Kept(os.secret, file.has, snap, store.has)
      BY DEF KeyData
    <2>2. \A q \in Procs : snap'[q] \in {snap[q], Fresh}
      BY DEF CtlInv, TypeInv
    <2>3. Owned(Fresh, store.has)
      BY Nothing DEF Owned
    <2>4. QED BY <2>1, <2>2, <2>3 DEF Kept
  <1>5. QED BY <1>3, <1>4

\* ensure_tunnel_key_pair decides.
LEMMA KeyLoads ==
    ASSUME CtlInv, KeyInv, "overlap" \notin past, NEW p \in Procs, LoadKey(p)
    PROVE  KeyData' /\ \A q \in Procs : KeyAtHead(q)'
  <1>1. KeyData
    BY DEF KeyInv
  <1>2. /\ AtStep(p, {"load key"}) /\ snap[p].node # Nil
        /\ UNCHANGED <<os, file, store, snap>>
    BY DEF LoadKey, memory
  <1>3. Busy(todo[p]) /\ AtKey(todo[p]) /\ todo[p] # <<>>
    <2>1. Busy(todo[p]) /\ todo[p][1].do \in {"load key"}
      BY <1>2, HeadFacts
    <2>2. QED BY <2>1 DEF AtKey, Busy
  <1>4. KeyData'
    BY <1>1, <1>2 DEF KeyData
  <1>5. \A q \in Procs \ {p} : todo[q] = <<>>
    BY <1>3, OthersIdle
  <1>6. /\ store.has \in KeyTable /\ snap[p].node \in Nodes
        /\ store.has[snap[p].node] \in Secrets \cup {Nil}
    BY <1>2 DEF CtlInv, TypeInv, Snapshot, KeyTable
  <1>7. CASE Advance(p)
    <2>1. {"load key"} \cap {"store truncate", "store write"} = {} /\ SameKeys(snap', snap)
      BY <1>2 DEF SameKeys
    <2>2. QED BY <1>1, <1>2, <1>7, <2>1, KeyAdvances
  <1>8. ASSUME NEW r, Busy(r), todo' = [todo EXCEPT ![p] = r],
               HeadKeeps(r, store, os.secret, file.has, snap, p)
        PROVE  \A q \in Procs : KeyAtHead(q)'
    <2>1. todo'[p] = r /\ \A q \in Procs \ {p} : todo'[q] = <<>>
      BY <1>5, <1>8 DEF CtlInv, TypeInv
    <2>2. KeyAtHead(p)'
      BY <1>2, <1>8, <2>1 DEF KeyAtHead
    <2>3. QED BY <2>1, <2>2 DEF KeyAtHead, HeadKeeps
  <1>9. ASSUME ~store.torn, StoredKey(p) # Nil,
               todo' = [todo EXCEPT ![p] = Found(todo[p], StoredKey(p), store.has)]
        PROVE  \A q \in Procs : KeyAtHead(q)'
    <2> DEFINE r == Found(todo[p], StoredKey(p), store.has)
    <2>1. StoredKey(p) \in Secrets /\ store.has[snap[p].node] = StoredKey(p)
      BY <1>6, <1>9 DEF StoredKey
    <2>2. Busy(r) /\ r[1] = KeyStep("key", StoredKey(p), store.has)
      BY <1>3, <1>6, <2>1, FoundKey
    <2>3. "key" \in KeyOps
      BY DEF KeyOps
    <2>4. KeyStep("key", StoredKey(p), store.has).do = "key"
          /\ KeyStep("key", StoredKey(p), store.has).s = StoredKey(p)
      BY <1>6, <2>1, <2>3, KeySteps
    <2> HIDE DEF r
    <2>5. Head(r) = r[1]
      BY <2>2, TailProgram
    <2>6. HeadKeeps(r, store, os.secret, file.has, snap, p)
      BY <1>6, <1>9, <2>1, <2>2, <2>4, <2>5 DEF HeadKeeps
    <2>7. QED BY <1>8, <1>9, <2>2, <2>6 DEF r
  <1>10. ASSUME ~store.torn, StoredKey(p) = Nil, NEW e \in Secrets,
                todo' = [todo EXCEPT ![p] = Generated(todo[p], e, NewKeys(p, e))]
         PROVE  \A q \in Procs : KeyAtHead(q)'
    <2> DEFINE r == Generated(todo[p], e, NewKeys(p, e))
    <2>1. Kept(os.secret, file.has, snap, store.has) /\ store.has[snap[p].node] = Nil
      BY <1>1, <1>10 DEF KeyData, StoredKey
    <2>2. /\ Kept(os.secret, file.has, snap, NewKeys(p, e)) /\ NewKeys(p, e) \in KeyTable
          /\ NewKeys(p, e)[snap[p].node] = e
      BY <1>6, <2>1, KeyAdded DEF NewKeys
    <2>3. Busy(r) /\ r[1] = KeyStep("store truncate", e, NewKeys(p, e))
      BY <1>3, <2>2, NewKey
    <2>4. "store truncate" \in KeyOps
      BY DEF KeyOps
    <2>5. /\ KeyStep("store truncate", e, NewKeys(p, e)).do = "store truncate"
          /\ KeyStep("store truncate", e, NewKeys(p, e)).s = e
          /\ KeyStep("store truncate", e, NewKeys(p, e)).keys = NewKeys(p, e)
      BY DEF KeyStep
    <2> HIDE DEF r
    <2>6. Head(r) = r[1]
      BY <2>3, TailProgram
    <2>7. HeadKeeps(r, store, os.secret, file.has, snap, p)
      BY <1>6, <2>2, <2>3, <2>5, <2>6 DEF HeadKeeps
    <2>8. QED BY <1>8, <1>10, <2>3, <2>7 DEF r
  <1>11. \/ Advance(p)
         \/ /\ ~store.torn /\ StoredKey(p) # Nil
            /\ todo' = [todo EXCEPT ![p] = Found(todo[p], StoredKey(p), store.has)]
         \/ /\ ~store.torn /\ StoredKey(p) = Nil
            /\ \E e \in Secrets :
                  todo' = [todo EXCEPT ![p] = Generated(todo[p], e, NewKeys(p, e))]
    BY DEF LoadKey, Found, Generated
  <1>12. QED BY <1>4, <1>7, <1>9, <1>10, <1>11

\* The steps that write the key file.
LEMMA KeyWrites ==
    ASSUME CtlInv, KeyInv, "overlap" \notin past, NEW p \in Procs, FileStep(p),
           AtStep(p, {"store truncate", "store write"})
    PROVE  KeyData' /\ \A q \in Procs : KeyAtHead(q)'
  <1> DEFINE x == Head(todo[p])
  <1>1. Busy(todo[p]) /\ x \in HostStep /\ x.do \in {"store truncate", "store write"}
        /\ todo[p] # <<>>
    BY HeadFacts DEF AtStep
  <1>2. /\ os' = os /\ file' = file
        /\ IF Len(todo[p]) = 1 THEN Exit(p) ELSE Advance(p) /\ UNCHANGED memory
        /\ x.do = "store truncate" => store' = [torn |-> TRUE, has |-> NoKeys]
        /\ x.do = "store write" => store' = [torn |-> FALSE, has |-> x.keys]
    BY <1>1 DEF FileStep
  <1>3. x.do \notin Ends
    BY <1>1 DEF Ends
  <1>4. Advance(p) /\ snap' = snap
    <2>1. Len(todo[p]) # 1
      BY <1>1, <1>3, TailProgram
    <2>2. QED BY <1>2, <2>1 DEF memory
  <1>5. /\ \A q \in Procs \ {p} : todo'[q] = <<>>
        /\ Flow(x, Head(todo'[p]))
    <2>1. \A q \in Procs \ {p} : todo[q] = <<>>
      BY <1>1, OthersIdle
    <2>2. QED BY <1>1, <1>3, <1>4, <2>1, Advances
  <1>6. /\ Kept(os.secret, file.has, snap, x.keys) /\ snap[p].node \in Nodes
        /\ x.keys[snap[p].node] = x.s
    BY <1>1 DEF KeyInv, KeyAtHead, HeadKeeps
  <1> DEFINE y == Head(todo'[p])
  <1>7. /\ x.do = "store truncate" => y.do = "store write" /\ y.s = x.s /\ y.keys = x.keys
        /\ x.do = "store write" => y.do = "key" /\ y.s = x.s
    BY <1>5 DEF Flow
  <1> HIDE DEF x, y
  <1>8. KeyData'
    <2>1. CASE x.do = "store truncate"
      <3>1. store' = [torn |-> TRUE, has |-> NoKeys]
        BY <1>2, <2>1
      <3>2. QED BY <3>1 DEF KeyData
    <2>2. CASE x.do = "store write"
      <3>1. store' = [torn |-> FALSE, has |-> x.keys]
        BY <1>2, <2>2
      <3>2. store'.has = x.keys
        BY <3>1
      <3>3. QED BY <1>2, <1>4, <1>6, <3>2 DEF KeyData
    <2>3. QED BY <1>1, <2>1, <2>2
  <1>9. HeadKeeps(todo'[p], store', os'.secret, file'.has, snap', p)
    <2>1. CASE x.do = "store truncate"
      <3>1. y.do = "store write" /\ y.s = x.s /\ y.keys = x.keys
        BY <1>7, <2>1
      <3>2. QED BY <1>2, <1>4, <1>6, <3>1 DEF HeadKeeps, y
    <2>2. CASE x.do = "store write"
      <3>1. y.do = "key" /\ y.s = x.s /\ store' = [torn |-> FALSE, has |-> x.keys]
        BY <1>2, <1>7, <2>2
      <3>2. QED BY <1>2, <1>4, <1>6, <3>1 DEF HeadKeeps, y
    <2>3. QED BY <1>1, <2>1, <2>2
  <1>10. \A q \in Procs : KeyAtHead(q)'
    <2>1. KeyAtHead(p)'
      BY <1>9 DEF KeyAtHead
    <2>2. QED BY <1>5, <2>1 DEF KeyAtHead, HeadKeeps
  <1>11. QED BY <1>8, <1>10

\* A step of a call keeps KeyInv.
LEMMA KeySteppers ==
    ASSUME CtlInv, KeyInv, "overlap" \notin past, NEW p \in Procs, Steps(p)
    PROVE  KeyData' /\ \A q \in Procs : KeyAtHead(q)'
  <1>1. KeyData /\ \A q \in Procs : KeyAtHead(q)
    BY DEF KeyInv
  <1>t. snap \in [Procs -> Snapshot] /\ os \in System
    BY DEF CtlInv, TypeInv
  <1>s. snap' = snap => SameKeys(snap', snap)
    BY DEF SameKeys
  <1>2. CASE OsStep(p)
    <2> DEFINE ops == OsOps \ {"set address"}
    <2>1. /\ AtStep(p, ops) /\ Advance(p) /\ os' = Programmed(Head(todo[p]), snap[p].key)
          /\ UNCHANGED <<file, store, snap>>
      BY <1>2 DEF OsStep, memory
    <2>2. ops \cap {"store truncate", "store write"} = {}
      BY DEF OsOps
    <2>3. os'.secret \in {os.secret, snap[p].key}
      <3>1. Head(todo[p]).do \in ops
        BY <2>1 DEF AtStep
      <3>2. QED BY <1>t, <2>1, <3>1 DEF Programmed, OsOps, System
    <2> HIDE DEF ops
    <2>4. QED BY <1>1, <1>s, <2>1, <2>2, <2>3, KeyAdvances
  <1>3. CASE WindowsStep(p)
    <2> DEFINE ops == {"set address", "drop address"}
    <2>1. /\ AtStep(p, ops) /\ Advance(p) /\ UNCHANGED <<file, store, snap>>
      BY <1>3 DEF WindowsStep, memory
    <2>2. ops \cap {"store truncate", "store write"} = {}
      OBVIOUS
    <2>3. os'.secret = os.secret
      BY <1>3, <1>t DEF WindowsStep, System
    <2> HIDE DEF ops
    <2>4. QED BY <1>1, <1>s, <2>1, <2>2, <2>3, KeyAdvances
  <1>4. CASE BackendStep(p)
    <2> DEFINE ops == NeedIface \cup {"validate", "iface", "up", "down", "planned", "forget"}
    <2>1. /\ AtStep(p, ops) /\ Advance(p) /\ UNCHANGED <<os, file, store, snap>>
      BY <1>4 DEF BackendStep
    <2>2. ops \cap {"store truncate", "store write"} = {}
      BY DEF NeedIface
    <2> HIDE DEF ops
    <2>3. QED BY <1>1, <1>s, <2>1, <2>2, KeyAdvances
  <1>5. CASE HelperStep(p)
    <2> DEFINE ops == {"show", "hide", "run", "halt"}
    <2>1. /\ AtStep(p, ops) /\ Advance(p) /\ UNCHANGED <<os, file, store, snap>>
      BY <1>5 DEF HelperStep, memory
    <2>2. ops \cap {"store truncate", "store write"} = {}
      OBVIOUS
    <2> HIDE DEF ops
    <2>3. QED BY <1>1, <1>s, <2>1, <2>2, KeyAdvances
  <1>6. CASE FacadeStep(p)
    <2> DEFINE ops == {"take", "tunnel", "connected", "disconnected", "key", "send"}
    <2>1. AtStep(p, ops) /\ Advance(p) /\ UNCHANGED <<os, file, store>>
      BY <1>6 DEF FacadeStep
    <2>2. ops \cap {"store truncate", "store write"} = {} /\ Head(todo[p]).do \in ops
      BY <2>1 DEF AtStep
    <2>3. CASE Head(todo[p]).do # "key"
      <3>1. \/ snap' = snap
            \/ snap' = [snap EXCEPT ![p].tun = tun[p]]
            \/ snap' = [snap EXCEPT ![p].tun = Nil]
        BY <1>6, <2>2, <2>3 DEF FacadeStep
      <3>2. SameKeys(snap', snap)
        BY <1>t, <3>1 DEF SameKeys, Snapshot
      <3>3. QED BY <1>1, <2>1, <2>2, <3>2, KeyAdvances
    <2>4. CASE Head(todo[p]).do = "key"
      <3> DEFINE w == [snap[p] EXCEPT !.key = Head(todo[p]).s, !.of = snap[p].node]
      <3>1. snap' = [snap EXCEPT ![p] = w]
        BY <1>6, <2>4 DEF FacadeStep
      <3>2. /\ ~store.torn /\ snap[p].node \in Nodes
            /\ store.has[snap[p].node] = Head(todo[p]).s
        BY <1>1, <2>1, <2>4 DEF KeyAtHead, HeadKeeps, AtStep
      <3>3. w.key = Head(todo[p]).s /\ w.of = snap[p].node
        BY <1>t DEF Snapshot
      <3> HIDE DEF w
      <3>4. Kept(os.secret, file.has, snap, store.has)
        BY <1>1, <3>2 DEF KeyData
      <3>5. \A q \in Procs : Owned(snap'[q], store.has)
        BY <1>t, <3>1, <3>2, <3>3, <3>4 DEF Owned, Kept
      <3>6. Kept(os.secret, file.has, snap', store.has)
        BY <3>4, <3>5 DEF Kept
      <3>7. KeyData'
        BY <2>1, <3>6 DEF KeyData
      <3>8. /\ Busy(todo[p]) /\ Head(todo[p]) \in HostStep /\ todo[p] # <<>>
        BY <2>1, HeadFacts DEF AtStep
      <3>9. /\ \A q \in Procs \ {p} : todo'[q] = <<>>
            /\ todo'[p] # <<>> => Head(todo'[p]).do \notin KeyOps
        <4>1. Head(todo[p]).do \notin {"store truncate", "store write"}
          BY <2>4
        <4>2. /\ \A q \in Procs \ {p} : todo'[q] = todo[q]
              /\ todo'[p] # <<>> => Flow(Head(todo[p]), Head(todo'[p]))
          BY <2>1, <3>8, Advances
        <4>3. QED BY <3>8, <4>1, <4>2, OthersIdle, KeyFlow
      <3>10. QED BY <3>7, <3>9, NoKeyIsNext
    <2>5. QED BY <2>3, <2>4
  <1>7. CASE LoadKey(p)
    BY <1>7, KeyLoads
  <1>8. CASE FileStep(p)
    <2> DEFINE x == Head(todo[p])
    <2>1. /\ AtStep(p, FileOps) /\ os' = os
          /\ IF Len(todo[p]) = 1 THEN Exit(p) ELSE Advance(p) /\ UNCHANGED memory
          /\ x.do = "truncate" => file' = [is |-> "torn", has |-> Fresh]
          /\ x.do = "write" => file' = [is |-> "saved", has |-> snap[p]]
          /\ x.do \in {"truncate", "write"} => store' = store
      BY <1>8 DEF FileStep
    <2>2. Busy(todo[p]) /\ x \in HostStep /\ x.do \in FileOps /\ todo[p] # <<>>
      BY <2>1, HeadFacts DEF AtStep
    <2>3. CASE x.do \in {"store truncate", "store write"}
      <3>1. AtStep(p, {"store truncate", "store write"})
        BY <2>1, <2>3 DEF AtStep
      <3>2. QED BY <1>8, <3>1, KeyWrites
    <2>4. CASE x.do \in {"truncate", "write"}
      <3>1. \A q \in Procs : snap'[q] \in {snap[q], Fresh}
        BY <1>t, <2>1 DEF Exit, memory
      <3>2. file'.has \in {Fresh, snap[p]} /\ store' = store
        BY <2>1, <2>4
      <3>3. KeyData'
        <4> SUFFICES ASSUME ~store.torn
                     PROVE  Kept(os.secret, file'.has, snap', store.has)
          BY <2>1, <3>2 DEF KeyData
        <4>1. Kept(os.secret, file.has, snap, store.has)
          BY <1>1 DEF KeyData
        <4>2. Owned(Fresh, store.has)
          BY Nothing DEF Owned
        <4>3. QED BY <3>1, <3>2, <4>1, <4>2 DEF Kept
      <3>4. \A q \in Procs \ {p} : todo[q] = <<>>
        BY <2>2, OthersIdle
      <3>5. CASE Exit(p)
        <4>1. todo'[p] = <<>> /\ \A q \in Procs \ {p} : todo'[q] = <<>>
          BY <3>4, <3>5 DEF Exit, CtlInv, TypeInv
        <4>2. QED BY <3>3, <4>1, NoKeyIsNext
      <3>6. CASE Advance(p)
        <4>1. /\ \A q \in Procs \ {p} : todo'[q] = todo[q]
              /\ todo'[p] # <<>> => Flow(x, Head(todo'[p]))
          BY <2>2, <3>6, Advances
        <4>2. todo'[p] # <<>> => Head(todo'[p]).do \notin KeyOps
          BY <2>2, <2>4, <4>1, KeyFlow
        <4>3. QED BY <3>3, <3>4, <4>1, <4>2, NoKeyIsNext
      <3>7. QED BY <2>1, <3>5, <3>6
    <2>5. QED BY <2>2, <2>3, <2>4 DEF FileOps
  <1>9. CASE Refused(p) \/ SendFails(p)
    <2>1. /\ todo' = [todo EXCEPT ![p] = <<>>] /\ UNCHANGED <<os, file, store>>
          /\ snap' = snap \/ snap' = [snap EXCEPT ![p] = Fresh]
          /\ todo[p] # <<>>
      BY <1>9 DEF Refused, SendFails, Abort, Exit, memory, AtStep
    <2>2. QED BY <1>1, <2>1, KeyExits
  <1>10. QED
    BY <1>2, <1>3, <1>4, <1>5, <1>6, <1>7, <1>8, <1>9 DEF Steps

LEMMA KeyNext ==
    ASSUME CtlInv, KeyInv, [Next]_vars
    PROVE  KeyInv'
  <1> SUFFICES ASSUME "overlap" \notin past'
               PROVE  KeyData' /\ \A q \in Procs : KeyAtHead(q)'
    BY DEF KeyInv
  <1>1. "overlap" \notin past /\ KeyData /\ \A q \in Procs : KeyAtHead(q)
    <2>1. past \subseteq past'
      BY Constancy
    <2>2. QED BY <2>1 DEF KeyInv
  <1>2. Owned(Fresh, store.has) /\ \A T : Owned(Fresh, T)
    BY Nothing DEF Owned
  <1>3. ASSUME NEW p \in Procs, NEW f, Busy(f), Head(f).do \notin KeyOps,
               todo' = [todo EXCEPT ![p] = f], \A q \in Procs \ {p} : todo[q] = <<>>
        PROVE  \A q \in Procs : KeyAtHead(q)'
    <2>1. \A q \in Procs : todo'[q] = IF q = p THEN f ELSE todo[q]
      BY <1>3 DEF CtlInv, TypeInv
    <2>2. QED BY <1>3, <2>1, NoKeyIsNext
  <1>4. ASSUME NEW p \in Procs, NEW w, Renamed(w, file.has) \/ Renamed(w, snap[p]),
               snap' = [snap EXCEPT ![p] = w], UNCHANGED <<os, file, store>>
        PROVE  KeyData'
    <2> SUFFICES ASSUME ~store.torn
                 PROVE  Kept(os.secret, file.has, snap', store.has)
      BY <1>4 DEF KeyData
    <2>1. Kept(os.secret, file.has, snap, store.has)
      BY <1>1 DEF KeyData
    <2>2. Owned(w, store.has)
      BY <1>4, <2>1 DEF Kept, Renamed, Owned
    <2>3. \A q \in Procs : snap'[q] \in {snap[q], w}
      BY <1>4 DEF CtlInv, TypeInv
    <2>4. QED BY <2>1, <2>2, <2>3 DEF Kept
  <1>5. CASE Calls
    <2>1. CASE StateClear
      <3>1. UNCHANGED <<os, store, todo, snap>> /\ file'.has = Fresh
        BY <2>1, Nothing DEF StateClear, memory
      <3>2. \A T : Kept(os.secret, file.has, snap, T) => Kept(os.secret, Fresh, snap, T)
        BY <1>2 DEF Kept
      <3>3. KeyData'
        BY <1>1, <3>1, <3>2 DEF KeyData
      <3>4. \A q \in Procs : KeyAtHead(q)'
        BY <1>1, <3>1, <3>2 DEF KeyAtHead, HeadKeeps
      <3>5. QED BY <3>3, <3>4
    <2>2. ASSUME NEW p \in Procs, NEW w, NEW f, CliCall(p, w, f)
          PROVE  KeyData' /\ \A q \in Procs : KeyAtHead(q)'
      <3>1. /\ UNCHANGED <<os, file, store>> /\ snap' = [snap EXCEPT ![p] = w]
            /\ todo' = [todo EXCEPT ![p] = f] /\ Busy(f) /\ Head(f).do \notin KeyOps
            /\ Renamed(w, file.has)
            /\ past' = IF \A q \in Procs : Idle(q) THEN past ELSE past \cup {"overlap"}
        BY <2>2 DEF CliCall, CliRuns, KeyOps
      <3>2. \A q \in Procs : todo[q] = <<>>
        BY <3>1 DEF Idle
      <3>3. KeyData'
        BY <1>4, <3>1
      <3>4. QED BY <1>3, <3>1, <3>2, <3>3
    <2>3. ASSUME NEW f, HelperCall(f)
          PROVE  KeyData' /\ \A q \in Procs : KeyAtHead(q)'
      <3>1. /\ UNCHANGED <<os, file, store, snap>> /\ ~IsCli /\ Idle(Main)
            /\ todo' = [todo EXCEPT ![Main] = f] /\ Busy(f) /\ Head(f).do \notin KeyOps
        BY <2>3 DEF HelperCall, HelperRuns, memory, KeyOps
      <3>2. KeyData'
        BY <1>1, <3>1 DEF KeyData
      <3>3. \A q \in Procs \ {Main} : todo[q] = <<>>
        BY <3>1 DEF CtlInv, Alone, Idle
      <3>4. QED BY <1>3, <3>1, <3>2, <3>3, ProcsAssumption
    <2>4. CASE HelperRenames
      <3>1. PICK w : Renamed(w, snap[Main]) /\ HelperIdentifies(w)
        BY <2>4 DEF HelperRenames
      <3>2. /\ UNCHANGED <<os, file, store, todo>> /\ snap' = [snap EXCEPT ![Main] = w]
            /\ ~IsCli /\ todo[Main] = <<>>
        BY <3>1 DEF HelperIdentifies, Idle
      <3>3. KeyData'
        BY <1>4, <3>1, <3>2, ProcsAssumption
      <3>4. \A q \in Procs : todo'[q] = <<>>
        BY <3>2 DEF CtlInv, Alone, Idle
      <3>5. QED BY <3>3, <3>4, NoKeyIsNext, ProcsAssumption
    <2>5. QED BY <1>5, <2>1, <2>2, <2>3, <2>4, CallShape
  <1>6. CASE Reboot
    <2>1. /\ os' \in {NoSystem, os} /\ UNCHANGED <<file, store>>
          /\ todo' = [p \in Procs |-> <<>>] /\ snap' = [p \in Procs |-> Fresh]
      BY <1>6 DEF Reboot
    <2>2. Copied(os'.secret, os.secret, snap)
      BY <2>1 DEF NoSystem, Copied
    <2>3. KeyData'
      <3> SUFFICES ASSUME ~store.torn
                   PROVE  Kept(os'.secret, file.has, snap', store.has)
        BY <2>1 DEF KeyData
      <3>1. Kept(os.secret, file.has, snap, store.has)
        BY <1>1 DEF KeyData
      <3>2. Owned(file.has, store.has) /\ \A q \in Procs : Owned(snap'[q], store.has)
        BY <1>2, <2>1, <3>1 DEF Kept
      <3>3. QED BY <2>2, <3>1, <3>2, KeyCopies
    <2>4. \A q \in Procs : todo'[q] = <<>>
      BY <2>1
    <2>5. QED BY <2>3, <2>4, NoKeyIsNext, ProcsAssumption
  <1>7. ASSUME NEW p \in Procs, Steps(p)
        PROVE  KeyData' /\ \A q \in Procs : KeyAtHead(q)'
    BY <1>1, <1>7, KeySteppers
  <1>8. ASSUME NEW p \in Procs, StepFails(p) \/ Kill(p)
        PROVE  KeyData' /\ \A q \in Procs : KeyAtHead(q)'
    <2>1. /\ todo' = [todo EXCEPT ![p] = <<>>] /\ UNCHANGED <<os, file, store>>
          /\ snap' = snap \/ snap' = [snap EXCEPT ![p] = Fresh]
          /\ todo[p] # <<>> \/ (~IsCli /\ p = Main)
      BY <1>8 DEF StepFails, Kill, Abort, Exit, memory, AtStep
    <2>2. QED BY <1>1, <2>1, KeyExits
  <1>9. CASE UNCHANGED vars
    BY <1>1, <1>9 DEF vars, KeyData, KeyAtHead
  <1>10. QED BY <1>5, <1>6, <1>7, <1>8, <1>9 DEF Next

\* The private keys: until two commands overlap, and while the key file can be
\* read, it has the key of the interface and, for its own identity, the key of
\* the state file, whatever write fails, whatever process is killed, whatever
\* state is cleared and however often this device changes its identity.
\* Inductive: the key file also has the key of every process; and the table
\* that ensure_tunnel_key_pair is about to write has them all, and the new key.
THEOREM InterfaceHasOneSecret == Spec => []OneSecret
  <1>1. Init => KeyInv
    <2>1. NoSystem.secret = Nil
      BY DEF NoSystem
    <2>2. QED BY <2>1, Nothing DEF Init, KeyInv, KeyData, KeyAtHead, HeadKeeps, Kept, Owned
  <1>2. CtlInv /\ KeyInv /\ [Next]_vars => KeyInv'
    BY KeyNext
  <1>3. KeyInv => OneSecret
    BY DEF KeyInv, KeyData, Kept, Owned, OneSecret
  <1>4. QED BY <1>1, <1>2, <1>3, CallsFollowTheirPath, PTL DEF Spec
-----------------------------------------------------------------------------
(* What the helper shows. *)

UpOps == {"check up", "set address", "up", "show"}
Planned(i) == planned[Main][i] # Nil
ShownPlanned ==
    shown # Nil => Planned(shown) \/ (AtStep(Main, {"hide"}) /\ Head(todo[Main]).c.ip = shown)
ShownAtHead ==
    /\ AtStep(Main, UpOps) => IF Head(todo[Main]).c.ip = Nil THEN shown # Nil
                              ELSE Planned(Head(todo[Main]).c.ip)
    /\ AtStep(Main, {"run"}) => shown # Nil
ShownInv ==
    /\ running => shown # Nil
    /\ IF IsCli THEN shown = Nil ELSE ShownPlanned /\ ShownAtHead

\* A step that neither shows nor plans anything.
LEMMA ShownFlow ==
    ASSUME ~Linux, NEW x \in HostStep, NEW y, Flow(x, y),
           x.do \notin {"show", "hide", "run", "halt", "planned", "forget"}
    PROVE  /\ y.do \in UpOps => x.do \in UpOps /\ y.c = x.c
           /\ y.do = "run" => x.do = "up" /\ x.c.ip = Nil
  BY GoodStepFacts DEF HostStep, Fits, LinuxOps, Flow, SameConfig, Cleared, UpOps, FullOps,
                       PlainOps, KeyOps

LEMMA ShownQuiet ==
    ASSUME CtlInv, ShownInv, ~IsCli, AtStep(Main, OsOps \cup FileOps \cup NeedIface \cup
              {"drop address", "validate", "iface", "up", "down", "take", "tunnel", "connected",
               "disconnected", "key", "load key", "send"}),
           Advance(Main), UNCHANGED <<host, planned, shown, running>>
    PROVE  ShownInv'
  <1> DEFINE x == Head(todo[Main])
             y == Head(todo'[Main])
  <1>1. ~Linux /\ Main \in Procs
    BY LinuxIsCli, ProcsAssumption DEF CtlInv, TypeInv
  <1>2. x.do \notin {"show", "hide", "run", "halt", "planned", "forget"} /\ todo[Main] # <<>>
    BY DEF AtStep, OsOps, FileOps, NeedIface
  <1>3. Busy(todo[Main])
    BY <1>1, <1>2 DEF CtlInv, Programs, Busy
  <1>4. x \in HostStep /\ (todo'[Main] # <<>> => Flow(x, y))
    BY <1>1, <1>3, Advances
  <1>5. todo'[Main] # <<>> => /\ y.do \in UpOps => x.do \in UpOps /\ y.c = x.c
                              /\ y.do = "run" => x.do = "up" /\ x.c.ip = Nil
    <2> HIDE DEF x, y
    <2> QED BY <1>1, <1>2, <1>4, ShownFlow
  <1>6. ShownPlanned /\ ShownAtHead /\ (running => shown # Nil)
    BY DEF ShownInv
  <1>7. shown # Nil => Planned(shown)
    BY <1>2, <1>6 DEF ShownPlanned, AtStep
  <1>8. ShownPlanned' /\ (running => shown # Nil)'
    BY <1>6, <1>7 DEF ShownPlanned, Planned
  <1>9. ShownAtHead'
    <2>1. ASSUME todo'[Main] # <<>>, y.do \in UpOps
          PROVE  IF y.c.ip = Nil THEN shown' # Nil ELSE planned'[Main][y.c.ip] # Nil
      <3>1. AtStep(Main, UpOps) /\ y.c = x.c
        BY <1>2, <1>5, <2>1 DEF AtStep
      <3>2. IF x.c.ip = Nil THEN shown # Nil ELSE Planned(x.c.ip)
        BY <1>6, <3>1 DEF ShownAtHead
      <3>3. QED BY <3>1, <3>2 DEF Planned
    <2>2. ASSUME todo'[Main] # <<>>, y.do = "run"
          PROVE  shown' # Nil
      <3>1. AtStep(Main, UpOps) /\ x.c.ip = Nil
        BY <1>2, <1>5, <2>2 DEF AtStep, UpOps
      <3>2. QED BY <1>6, <3>1 DEF ShownAtHead
    <2>3. QED BY <2>1, <2>2 DEF ShownAtHead, AtStep, Planned
  <1>10. ~IsCli'
    BY DEF IsCli
  <1>11. QED BY <1>8, <1>9, <1>10 DEF ShownInv

\* planned and forget are the steps that change what is planned.
LEMMA ShownPlans ==
    ASSUME CtlInv, ShownInv, ~IsCli, BackendStep(Main), AtStep(Main, {"planned", "forget"})
    PROVE  ShownInv'
  <1> DEFINE x == Head(todo[Main])
             y == Head(todo'[Main])
  <1>1. ~Linux /\ Main \in Procs /\ ~IsCli'
    BY LinuxIsCli, ProcsAssumption DEF CtlInv, TypeInv, BackendStep, IsCli
  <1>2. /\ x.do \in {"planned", "forget"} /\ todo[Main] # <<>> /\ Advance(Main)
        /\ UNCHANGED <<host, shown, running>>
        /\ planned' = IF x.do = "planned" THEN [planned EXCEPT ![Main][x.c.ip] = x.c.key]
                      ELSE [planned EXCEPT ![Main][x.c.ip] = Nil]
    BY DEF AtStep, BackendStep
  <1>3. Busy(todo[Main])
    BY <1>1, <1>2 DEF CtlInv, Programs, Busy
  <1>4. x \in HostStep /\ (todo'[Main] # <<>> => Flow(x, y)) /\ (todo'[Main] = <<>> => x.do \in Ends)
    BY <1>1, <1>2, <1>3, Advances
  <1> HIDE DEF x, y
  <1>5. todo'[Main] # <<>> /\ Flow(x, y)
    BY <1>2, <1>4 DEF Ends
  <1>6. shown # Nil => Planned(shown)
    BY <1>2 DEF ShownInv, ShownPlanned, AtStep, x
  <1>7. shown \in Ips \cup {Nil} /\ planned \in [Procs -> [Ips -> Keys \cup {Nil}]]
    BY DEF CtlInv, TypeInv
  <1>8. CASE x.do = "planned"
    <2>1. x.c.ip \in Ips /\ x.c.ip # Nil /\ x.c.key # Nil
      BY <1>4, <1>8, GoodStepFacts, ConfigFacts DEF HostStep, FullOps
    <2>2. y.do \in {"check up", "show"} /\ y.c = x.c
      BY <1>1, <1>5, <1>8 DEF Flow, SameConfig
    <2>3. planned' = [planned EXCEPT ![Main] = [planned[Main] EXCEPT ![x.c.ip] = x.c.key]]
      BY <1>1, <1>2, <1>7, <1>8
    <2>4. planned'[Main][x.c.ip] # Nil /\ (shown # Nil => planned'[Main][shown] # Nil)
      BY <1>1, <1>6, <1>7, <2>1, <2>3 DEF Planned
    <2>5. ShownPlanned' /\ (running => shown # Nil)'
      BY <1>2, <2>4 DEF ShownPlanned, ShownInv, Planned
    <2>6. ShownAtHead'
      BY <2>1, <2>2, <2>4 DEF ShownAtHead, AtStep, y, Planned
    <2>7. QED BY <1>1, <2>5, <2>6 DEF ShownInv
  <1>9. CASE x.do = "forget"
    <2>1. y.do = "hide" /\ y.c.ip = x.c.ip
      BY <1>5, <1>9 DEF Flow
    <2>2. planned' = [planned EXCEPT ![Main] = [planned[Main] EXCEPT ![x.c.ip] = Nil]]
      BY <1>1, <1>2, <1>7, <1>9
    <2>3. shown # Nil /\ shown # x.c.ip => Planned(shown)'
      BY <1>1, <1>2, <1>6, <1>7, <2>2 DEF Planned
    <2>4. AtStep(Main, {"hide"})' /\ Head(todo'[Main]).c.ip = x.c.ip
      BY <1>5, <2>1 DEF AtStep, y
    <2>5. ShownPlanned'
      BY <1>2, <2>3, <2>4 DEF ShownPlanned, Planned
    <2>6. ShownAtHead'
      BY <2>1 DEF ShownAtHead, AtStep, UpOps, y
    <2>7. (running => shown # Nil)'
      BY <1>2 DEF ShownInv
    <2>8. QED BY <1>1, <2>5, <2>6, <2>7 DEF ShownInv
  <1>10. QED BY <1>2, <1>8, <1>9

\* What the helper's own steps show.
LEMMA ShownShows ==
    ASSUME CtlInv, ShownInv, ~IsCli, HelperStep(Main)
    PROVE  ShownInv'
  <1> DEFINE x == Head(todo[Main])
             y == Head(todo'[Main])
             hides == x.do = "hide" /\ shown = x.c.ip
  <1>1. ~Linux /\ Main \in Procs /\ ~IsCli'
    BY LinuxIsCli, ProcsAssumption DEF CtlInv, TypeInv, HelperStep, IsCli
  <1>2. /\ x.do \in {"show", "hide", "run", "halt"} /\ todo[Main] # <<>> /\ Advance(Main)
        /\ planned' = planned
        /\ shown' = CASE x.do = "show" -> x.c.ip [] hides -> Nil [] OTHER -> shown
        /\ running' = CASE x.do = "run" -> TRUE
                        [] x.do = "halt" \/ hides -> FALSE
                        [] OTHER -> running
    BY DEF AtStep, HelperStep, memory
  <1>3. Busy(todo[Main])
    BY <1>1, <1>2 DEF CtlInv, Programs, Busy
  <1>4. x \in HostStep /\ (todo'[Main] # <<>> => Flow(x, y))
    BY <1>1, <1>2, <1>3, Advances
  <1>5. todo'[Main] # <<>> => y.do \notin UpOps /\ (y.do = "run" => x.do = "show")
    <2> HIDE DEF x, y, hides
    <2> QED BY <1>2, <1>4 DEF Flow, SameConfig, Cleared, UpOps
  <1>6. ShownPlanned /\ ShownAtHead /\ (running => shown # Nil)
    BY DEF ShownInv
  <1>7. CASE x.do = "show"
    <2>1. x.c.ip # Nil
      BY <1>4, <1>7, GoodStepFacts, ConfigFacts DEF HostStep, FullOps
    <2>2. Planned(x.c.ip)
      BY <1>2, <1>6, <1>7, <2>1 DEF ShownAtHead, AtStep, UpOps
    <2>3. shown' = x.c.ip /\ running' = running
      BY <1>2, <1>7
    <2>4. ShownPlanned' /\ (running => shown # Nil)'
      BY <1>2, <2>1, <2>2, <2>3 DEF ShownPlanned, Planned
    <2>5. ShownAtHead'
      BY <1>5, <2>1, <2>3 DEF ShownAtHead, AtStep
    <2>6. QED BY <1>1, <2>4, <2>5 DEF ShownInv
  <1>8. CASE x.do = "hide"
    <2>1. shown' # Nil => shown' = shown /\ running' = running /\ Planned(shown)
      BY <1>2, <1>6, <1>8 DEF ShownPlanned, AtStep
    <2>2. shown' = Nil => ~running'
      BY <1>2, <1>6, <1>8 DEF CtlInv, TypeInv
    <2>3. ShownPlanned' /\ (running => shown # Nil)'
      BY <1>2, <2>1, <2>2 DEF ShownPlanned, Planned
    <2>4. ShownAtHead'
      BY <1>5, <1>8 DEF ShownAtHead, AtStep
    <2>5. QED BY <1>1, <2>3, <2>4 DEF ShownInv
  <1>9. CASE x.do \in {"run", "halt"}
    <2>1. shown' = shown /\ (shown # Nil => Planned(shown))
      BY <1>2, <1>6, <1>9 DEF ShownPlanned, AtStep
    <2>2. running' => shown # Nil
      BY <1>2, <1>6, <1>9 DEF ShownAtHead, AtStep
    <2>3. ShownPlanned' /\ (running => shown # Nil)'
      BY <1>2, <2>1, <2>2 DEF ShownPlanned, Planned
    <2>4. ShownAtHead'
      BY <1>5, <1>9 DEF ShownAtHead, AtStep
    <2>5. QED BY <1>1, <2>3, <2>4 DEF ShownInv
  <1>10. QED BY <1>2, <1>7, <1>8, <1>9

LEMMA ShownNext ==
    ASSUME CtlInv, ShownInv, [Next]_vars
    PROVE  ShownInv'
  <1>1. Main \in Procs /\ running \in BOOLEAN /\ todo \in [Procs -> Seq(GoodStep)]
        /\ planned \in [Procs -> [Ips -> Keys \cup {Nil}]]
    BY ProcsAssumption DEF CtlInv, TypeInv
  <1>2. ASSUME NEW p \in Procs, todo[p] # <<>>, ~IsCli
        PROVE  p = Main
    BY <1>2 DEF CtlInv, Alone, Idle
  <1>3. ASSUME shown' = Nil, running' = FALSE, host' = host,
               todo'[Main] = <<>>
        PROVE  ShownInv'
    BY <1>3 DEF ShownInv, ShownPlanned, ShownAtHead, AtStep
  <1>4. ASSUME UNCHANGED <<host, shown, running>>, IsCli
        PROVE  ShownInv'
    BY <1>4 DEF ShownInv, IsCli
  <1>5. ASSUME UNCHANGED <<host, shown, running, planned>>, ~IsCli, todo'[Main] = <<>>,
               ~AtStep(Main, {"hide"})
        PROVE  ShownInv'
    BY <1>5 DEF ShownInv, ShownPlanned, ShownAtHead, AtStep, Planned, IsCli
  <1>6. CASE Calls
    <2>1. CASE StateClear
      BY <1>4, <2>1 DEF StateClear
    <2>2. ASSUME NEW p \in Procs, NEW w, NEW f, CliCall(p, w, f)
          PROVE  ShownInv'
      BY <1>4, <2>2 DEF CliCall, CliRuns
    <2>3. ASSUME NEW f, HelperCall(f)
          PROVE  ShownInv'
      <3>1. /\ ~IsCli /\ Idle(Main) /\ UNCHANGED <<host, planned, shown, running>>
            /\ todo' = [todo EXCEPT ![Main] = f]
        BY <2>3 DEF HelperCall, HelperRuns, memory
      <3>2. todo'[Main] = f /\ ~IsCli'
        BY <1>1, <3>1 DEF IsCli
      <3>3. /\ Head(f).do \in UpOps \cup {"run"} => shown # Nil /\ Head(f).c.ip = Nil
            /\ Head(f).do # "hide"
        BY <2>3 DEF HelperCall, UpOps
      <3>4. ShownPlanned'
        BY <3>1, <3>2 DEF ShownInv, ShownPlanned, AtStep, Idle, Planned
      <3>5. ShownAtHead'
        BY <3>1, <3>2, <3>3 DEF ShownAtHead, AtStep
      <3>6. QED BY <3>1, <3>2, <3>4, <3>5 DEF ShownInv
    <2>4. CASE HelperRenames
      <3>1. ~IsCli /\ Idle(Main) /\ UNCHANGED <<host, planned, shown, running, todo>>
        BY <2>4 DEF HelperRenames, HelperIdentifies
      <3>2. todo'[Main] = <<>> /\ ~AtStep(Main, {"hide"})
        BY <3>1 DEF Idle, AtStep
      <3>3. QED BY <1>5, <3>1, <3>2
    <2>5. QED BY <1>6, <2>1, <2>2, <2>3, <2>4, CallShape
  <1>7. CASE Reboot
    <2>1. shown' = Nil /\ running' = FALSE /\ host' = host /\ todo'[Main] = <<>>
      BY <1>1, <1>7 DEF Reboot
    <2>2. QED BY <1>3, <2>1
  <1>8. ASSUME NEW p \in Procs, Kill(p)
        PROVE  ShownInv'
    <2>1. shown' = Nil /\ running' = FALSE /\ host' = host /\ todo' = [todo EXCEPT ![p] = <<>>]
      BY <1>8 DEF Kill, Exit
    <2>2. CASE IsCli
      BY <2>1, <2>2 DEF ShownInv, IsCli
    <2>3. CASE ~IsCli
      <3>1. p = Main
        BY <1>2, <1>8, <2>3 DEF Kill
      <3>2. QED BY <1>1, <1>3, <2>1, <3>1
    <2>4. QED BY <2>2, <2>3
  <1>9. ASSUME NEW p \in Procs, Refused(p) \/ SendFails(p) \/ StepFails(p)
        PROVE  ShownInv'
    <2>1. CASE IsCli
      BY <1>4, <1>9, <2>1 DEF Refused, SendFails, StepFails, Abort
    <2>2. CASE ~IsCli
      <3>1. /\ UNCHANGED <<host, shown, running, planned>> /\ todo' = [todo EXCEPT ![p] = <<>>]
            /\ todo[p] # <<>>
        BY <1>9, <2>2 DEF Refused, SendFails, StepFails, Abort, memory, AtStep
      <3>2. ~AtStep(p, {"hide"})
        BY <1>9 DEF Refused, SendFails, StepFails, AtStep, OsOps, FileOps, NeedIface
      <3>3. p = Main
        BY <1>2, <2>2, <3>1
      <3>4. QED BY <1>1, <1>5, <2>2, <3>1, <3>2, <3>3
    <2>3. QED BY <2>1, <2>2
  <1>10. ASSUME NEW p \in Procs,
                OsStep(p) \/ WindowsStep(p) \/ BackendStep(p) \/ FacadeStep(p) \/ LoadKey(p)
                \/ FileStep(p)
         PROVE  ShownInv'
    <2>1. UNCHANGED <<host, shown, running>> /\ todo[p] # <<>>
      BY <1>10 DEF OsStep, WindowsStep, BackendStep, FacadeStep, LoadKey, FileStep, AtStep
    <2>2. CASE IsCli
      BY <1>4, <2>1, <2>2
    <2>3. CASE ~IsCli
      <3>1. p = Main
        BY <1>2, <2>1, <2>3
      <3>2. CASE BackendStep(p) /\ AtStep(p, {"planned", "forget"})
        BY <2>3, <3>1, <3>2, ShownPlans
      <3>3. CASE LoadKey(p) /\ ~Advance(p)
        <4>1. AtStep(p, {"load key"}) /\ planned' = planned
          BY <3>3 DEF LoadKey, memory
        <4>2. PICK r : Keyed(p, r)
          BY <3>3, LoadKeyMoves
        <4>5. todo'[Main] # <<>> /\ Head(todo'[Main]).do \in KeyOps
          BY <1>1, <3>1, <4>2 DEF Keyed, Busy
        <4>6. ~AtStep(Main, {"hide"}) /\ ~IsCli'
          BY <2>1, <2>3, <3>1, <4>1 DEF AtStep, IsCli
        <4>7. QED
          BY <2>1, <2>3, <4>1, <4>5, <4>6
             DEF ShownInv, ShownPlanned, ShownAtHead, AtStep, Planned, KeyOps, UpOps
      <3>4. CASE FileStep(p) /\ Len(todo[p]) = 1
        <4>1. Busy(todo[p]) /\ todo[p][1].do \in FileOps /\ todo[p][1] \in HostStep
          BY <3>4, HeadFacts DEF FileStep
        <4>2. todo[p][1].do \in Ends
          BY <3>4, <4>1, TailProgram
        <4>3. QED BY <2>3, <4>1, <4>2 DEF Ends, FileOps
      <3>5. CASE ~(BackendStep(p) /\ AtStep(p, {"planned", "forget"})) /\ ~(LoadKey(p) /\ ~Advance(p))
                 /\ ~(FileStep(p) /\ Len(todo[p]) = 1)
        <4>1. /\ Advance(p)
              /\ AtStep(p, OsOps \cup FileOps \cup NeedIface \cup
                   {"drop address", "validate", "iface", "up", "down", "take", "tunnel",
                    "connected", "disconnected", "key", "load key", "send"})
              /\ planned' = planned
          BY <1>10, <3>5 DEF OsStep, WindowsStep, BackendStep, FacadeStep, LoadKey, FileStep,
                 AtStep, memory, OsOps
        <4>2. QED BY <2>1, <2>3, <3>1, <4>1, ShownQuiet
      <3>6. QED BY <3>2, <3>3, <3>4, <3>5
    <2>4. QED BY <2>2, <2>3
  <1>11. ASSUME NEW p \in Procs, HelperStep(p)
         PROVE  ShownInv'
    <2>1. todo[p] # <<>> /\ ~IsCli
      <3>1. AtStep(p, {"show", "hide", "run", "halt"})
        BY <1>11 DEF HelperStep
      <3>2. todo[p][1].do \in {"show", "hide", "run", "halt"} /\ Fits(todo[p][1])
        BY <3>1, HeadFacts
      <3>3. QED BY <3>1, <3>2 DEF AtStep, Fits, HelperOps
    <2>2. p = Main
      BY <1>2, <2>1
    <2>3. QED BY <1>11, <2>1, <2>2, ShownShows
  <1>12. CASE UNCHANGED vars
    BY <1>12 DEF vars, ShownInv, ShownPlanned, ShownAtHead, AtStep, Planned, IsCli
  <1>13. QED
    BY <1>6, <1>7, <1>8, <1>9, <1>10, <1>11, <1>12 DEF Next, Steps

\* What a client sees: between its calls, the helper never shows a tunnel that
\* its backend has not planned, and never one as running that it does not
\* show, also after calls that bypass the facade, failures and kills.
\* Inductive: while a call plans, forgets, shows or hides a peer, its next
\* step names the peer that is planned but not yet shown, or shown and about
\* to be hidden.
THEOREM HelperShowsPlanned == Spec => []ShownIsPlanned
  <1>1. Init => ShownInv
    BY ProcsAssumption DEF Init, ShownInv, ShownPlanned, ShownAtHead, AtStep
  <1>2. CtlInv /\ ShownInv /\ [Next]_vars => ShownInv'
    BY ShownNext
  <1>3. ShownInv => ShownIsPlanned
    BY DEF ShownInv, ShownPlanned, ShownIsPlanned, AtStep, Idle, Planned
  <1>4. QED BY <1>1, <1>2, <1>3, CallsFollowTheirPath, PTL DEF Spec
-----------------------------------------------------------------------------
(* The saved tunnel: link, interface and route. *)

LinkOps == {"private key", "mtu", "address", "iface", "check peer", "wg peer", "route",
            "planned", "check up", "link up", "up"}
RouteOps == {"planned", "check up", "link up", "up"}
Through(i) == os.link /\ os.up /\ i \in os.routes
UpAtHead(p) ==
    /\ AtStep(p, LinkOps) => os.link
    /\ AtStep(p, RouteOps) => Head(todo[p]).c.ip \in os.routes
    /\ AtStep(p, {"up"}) => os.up
    /\ AtStep(p, {"tunnel"}) /\ Head(todo[p]).c.ip # Nil => Through(Head(todo[p]).c.ip)
UpData ==
    /\ FileTunnel # Nil => Through(FileTunnel)
    /\ \A p \in Procs : /\ tun[p] # Nil => Through(tun[p])
                        /\ snap[p].tun # Nil => Through(snap[p].tun)
UpInv == Linux /\ "reboot" \notin past => UpData /\ \A p \in Procs : UpAtHead(p)

\* Until the machine restarts, nothing is taken from the system on Linux: a
\* process of the command line client has no interface to remove a peer from.
Grows == (os.link => os'.link) /\ (os.up => os'.up) /\ os.routes \subseteq os'.routes
Effects(x) == /\ x.do = "link add" => os'.link
              /\ x.do = "route" => x.c.ip \in os'.routes
              /\ x.do = "link up" => os'.up
LEMMA LinuxGrows ==
    ASSUME CtlInv, Linux, NEW p \in Procs, OsStep(p)
    PROVE  Grows /\ Effects(Head(todo[p]))
  <1> DEFINE x == Head(todo[p])
  <1>1. x.do \in OsOps \ {"set address"} /\ os' = Programmed(x, snap[p].key)
    BY DEF OsStep, AtStep
  <1>2. x \in GoodStep
    <2>1. AtStep(p, OsOps \ {"set address"})
      BY DEF OsStep
    <2>2. QED BY <2>1, HeadFacts
  <1>3. x.do \in {"link add", "private key", "mtu", "address", "wg peer", "route", "link up"}
    <2> HIDE DEF x
    <2>1. x.do \in FullOps \cup PlainOps \cup KeyOps
      BY <1>2, GoodStepFacts
    <2>2. QED BY <1>1, <2>1 DEF FullOps, PlainOps, KeyOps, OsOps
  <1>4. os \in System
    BY DEF CtlInv, TypeInv
  <1> HIDE DEF x
  <1>5. Grows /\ Effects(x)
    BY <1>1, <1>3, <1>4 DEF Grows, Effects, Programmed, System
  <1>6. QED BY <1>5 DEF x

\* What comes before the steps that rely on the link, the route and the
\* interface.
LEMMA UpFlow ==
    ASSUME CtlInv, Linux, NEW x \in HostStep, NEW y, Flow(x, y)
    PROVE  /\ y.do \in LinkOps => x.do \in LinkOps \cup {"link add"}
           /\ y.do \in RouteOps => x.do \in RouteOps \cup {"route"} /\ y.c = x.c
           /\ y.do = "up" => x.do = "link up"
           /\ y.do = "tunnel" /\ y.c.ip # Nil => x.do = "up" /\ y.c = x.c
  <1>1. IsCli /\ host.backend # "memory"
    BY LinuxIsCli DEF CtlInv, TypeInv
  <1>2. x.do \in FullOps \cup PlainOps \cup KeyOps /\ Fits(x)
    BY GoodStepFacts DEF HostStep
  <1>3. y.do \in LinkOps => x.do \in LinkOps \cup {"link add"}
    BY <1>1, <1>2 DEF Fits, LinuxOps, WindowsOps, Flow, SameConfig, Cleared, FullOps, PlainOps,
                      KeyOps, LinkOps
  <1>4. y.do \in RouteOps => x.do \in RouteOps \cup {"route"} /\ y.c = x.c
    BY <1>1, <1>2 DEF Fits, LinuxOps, WindowsOps, Flow, SameConfig, Cleared, FullOps, PlainOps,
                      KeyOps, RouteOps
  <1>5. y.do = "up" => x.do = "link up"
    BY <1>1, <1>2 DEF Fits, LinuxOps, WindowsOps, Flow, SameConfig, Cleared, FullOps, PlainOps,
                      KeyOps
  <1>6. y.do = "tunnel" /\ y.c.ip # Nil => x.do = "up" /\ y.c = x.c
    BY <1>1, <1>2, ConfigFacts DEF Fits, LinuxOps, WindowsOps, HelperOps, Flow, SameConfig,
                      Cleared, FullOps, PlainOps, KeyOps
  <1>7. QED BY <1>3, <1>4, <1>5, <1>6

LEMMA UpAdvances ==
    ASSUME CtlInv, Linux, \A q \in Procs : UpAtHead(q), NEW p \in Procs, Busy(todo[p]),
           Advance(p), Grows, Effects(Head(todo[p]))
    PROVE  \A q \in Procs : UpAtHead(q)'
  <1> DEFINE x == Head(todo[p])
             y == Head(todo'[p])
  <1>1. /\ \A q \in Procs \ {p} : todo'[q] = todo[q]
        /\ todo'[p] # <<>> => Flow(x, y)
        /\ x \in HostStep
    BY Advances
  <1>2. ASSUME NEW q \in Procs \ {p} PROVE UpAtHead(q)'
    BY <1>1 DEF UpAtHead, AtStep, Through, Grows
  <1>3. todo[p] # <<>> /\ UpAtHead(p)
    BY DEF Busy
  <1>4. CASE todo'[p] = <<>>
    BY <1>2, <1>4 DEF UpAtHead, AtStep
  <1>5. CASE todo'[p] # <<>>
    <2>1. /\ y.do \in LinkOps => x.do \in LinkOps \cup {"link add"}
          /\ y.do \in RouteOps => x.do \in RouteOps \cup {"route"} /\ y.c = x.c
          /\ y.do = "up" => x.do = "link up"
          /\ y.do = "tunnel" /\ y.c.ip # Nil => x.do = "up" /\ y.c = x.c
      <3> HIDE DEF x, y
      <3> QED BY <1>1, <1>5, UpFlow
    <2>2. /\ x.do \in LinkOps => os.link
          /\ x.do \in RouteOps => x.c.ip \in os.routes
          /\ x.do = "up" => os.up
      BY <1>3 DEF UpAtHead, AtStep
    <2> HIDE DEF x, y
    <2>3. Effects(x) /\ "up" \in LinkOps \cap RouteOps
      BY DEF x, LinkOps, RouteOps
    <2>4. y.do \in LinkOps => os'.link
      BY <2>1, <2>2, <2>3 DEF Effects, Grows
    <2>5. y.do \in RouteOps => y.c.ip \in os'.routes
      BY <2>1, <2>2, <2>3 DEF Effects, Grows
    <2>6. y.do = "up" => os'.up
      BY <2>1, <2>3 DEF Effects
    <2>7. y.do = "tunnel" /\ y.c.ip # Nil => os'.link /\ os'.up /\ y.c.ip \in os'.routes
      BY <2>1, <2>2, <2>3 DEF Grows
    <2>8. UpAtHead(p)'
      BY <2>4, <2>5, <2>6, <2>7 DEF UpAtHead, AtStep, Through, y
    <2>9. QED BY <1>2, <2>8
  <1>6. QED BY <1>4, <1>5

\* A call begins, ends, or is about the key.
LEMMA UpKeeps ==
    ASSUME CtlInv, \A q \in Procs : UpAtHead(q), NEW p \in Procs, Grows, NEW r,
           todo' = [todo EXCEPT ![p] = r],
           r = <<>> \/ Head(r).do \notin LinkOps \cup {"tunnel"}
    PROVE  \A q \in Procs : UpAtHead(q)'
  <1>1. \A q \in Procs : todo'[q] = IF q = p THEN r ELSE todo[q]
    BY DEF CtlInv, TypeInv
  <1>2. UpAtHead(p)'
    BY <1>1 DEF UpAtHead, AtStep, LinkOps, RouteOps
  <1>3. ASSUME NEW q \in Procs \ {p} PROVE UpAtHead(q)'
    BY <1>1 DEF UpAtHead, AtStep, Through, Grows
  <1>4. QED BY <1>2, <1>3

\* What a step of the facade does to the tunnel of a snapshot.
Remembers(p, x) ==
    /\ x.do \in {"take", "tunnel", "send"} => snap' = snap
    /\ x.do = "connected" => snap' = [snap EXCEPT ![p].tun = tun[p]]
    /\ x.do = "disconnected" => snap' = [snap EXCEPT ![p].tun = Nil]
    /\ x.do = "key" => snap' = [snap EXCEPT ![p] = [@ EXCEPT !.key = x.s, !.of = snap[p].node]]
LEMMA SnapshotMoves ==
    ASSUME CtlInv, NEW p \in Procs, NEW x, Remembers(p, x),
           x.do \in {"take", "tunnel", "connected", "disconnected", "key", "send"}
    PROVE  /\ \A q \in Procs : snap'[q].tun \in {snap[q].tun, Nil, FileTunnel, tun[q]}
           /\ x.do \in {"take", "tunnel", "send", "key"} => snap'[p].tun = snap[p].tun
           /\ x.do = "connected" => snap'[p].tun = tun[p]
           /\ x.do = "disconnected" => snap'[p].tun = Nil
  <1>1. snap \in [Procs -> Snapshot]
    BY DEF CtlInv, TypeInv
  <1>2. CASE x.do \in {"take", "tunnel", "send"}
    BY <1>2 DEF Remembers
  <1>3. CASE x.do = "connected"
    <2>1. \A q \in Procs : snap'[q] = IF q = p THEN [snap[p] EXCEPT !.tun = tun[p]] ELSE snap[q]
      BY <1>1, <1>3 DEF Remembers
    <2>2. QED BY <1>1, <1>3, <2>1 DEF Snapshot
  <1>4. CASE x.do = "disconnected"
    <2>1. \A q \in Procs : snap'[q] = IF q = p THEN [snap[p] EXCEPT !.tun = Nil] ELSE snap[q]
      BY <1>1, <1>4 DEF Remembers
    <2>2. QED BY <1>1, <1>4, <2>1 DEF Snapshot
  <1>5. CASE x.do = "key"
    <2>1. \A q \in Procs : snap'[q] = IF q = p THEN [snap[p] EXCEPT !.key = x.s, !.of = snap[p].node]
                                     ELSE snap[q]
      BY <1>1, <1>5 DEF Remembers
    <2>2. QED BY <1>1, <1>5, <2>1 DEF Snapshot
  <1>6. QED BY <1>2, <1>3, <1>4, <1>5

\* The tunnels that are named, after a step that copies them.
LEMMA UpCopies ==
    ASSUME UpData, Grows,
           file'.has.tun \in {FileTunnel, Nil} \cup {snap[q].tun : q \in Procs},
           \A q \in Procs : tun'[q] \in {tun[q], Nil, FileTunnel},
           \A q \in Procs : snap'[q].tun \in {snap[q].tun, Nil, FileTunnel, tun[q]}
    PROVE  UpData'
  BY DEF UpData, Grows, FileTunnel, Through

LEMMA UpSteppers ==
    ASSUME CtlInv, Linux, UpData, \A q \in Procs : UpAtHead(q), NEW p \in Procs, Steps(p)
    PROVE  UpData' /\ \A q \in Procs : UpAtHead(q)'
  <1>1. IsCli
    BY LinuxIsCli DEF CtlInv, TypeInv
  <1>2. ASSUME os' = os PROVE Grows
    BY <1>2 DEF Grows
  <1>3. ASSUME NEW ops, AtStep(p, ops)
        PROVE  Busy(todo[p]) /\ Head(todo[p]).do \in ops /\ Head(todo[p]) \in HostStep
    BY <1>3, HeadFacts DEF AtStep
  <1>4. CASE OsStep(p)
    <2>1. Advance(p) /\ UNCHANGED <<file, tun, snap>> /\ Busy(todo[p])
      BY <1>3, <1>4 DEF OsStep, memory
    <2>2. Grows /\ Effects(Head(todo[p]))
      BY <1>4, LinuxGrows
    <2>3. UpData'
      BY <2>1, <2>2, UpCopies DEF FileTunnel
    <2>4. QED BY <2>1, <2>2, <2>3, UpAdvances
  <1>5. CASE WindowsStep(p)
    <2>1. AtStep(p, {"set address", "drop address"})
      BY <1>5 DEF WindowsStep
    <2>2. todo[p][1].do \in {"set address", "drop address"} /\ Fits(todo[p][1])
      BY <2>1, HeadFacts
    <2>3. QED BY <2>2 DEF Fits, WindowsOps
  <1>6. CASE BackendStep(p)
    <2> DEFINE ops == NeedIface \cup {"validate", "iface", "up", "down", "planned", "forget"}
    <2>1. AtStep(p, ops) /\ Advance(p) /\ UNCHANGED <<os, file, tun, snap>>
      BY <1>6 DEF BackendStep
    <2>2. "link add" \notin ops /\ "route" \notin ops /\ "link up" \notin ops
      BY DEF NeedIface
    <2> HIDE DEF ops
    <2>3. Busy(todo[p]) /\ Grows /\ Effects(Head(todo[p]))
      BY <1>2, <1>3, <2>1, <2>2 DEF Effects
    <2>4. UpData'
      BY <2>1, <2>3, UpCopies DEF FileTunnel
    <2>5. QED BY <2>1, <2>3, <2>4, UpAdvances
  <1>7. CASE FacadeStep(p)
    <2> DEFINE ops == {"take", "tunnel", "connected", "disconnected", "key", "send"}
               x == Head(todo[p])
    <2>1. AtStep(p, ops) /\ Advance(p) /\ UNCHANGED <<os, file>>
      BY <1>7 DEF FacadeStep
    <2>2. Busy(todo[p]) /\ Grows /\ Effects(Head(todo[p])) /\ x.do \in ops /\ x \in HostStep
      <3>1. "link add" \notin ops /\ "route" \notin ops /\ "link up" \notin ops
        OBVIOUS
      <3> HIDE DEF ops
      <3>2. QED BY <1>2, <1>3, <2>1, <3>1 DEF Effects
    <2>3. /\ tun' = IF x.do \in {"take", "tunnel"} THEN [tun EXCEPT ![p] = x.c.ip] ELSE tun
          /\ Remembers(p, x)
      BY <1>7 DEF FacadeStep, Remembers
    <2>4. x.do = "take" => x.c.ip = Nil
      BY <2>2, ConfigFacts DEF HostStep, Fits
    <2>5. x.do = "tunnel" /\ x.c.ip # Nil => Through(x.c.ip)
      BY <2>1 DEF UpAtHead, AtStep
    <2> HIDE DEF x
    <2>6. \A q \in Procs : snap'[q].tun \in {snap[q].tun, Nil, FileTunnel, tun[q]}
      BY <2>2, <2>3, SnapshotMoves
    <2>7. \A q \in Procs : tun'[q] # Nil => tun'[q] = tun[q] \/ (Through(x.c.ip) /\ tun'[q] = x.c.ip)
      <3>1. tun \in [Procs -> Ips \cup {Nil}]
        BY DEF CtlInv, TypeInv
      <3>2. CASE x.do \in {"take", "tunnel"}
        <4>1. \A q \in Procs : tun'[q] = IF q = p THEN x.c.ip ELSE tun[q]
          BY <2>3, <3>1, <3>2
        <4>2. x.c.ip # Nil => Through(x.c.ip)
          BY <2>4, <2>5, <3>2
        <4>3. QED BY <4>1, <4>2
      <3>3. CASE x.do \notin {"take", "tunnel"}
        BY <2>3, <3>3
      <3>4. QED BY <3>2, <3>3
    <2>8. UpData'
      BY <2>1, <2>6, <2>7 DEF UpData, FileTunnel, Through
    <2>9. QED BY <2>1, <2>2, <2>8, UpAdvances
  <1>8. CASE LoadKey(p)
    <2>1. Busy(todo[p]) /\ Head(todo[p]).do = "load key" /\ UNCHANGED <<os, file, tun, snap>>
      BY <1>8, LoadKeyMoves
    <2>2. Grows /\ Effects(Head(todo[p]))
      BY <1>2, <2>1 DEF Effects
    <2>3. UpData'
      BY <2>1, <2>2, UpCopies DEF FileTunnel
    <2>4. CASE Advance(p)
      BY <2>1, <2>2, <2>3, <2>4, UpAdvances
    <2>5. ASSUME NEW r, Keyed(p, r)
          PROVE  \A q \in Procs : UpAtHead(q)'
      <3>1. todo' = [todo EXCEPT ![p] = r] /\ Head(r).do \notin LinkOps \cup {"tunnel"}
        BY <2>5 DEF Keyed, KeyOps, LinkOps
      <3>2. QED BY <2>2, <3>1, UpKeeps
    <2>6. QED BY <1>8, <2>3, <2>4, <2>5, LoadKeyMoves
  <1>9. CASE FileStep(p)
    <2> DEFINE x == Head(todo[p])
    <2>1. /\ AtStep(p, FileOps) /\ os' = os
          /\ IF Len(todo[p]) = 1 THEN Exit(p) ELSE Advance(p) /\ UNCHANGED memory
          /\ file' = CASE x.do = "truncate" -> [is |-> "torn", has |-> Fresh]
                        [] x.do = "write" -> [is |-> "saved", has |-> snap[p]]
                        [] OTHER -> file
      BY <1>9 DEF FileStep
    <2>2. Busy(todo[p]) /\ Grows /\ Effects(x)
      <3>1. Busy(todo[p]) /\ x.do \in FileOps
        BY <1>3, <2>1
      <3> HIDE DEF x
      <3>2. QED BY <1>2, <2>1, <3>1 DEF FileOps, Effects
    <2>3. /\ \A q \in Procs : tun'[q] \in {tun[q], Nil, FileTunnel}
          /\ \A q \in Procs : snap'[q].tun \in {snap[q].tun, Nil, FileTunnel, tun[q]}
      BY <2>1, Nothing DEF Exit, memory, CtlInv, TypeInv
    <2>4. file'.has.tun \in {FileTunnel, Nil, snap[p].tun}
      BY <2>1, Nothing DEF FileTunnel
    <2>5. UpData'
      BY <2>2, <2>3, <2>4, UpCopies
    <2>6. CASE Exit(p)
      BY <2>2, <2>5, <2>6, UpKeeps DEF Exit
    <2>7. CASE Advance(p)
      BY <2>2, <2>5, <2>7, UpAdvances
    <2>8. QED BY <2>1, <2>6, <2>7
  <1>10. CASE HelperStep(p)
    <2>1. AtStep(p, {"show", "hide", "run", "halt"})
      BY <1>10 DEF HelperStep
    <2>2. todo[p][1].do \in {"show", "hide", "run", "halt"} /\ Fits(todo[p][1])
      BY <2>1, HeadFacts
    <2>3. QED BY <1>1, <2>2 DEF Fits, HelperOps
  <1>11. CASE Refused(p) \/ SendFails(p)
    <2>1. Exit(p) /\ UNCHANGED <<os, file>>
      BY <1>1, <1>11 DEF Refused, SendFails, Abort
    <2>2. /\ \A q \in Procs : tun'[q] \in {tun[q], Nil, FileTunnel}
          /\ \A q \in Procs : snap'[q].tun \in {snap[q].tun, Nil, FileTunnel, tun[q]}
      BY <2>1, Nothing DEF Exit, CtlInv, TypeInv
    <2>3. UpData'
      BY <1>2, <2>1, <2>2, UpCopies DEF FileTunnel
    <2>4. QED BY <1>2, <2>1, <2>3, UpKeeps DEF Exit
  <1>12. QED
    BY <1>4, <1>5, <1>6, <1>7, <1>8, <1>9, <1>10, <1>11 DEF Steps

LEMMA UpNext ==
    ASSUME CtlInv, UpInv, [Next]_vars
    PROVE  UpInv'
  <1> SUFFICES ASSUME Linux', "reboot" \notin past'
               PROVE  UpData' /\ \A q \in Procs : UpAtHead(q)'
    BY DEF UpInv
  <1>1. Linux /\ "reboot" \notin past /\ UpData /\ \A q \in Procs : UpAtHead(q)
    BY Constancy DEF UpInv, Linux
  <1>2. IsCli
    BY <1>1, LinuxIsCli DEF CtlInv, TypeInv
  <1>3. ASSUME os' = os PROVE Grows
    BY <1>3 DEF Grows
  <1>4. CASE Calls
    <2>1. CASE StateClear
      <3>1. UNCHANGED <<os, todo, tun, snap>> /\ file' = NoFile
        BY <2>1 DEF StateClear, memory
      <3>2. UpData'
        BY <1>1, <1>3, <3>1, Nothing, UpCopies
      <3>3. QED BY <1>1, <3>1, <3>2 DEF UpAtHead, AtStep, Through
    <2>2. ASSUME NEW p \in Procs, NEW w, NEW f, CliCall(p, w, f)
          PROVE  UpData' /\ \A q \in Procs : UpAtHead(q)'
      <3>1. /\ UNCHANGED <<os, file>> /\ snap' = [snap EXCEPT ![p] = w]
            /\ tun' = [tun EXCEPT ![p] = w.tun] /\ w.tun = file.has.tun
            /\ todo' = [todo EXCEPT ![p] = f] /\ Head(f).do \notin LinkOps \cup {"tunnel"}
        BY <2>2 DEF CliCall, CliRuns, LinkOps, Renamed
      <3>2. /\ \A q \in Procs : tun'[q] \in {tun[q], Nil, FileTunnel}
            /\ \A q \in Procs : snap'[q].tun \in {snap[q].tun, Nil, FileTunnel, tun[q]}
        BY <3>1 DEF CtlInv, TypeInv, FileTunnel
      <3>3. UpData'
        BY <1>1, <1>3, <3>1, <3>2, UpCopies DEF FileTunnel
      <3>4. QED BY <1>1, <1>3, <3>1, <3>3, UpKeeps
    <2>3. ASSUME NEW f, HelperCall(f)
          PROVE  FALSE
      BY <1>2, <2>3 DEF HelperCall, HelperRuns
    <2>4. CASE HelperRenames
      BY <1>2, <2>4 DEF HelperRenames, HelperIdentifies
    <2>5. QED BY <1>4, <2>1, <2>2, <2>3, <2>4, CallShape
  <1>5. CASE Reboot
    BY <1>5 DEF Reboot
  <1>6. ASSUME NEW p \in Procs, Steps(p)
        PROVE  UpData' /\ \A q \in Procs : UpAtHead(q)'
    BY <1>1, <1>6, UpSteppers
  <1>7. ASSUME NEW p \in Procs, StepFails(p) \/ Kill(p)
        PROVE  UpData' /\ \A q \in Procs : UpAtHead(q)'
    <2>1. Exit(p) /\ UNCHANGED <<os, file>>
      BY <1>2, <1>7 DEF StepFails, Kill, Abort
    <2>2. /\ \A q \in Procs : tun'[q] \in {tun[q], Nil, FileTunnel}
          /\ \A q \in Procs : snap'[q].tun \in {snap[q].tun, Nil, FileTunnel, tun[q]}
      BY <2>1, Nothing DEF Exit, CtlInv, TypeInv
    <2>3. UpData'
      BY <1>1, <1>3, <2>1, <2>2, UpCopies DEF FileTunnel
    <2>4. QED BY <1>1, <1>3, <2>1, <2>3, UpKeeps DEF Exit
  <1>8. CASE UNCHANGED vars
    BY <1>1, <1>8 DEF vars, UpData, UpAtHead, AtStep, Through, FileTunnel
  <1>9. QED BY <1>4, <1>5, <1>6, <1>7, <1>8 DEF Next
-----------------------------------------------------------------------------
(* The saved tunnel: its peer. *)

\* The peer of an establish is added when no other tunnel is named anywhere,
\* since a command that finds a tunnel in the state file cannot close it.
BeforePeer == {"validate", "link add", "private key", "mtu", "address", "iface", "check peer",
               "wg peer"}
AfterPeer == {"route", "planned", "check up", "link up", "up", "tunnel"}
EarlyOps == KeyOps \cup {"load key", "take"}
Known(i) == i # Nil /\ "reboot" \notin past => os.peers[i] # Nil
NoTunnel(p) == tun[p] = Nil /\ snap[p].tun = Nil /\ FileTunnel = Nil
PeerAtHead(p) ==
    /\ AtStep(p, AfterPeer) => Head(todo[p]).c.ip # Nil /\ Known(Head(todo[p]).c.ip)
    /\ AtStep(p, BeforePeer) => NoTunnel(p)
    /\ AtStep(p, EarlyOps \cup {"check remove"}) => iface[p] = Nil
    /\ AtStep(p, KeyOps \cup {"load key"}) /\ Then(todo[p]).do = "validate" => NoTunnel(p)
PeerData == Known(FileTunnel) /\ \A p \in Procs : Known(tun[p]) /\ Known(snap[p].tun)
PeerInv == Linux /\ "overlap" \notin past => PeerData /\ \A p \in Procs : PeerAtHead(p)

\* What comes before the steps that rely on the peer.
LEMMA PeerFlow ==
    ASSUME CtlInv, Linux, NEW x \in HostStep, NEW y, Flow(x, y)
    PROVE  /\ y.do \in AfterPeer =>
                \/ x.do \in AfterPeer \cup {"wg peer"} /\ x.do # "tunnel" /\ y.c = x.c
                \/ x.do = "check remove"
           /\ y.do \in BeforePeer =>
                \/ x.do \in BeforePeer
                \/ x.do \in {"load key", "key"} /\ y.do = "validate"
                \/ x.do = "tunnel" /\ x.c.ip = Nil
           /\ y.do \in EarlyOps \cup {"check remove"} => x.do \in EarlyOps
           /\ y.do \in KeyOps \cup {"load key"} => x.do \in {"store truncate", "store write"}
  <1>1. IsCli /\ host.backend # "memory"
    BY LinuxIsCli DEF CtlInv, TypeInv
  <1>2. x.do \in FullOps \cup PlainOps \cup KeyOps /\ Fits(x)
    BY GoodStepFacts DEF HostStep
  <1>3. y.do \in AfterPeer =>
           \/ x.do \in AfterPeer \cup {"wg peer"} /\ x.do # "tunnel" /\ y.c = x.c
           \/ x.do = "check remove"
    BY <1>1, <1>2 DEF Fits, LinuxOps, WindowsOps, HelperOps, Flow, SameConfig, Cleared, FullOps,
                      PlainOps, KeyOps, AfterPeer
  <1>4. y.do \in BeforePeer =>
           \/ x.do \in BeforePeer
           \/ x.do \in {"load key", "key"} /\ y.do = "validate"
           \/ x.do = "tunnel" /\ x.c.ip = Nil
    BY <1>1, <1>2 DEF Fits, LinuxOps, WindowsOps, HelperOps, Flow, SameConfig, Cleared, FullOps,
                      PlainOps, KeyOps, BeforePeer
  <1>5. y.do \in EarlyOps \cup {"check remove"} => x.do \in EarlyOps
    BY <1>1, <1>2 DEF Fits, LinuxOps, WindowsOps, HelperOps, Flow, SameConfig, Cleared, FullOps,
                      PlainOps, KeyOps, EarlyOps
  <1>6. y.do \in KeyOps \cup {"load key"} => x.do \in {"store truncate", "store write"}
    BY <1>1, <1>2 DEF Fits, LinuxOps, WindowsOps, HelperOps, Flow, SameConfig, Cleared, FullOps,
                      PlainOps, KeyOps
  <1>7. QED BY <1>3, <1>4, <1>5, <1>6

\* The step x of p disturbs no more than this.
PeerStep(p, x) ==
    /\ x.do # "check remove"
    /\ IF x.do = "wg peer" THEN os'.peers[x.c.ip] # Nil ELSE os'.peers = os.peers
    /\ x.do \in BeforePeer \cup KeyOps \cup {"load key"} =>
          tun'[p] = tun[p] /\ snap'[p].tun = snap[p].tun /\ FileTunnel' = FileTunnel
    /\ x.do \in EarlyOps => iface'[p] = iface[p]

LEMMA PeerAdvances ==
    ASSUME CtlInv, Linux, NEW p \in Procs, PeerAtHead(p), Busy(todo[p]), Advance(p),
           PeerStep(p, Head(todo[p])), past \subseteq past'
    PROVE  PeerAtHead(p)'
  <1> DEFINE x == Head(todo[p])
             y == Head(todo'[p])
  <1>1. /\ todo'[p] = Tail(todo[p]) /\ x \in HostStep
        /\ todo'[p] # <<>> => Flow(x, y)
    BY Advances
  <1>2. CASE todo'[p] = <<>>
    BY <1>2 DEF PeerAtHead, AtStep
  <1>3. CASE todo'[p] # <<>>
    <2>1. /\ y.do \in AfterPeer =>
               \/ x.do \in AfterPeer \cup {"wg peer"} /\ x.do # "tunnel" /\ y.c = x.c
               \/ x.do = "check remove"
          /\ y.do \in BeforePeer =>
               \/ x.do \in BeforePeer
               \/ x.do \in {"load key", "key"} /\ y.do = "validate"
               \/ x.do = "tunnel" /\ x.c.ip = Nil
          /\ y.do \in EarlyOps \cup {"check remove"} => x.do \in EarlyOps
          /\ y.do \in KeyOps \cup {"load key"} => x.do \in {"store truncate", "store write"}
      <3> HIDE DEF x, y
      <3> QED BY <1>1, <1>3, PeerFlow
    <2>2. /\ x.do \in AfterPeer => x.c.ip # Nil /\ Known(x.c.ip)
          /\ x.do \in BeforePeer => NoTunnel(p)
          /\ x.do \in EarlyOps => iface[p] = Nil
          /\ x.do \in KeyOps \cup {"load key"} /\ Then(todo[p]).do = "validate" => NoTunnel(p)
      BY DEF PeerAtHead, AtStep, Busy
    <2>3. PeerStep(p, x)
      OBVIOUS
    <2>4. /\ x.do \in {"load key", "key"} => Then(todo[p]) = y
          /\ x.do \in {"store truncate", "store write"} => Then(todo'[p]) = Then(todo[p])
      <3>1. x = todo[p][1]
        BY TailProgram
      <3>2. x.do \in {"load key", "key", "store truncate", "store write"} => KeyPhase(todo[p])
        BY <3>1 DEF KeyPhase, KeyOps
      <3>3. KeyPhase(todo[p]) =>
              /\ todo[p][1].do \in {"load key", "key"} => Head(Tail(todo[p])) = Then(todo[p])
              /\ todo[p][1].do \in {"store truncate", "store write"} =>
                    Then(Tail(todo[p])) = Then(todo[p])
        BY ThenStays
      <3> DEFINE d == x.do
      <3>4. x.do = todo[p][1].do
        BY <3>1
      <3> HIDE DEF x
      <3>5. QED BY <1>1, <3>2, <3>3, <3>4
    <2>5. x.do = "wg peer" => x.c.ip # Nil
      <3> HIDE DEF x
      <3>1. x \in GoodStep
        BY <1>1 DEF HostStep
      <3>2. "wg peer" \in FullOps
        BY DEF FullOps
      <3>3. QED BY <3>1, <3>2, GoodStepFacts, NilAssumption
    <2> HIDE DEF x, y
    <2>6. y.do \in AfterPeer => /\ y.c.ip # Nil
                                /\ "reboot" \notin past' => os'.peers[y.c.ip] # Nil
      BY <2>1, <2>2, <2>3, <2>5 DEF PeerStep, Known
    <2>7. y.do \in BeforePeer => NoTunnel(p)'
      <3>1. "tunnel" \in AfterPeer /\ "key" \in KeyOps
        BY DEF AfterPeer, KeyOps
      <3>2. QED BY <2>1, <2>2, <2>3, <2>4, <3>1 DEF PeerStep, NoTunnel
    <2>8. y.do \in EarlyOps \cup {"check remove"} => iface'[p] = Nil
      BY <2>1, <2>2, <2>3 DEF PeerStep
    <2>9. y.do \in KeyOps \cup {"load key"} /\ Then(todo'[p]).do = "validate" => NoTunnel(p)'
      <3>1. {"store truncate", "store write"} \subseteq KeyOps
        BY DEF KeyOps
      <3>2. QED BY <2>1, <2>2, <2>3, <2>4, <3>1 DEF PeerStep, NoTunnel
    <2>10. QED BY <2>6, <2>7, <2>8, <2>9 DEF PeerAtHead, AtStep, Known, y
  <1>4. QED BY <1>2, <1>3

\* While one process is busy, the others are idle and name no tunnel.
LEMMA OthersName ==
    ASSUME CtlInv, IsCli, "overlap" \notin past, NEW p \in Procs, Busy(todo[p]),
           NEW q \in Procs \ {p}
    PROVE  todo[q] = <<>> /\ tun[q] = Nil /\ snap[q].tun = Nil
  BY Nothing DEF CtlInv, Alone, Idle, Busy

LEMMA OthersStay ==
    ASSUME CtlInv, IsCli, "overlap" \notin past, NEW p \in Procs, Busy(todo[p]), PeerAtHead(p)',
           \A q \in Procs \ {p} : todo'[q] = todo[q]
    PROVE  \A q \in Procs : PeerAtHead(q)'
  BY OthersName DEF PeerAtHead, AtStep

LEMMA PeerCopies ==
    ASSUME PeerData, os'.peers = os.peers, past \subseteq past',
           file'.has.tun \in {FileTunnel, Nil} \cup {snap[q].tun : q \in Procs},
           \A q \in Procs : tun'[q] \in {tun[q], Nil, FileTunnel},
           \A q \in Procs : snap'[q].tun \in {snap[q].tun, Nil, FileTunnel, tun[q]}
    PROVE  PeerData'
  BY DEF PeerData, FileTunnel, Known

\* The peers and routes of the system.
Used(i) == os.peers[i] # Nil \/ i \in os.routes

\* On Linux only "wg peer" changes the peers, and it adds the one it names.
LEMMA LinuxPeers ==
    ASSUME CtlInv, Linux, NEW p \in Procs, OsStep(p)
    PROVE  LET x == Head(todo[p])
           IN  /\ IF x.do = "wg peer" THEN os'.peers[x.c.ip] # Nil ELSE os'.peers = os.peers
               /\ \A j \in Ips : Used(j)' => \/ Used(j)
                                             \/ x.do \in {"wg peer", "route"} /\ j = x.c.ip
  <1> DEFINE x == Head(todo[p])
  <1>1. x.do \in OsOps \ {"set address"} /\ os' = Programmed(x, snap[p].key)
    BY DEF OsStep, AtStep
  <1>2. x \in GoodStep
    <2>1. AtStep(p, OsOps \ {"set address"})
      BY DEF OsStep
    <2>2. QED BY <2>1, HeadFacts
  <1>3. /\ x.do \in {"link add", "private key", "mtu", "address", "wg peer", "route", "link up"}
        /\ x.do = "wg peer" => x.c.ip \in Ips /\ x.c.key # Nil
    <2> HIDE DEF x
    <2>1. /\ x.do \in FullOps \cup PlainOps \cup KeyOps
          /\ x.do \in FullOps => x.c.ip \in Ips /\ x.c.key \in Keys
      BY <1>2, GoodStepFacts
    <2>2. x.do \in {"link add", "private key", "mtu", "address", "wg peer", "route", "link up"}
      BY <1>1, <2>1 DEF FullOps, PlainOps, KeyOps, OsOps
    <2>3. "wg peer" \in FullOps
      BY DEF FullOps
    <2>4. QED BY <2>1, <2>2, <2>3, NilAssumption
  <1>4. os \in System
    BY DEF CtlInv, TypeInv
  <1> HIDE DEF x
  <1>5. CASE x.do = "wg peer"
    <2>1. /\ os'.peers = [i \in Ips |-> IF i = x.c.ip THEN x.c.key
                                        ELSE IF os.peers[i] = x.c.key THEN Nil ELSE os.peers[i]]
          /\ os'.routes = os.routes
      BY <1>1, <1>4, <1>5 DEF Programmed, System
    <2>2. QED BY <1>3, <1>5, <2>1 DEF x, Used
  <1>6. CASE x.do # "wg peer"
    <2>1. /\ os'.peers = os.peers
          /\ os'.routes = IF x.do = "route" THEN os.routes \cup {x.c.ip} ELSE os.routes
      BY <1>1, <1>3, <1>4, <1>6 DEF Programmed, System
    <2>2. QED BY <1>6, <2>1 DEF x, Used
  <1>7. QED BY <1>5, <1>6

\* What the step x of p does to the system, the facade and the snapshot.
PeerOps == {"check peer", "wg peer", "route", "planned"}
LinuxStep(p, x) ==
    /\ \A j \in Ips : Used(j)' => Used(j) \/ (x.do \in {"wg peer", "route"} /\ j = x.c.ip)
    /\ x.do = "tunnel" => tun'[p] = x.c.ip
    /\ x.do = "connected" => tun'[p] = tun[p] /\ snap'[p].tun = tun[p]
    /\ x.do = "disconnected" => snap'[p].tun = Nil
    /\ x.do \in {"send", "truncate"} => tun'[p] = tun[p] /\ snap'[p].tun = snap[p].tun
    /\ x.do \in {"connected", "take"} \cup KeyOps => FileTunnel' = FileTunnel
    /\ x.do = "iface" => iface'[p] # Nil
    /\ x.do \in PeerOps => iface'[p] = iface[p]

\* What disturbed the host stays as it is; only a send that fails strays.
LEMMA StepsKeep ==
    ASSUME NEW p \in Procs, Steps(p)
    PROVE  /\ past' = past /\ host' = host
           /\ stray \subseteq stray' /\ (stray' = stray \/ SendFails(p))
  BY DEF Steps, OsStep, WindowsStep, BackendStep, FacadeStep, LoadKey, FileStep, HelperStep,
         Refused, SendFails, Abort, history

\* How a process goes on: its call advances, reads a key, or ends.
Taken(p) == /\ Advance(p) /\ todo'[p] # <<>>
            /\ PeerStep(p, Head(todo[p])) /\ LinuxStep(p, Head(todo[p]))
KeyRead(p) == /\ Head(todo[p]).do = "load key" /\ \E r : Keyed(p, r)
              /\ UNCHANGED <<os, file, tun, snap, iface>>
Ended(p) == /\ Exit(p) /\ os' = os
            /\ \/ (Refused(p) \/ SendFails(p)) /\ file' = file
               \/ Head(todo[p]).do = "write" /\ FileTunnel' = snap[p].tun

LEMMA LinuxMoves ==
    ASSUME CtlInv, Linux, "overlap" \notin past, PeerData, \A q \in Procs : PeerAtHead(q),
           NEW p \in Procs, Steps(p)
    PROVE  PeerData' /\ Busy(todo[p]) /\ (Taken(p) \/ KeyRead(p) \/ Ended(p))
  <1> DEFINE x == Head(todo[p])
  <1>1. IsCli /\ past' = past
    BY LinuxIsCli, StepsKeep DEF CtlInv, TypeInv
  <1>2. ASSUME NEW ops, AtStep(p, ops)
        PROVE  Busy(todo[p]) /\ x.do \in ops /\ x \in HostStep
    BY <1>2, HeadFacts DEF AtStep
  <1>3. ASSUME Busy(todo[p]), Advance(p), x.do # "write"
        PROVE  todo'[p] # <<>>
    BY <1>1, <1>3, Advances DEF Ends
  <1>4. ASSUME Exit(p)
        PROVE  /\ \A q \in Procs : tun'[q] \in {tun[q], Nil, FileTunnel}
               /\ \A q \in Procs : snap'[q].tun \in {snap[q].tun, Nil, FileTunnel, tun[q]}
    BY <1>4, Nothing DEF Exit, CtlInv, TypeInv
  <1>5. CASE OsStep(p)
    <2> DEFINE ops == OsOps \ {"set address"}
    <2>1. AtStep(p, ops) /\ Advance(p) /\ UNCHANGED <<file, tun, snap, iface>>
      BY <1>5 DEF OsStep, memory
    <2>2. Busy(todo[p]) /\ x.do \in ops
      BY <1>2, <2>1
    <2>3. /\ IF x.do = "wg peer" THEN os'.peers[x.c.ip] # Nil ELSE os'.peers = os.peers
          /\ \A j \in Ips : Used(j)' => Used(j) \/ (x.do \in {"wg peer", "route"} /\ j = x.c.ip)
      BY <1>5, LinuxPeers
    <2>4. x.do = "wg peer" => NoTunnel(p)
      <3>1. "wg peer" \in BeforePeer
        BY DEF BeforePeer
      <3>2. QED BY <2>1, <3>1 DEF PeerAtHead, AtStep
    <2> HIDE DEF x
    <2>5. PeerStep(p, x) /\ x.do # "write"
      BY <2>1, <2>2, <2>3 DEF PeerStep, FileTunnel, OsOps
    <2>6. LinuxStep(p, x)
      BY <2>1, <2>2, <2>3 DEF LinuxStep, OsOps, KeyOps
    <2>7. PeerData'
      <3>1. CASE x.do = "wg peer"
        <4>1. FileTunnel' = Nil /\ \A q \in Procs : tun'[q] = Nil /\ snap'[q].tun = Nil
          BY <1>1, <2>1, <2>2, <2>4, <3>1, OthersName DEF NoTunnel, FileTunnel
        <4>2. QED BY <4>1 DEF PeerData, Known
      <3>2. CASE x.do # "wg peer"
        BY <1>1, <2>1, <2>3, <3>2, PeerCopies DEF FileTunnel
      <3>3. QED BY <3>1, <3>2
    <2>8. QED BY <1>3, <2>1, <2>2, <2>5, <2>6, <2>7 DEF x, Taken
  <1>6. CASE WindowsStep(p)
    <2>1. AtStep(p, {"set address", "drop address"})
      BY <1>6 DEF WindowsStep
    <2>2. todo[p][1].do \in {"set address", "drop address"} /\ Fits(todo[p][1])
      BY <2>1, HeadFacts
    <2>3. QED BY <2>2 DEF Fits, WindowsOps
  <1>7. CASE BackendStep(p)
    <2> DEFINE ops == NeedIface \cup {"validate", "iface", "up", "down", "planned", "forget"}
    <2>1. /\ AtStep(p, ops) /\ Advance(p) /\ UNCHANGED <<os, file, tun, snap>>
          /\ x.do \in NeedIface => iface[p] # Nil
          /\ iface' = CASE x.do = "iface" ->
                             [iface EXCEPT ![p] = [local |-> x.c.local, up |-> FALSE]]
                        [] x.do \in {"up", "down"} /\ iface[p] # Nil ->
                             [iface EXCEPT ![p].up = (x.do = "up")]
                        [] OTHER -> iface
      BY <1>7 DEF BackendStep
    <2>2. Busy(todo[p]) /\ x.do \in ops
      <3> HIDE DEF ops
      <3> QED BY <1>2, <2>1
    <2>3. x.do # "check remove"
      BY <2>1 DEF PeerAtHead, AtStep, NeedIface
    <2> HIDE DEF x
    <2>4. PeerStep(p, x) /\ x.do # "write"
      BY <2>1, <2>2, <2>3 DEF PeerStep, FileTunnel, NeedIface, EarlyOps, KeyOps
    <2>5. /\ x.do = "iface" => iface'[p] # Nil
          /\ x.do \in PeerOps => iface'[p] = iface[p]
      <3>1. ASSUME x.do = "iface" PROVE iface'[p] # Nil
        <4>1. iface'[p] = [local |-> x.c.local, up |-> FALSE]
          BY <2>1, <3>1 DEF CtlInv, TypeInv
        <4>2. x.c.local \in Locals
          <5>1. x \in GoodStep
            BY <2>1, HeadFacts DEF x
          <5>2. QED BY <3>1, <5>1, GoodStepFacts DEF FullOps
        <4>3. iface'[p] \in Runtime
          BY <4>1, <4>2 DEF Runtime
        <4>4. QED BY <4>3, NilAssumption
      <3>2. QED BY <2>1, <3>1 DEF PeerOps
    <2>6. LinuxStep(p, x)
      BY <2>1, <2>2, <2>5 DEF LinuxStep, Used, NeedIface, KeyOps, FileTunnel
    <2>7. PeerData'
      BY <1>1, <2>1, PeerCopies DEF FileTunnel
    <2>8. QED BY <1>3, <2>1, <2>2, <2>4, <2>6, <2>7 DEF x, Taken
  <1>8. CASE FacadeStep(p)
    <2> DEFINE ops == {"take", "tunnel", "connected", "disconnected", "key", "send"}
    <2>1. AtStep(p, ops) /\ Advance(p) /\ UNCHANGED <<os, file, iface>>
      BY <1>8 DEF FacadeStep
    <2>2. Busy(todo[p]) /\ x.do \in ops /\ x \in HostStep
      <3> HIDE DEF ops
      <3> QED BY <1>2, <2>1
    <2>3. /\ tun' = IF x.do \in {"take", "tunnel"} THEN [tun EXCEPT ![p] = x.c.ip] ELSE tun
          /\ Remembers(p, x)
      BY <1>8 DEF FacadeStep, Remembers
    <2>4. x.do = "take" => x.c.ip = Nil
      BY <2>2, ConfigFacts DEF HostStep, Fits
    <2>5. x.do = "tunnel" => Known(x.c.ip)
      BY <2>1 DEF PeerAtHead, AtStep, AfterPeer
    <2> HIDE DEF x
    <2>6. /\ \A q \in Procs : snap'[q].tun \in {snap[q].tun, Nil, FileTunnel, tun[q]}
          /\ x.do \in {"key", "send"} => snap'[p].tun = snap[p].tun
          /\ x.do = "connected" => snap'[p].tun = tun[p]
          /\ x.do = "disconnected" => snap'[p].tun = Nil
      BY <2>2, <2>3, SnapshotMoves
    <2>7. /\ \A q \in Procs : \/ tun'[q] = tun[q] \/ tun'[q] = Nil
                              \/ Known(x.c.ip) /\ tun'[q] = x.c.ip
          /\ x.do = "tunnel" => tun'[p] = x.c.ip
      <3>1. tun \in [Procs -> Ips \cup {Nil}]
        BY DEF CtlInv, TypeInv
      <3>2. CASE x.do \in {"take", "tunnel"}
        <4>1. \A q \in Procs : tun'[q] = IF q = p THEN x.c.ip ELSE tun[q]
          BY <2>3, <3>1, <3>2
        <4>2. x.c.ip # Nil => Known(x.c.ip)
          BY <2>4, <2>5, <3>2
        <4>3. QED BY <4>1, <4>2
      <3>3. CASE x.do \notin {"take", "tunnel"}
        BY <2>3, <3>3
      <3>4. QED BY <3>2, <3>3
    <2>8. PeerData'
      BY <1>1, <2>1, <2>6, <2>7 DEF PeerData, FileTunnel, Known
    <2>9. PeerStep(p, x) /\ x.do # "write"
      BY <2>1, <2>2, <2>3, <2>6 DEF PeerStep, FileTunnel, BeforePeer, EarlyOps, KeyOps
    <2>10. LinuxStep(p, x)
      BY <2>1, <2>2, <2>3, <2>6, <2>7 DEF LinuxStep, FileTunnel, Used, PeerOps
    <2>11. QED BY <1>3, <2>1, <2>2, <2>8, <2>9, <2>10 DEF x, Taken
  <1>9. CASE LoadKey(p)
    <2>1. Busy(todo[p]) /\ x.do = "load key" /\ UNCHANGED <<os, file, tun, snap, iface>>
      BY <1>9, LoadKeyMoves
    <2>2. PeerData'
      BY <1>1, <2>1, PeerCopies DEF FileTunnel
    <2>3. CASE Advance(p)
      <3> HIDE DEF x
      <3>1. PeerStep(p, x) /\ LinuxStep(p, x)
        BY <2>1 DEF PeerStep, LinuxStep, FileTunnel, Used, PeerOps
      <3>2. QED BY <1>3, <2>1, <2>2, <2>3, <3>1 DEF x, Taken
    <2>4. QED BY <1>9, <2>1, <2>2, <2>3, LoadKeyMoves DEF KeyRead
  <1>10. CASE FileStep(p)
    <2>1. /\ AtStep(p, FileOps) /\ os' = os
          /\ IF Len(todo[p]) = 1 THEN Exit(p) ELSE Advance(p) /\ UNCHANGED memory
          /\ file' = CASE x.do = "truncate" -> [is |-> "torn", has |-> Fresh]
                        [] x.do = "write" -> [is |-> "saved", has |-> snap[p]]
                        [] OTHER -> file
      BY <1>10 DEF FileStep
    <2>2. Busy(todo[p]) /\ x.do \in FileOps
      BY <1>2, <2>1
    <2>3. file'.has.tun \in {FileTunnel, Nil, snap[p].tun}
      BY <2>1, Nothing DEF FileTunnel
    <2>4. CASE Len(todo[p]) = 1
      <3>1. x.do = "write"
        BY <1>1, <2>2, <2>4, TailProgram DEF Ends
      <3>2. FileTunnel' = snap[p].tun
        BY <2>1, <3>1 DEF FileTunnel
      <3>3. PeerData'
        BY <1>1, <1>4, <2>1, <2>3, <2>4, PeerCopies
      <3>4. QED BY <2>1, <2>2, <2>4, <3>1, <3>2, <3>3 DEF Ended
    <2>5. CASE Len(todo[p]) # 1
      <3>1. Advance(p) /\ UNCHANGED memory
        BY <2>1, <2>5
      <3>2. PeerData'
        BY <1>1, <2>1, <2>3, <3>1, PeerCopies DEF memory
      <3>3. todo'[p] # <<>>
        BY <2>2, <2>5, <3>1, Advances, TailProgram
      <3> HIDE DEF x
      <3>4. PeerStep(p, x)
        BY <2>1, <2>2, <3>1 DEF PeerStep, FileTunnel, FileOps, memory, BeforePeer, KeyOps
      <3>5. LinuxStep(p, x)
        BY <2>1, <2>2, <3>1 DEF LinuxStep, FileTunnel, FileOps, memory, Used, KeyOps
      <3>6. QED BY <2>2, <3>1, <3>2, <3>3, <3>4, <3>5 DEF x, Taken
    <2>6. QED BY <2>4, <2>5
  <1>11. CASE HelperStep(p)
    <2>1. AtStep(p, {"show", "hide", "run", "halt"})
      BY <1>11 DEF HelperStep
    <2>2. todo[p][1].do \in {"show", "hide", "run", "halt"} /\ Fits(todo[p][1])
      BY <2>1, HeadFacts
    <2>3. QED BY <1>1, <2>2 DEF Fits, HelperOps
  <1>12. CASE Refused(p) \/ SendFails(p)
    <2>1. Exit(p) /\ UNCHANGED <<os, file>> /\ todo[p] # <<>>
      BY <1>1, <1>12 DEF Refused, SendFails, Abort, AtStep
    <2>2. Busy(todo[p])
      BY <2>1 DEF Busy, CtlInv, Programs
    <2>3. PeerData'
      BY <1>1, <1>4, <2>1, PeerCopies DEF FileTunnel
    <2>4. QED BY <1>12, <2>1, <2>2, <2>3 DEF Ended
  <1>13. QED
    BY <1>5, <1>6, <1>7, <1>8, <1>9, <1>10, <1>11, <1>12 DEF Steps

LEMMA PeerSteppers ==
    ASSUME CtlInv, Linux, "overlap" \notin past, PeerData, \A q \in Procs : PeerAtHead(q),
           NEW p \in Procs, Steps(p)
    PROVE  PeerData' /\ \A q \in Procs : PeerAtHead(q)'
  <1>1. IsCli
    BY LinuxIsCli DEF CtlInv, TypeInv
  <1>2. PeerData' /\ Busy(todo[p])
    BY LinuxMoves
  <1>3. PeerAtHead(p)' /\ \A q \in Procs \ {p} : todo'[q] = todo[q]
    <2>1. CASE Taken(p)
      BY <1>2, <2>1, StepsKeep, PeerAdvances, Advances DEF Taken
    <2>2. CASE KeyRead(p)
      <3>1. PICK r : Keyed(p, r)
        BY <2>2 DEF KeyRead
      <3>2. /\ \A q \in Procs \ {p} : todo'[q] = todo[q]
            /\ todo'[p] = r /\ Head(r).do \in KeyOps /\ Then(r) = Then(todo[p])
        BY <3>1 DEF Keyed, CtlInv, TypeInv
      <3>3. /\ iface[p] = Nil
            /\ Then(todo[p]).do = "validate" => NoTunnel(p)
        BY <1>2, <2>2 DEF PeerAtHead, AtStep, EarlyOps, Busy, KeyRead
      <3>4. Head(r).do \notin AfterPeer \cup BeforePeer
        BY <3>2 DEF AfterPeer, BeforePeer, KeyOps
      <3>5. PeerAtHead(p)'
        BY <2>2, <3>2, <3>3, <3>4 DEF PeerAtHead, AtStep, NoTunnel, FileTunnel, KeyRead
      <3>6. QED BY <3>2, <3>5
    <2>3. CASE Ended(p)
      BY <2>3 DEF Ended, Exit, PeerAtHead, AtStep, CtlInv, TypeInv
    <2>4. QED BY <2>1, <2>2, <2>3, LinuxMoves
  <1>4. QED BY <1>1, <1>2, <1>3, OthersStay

LEMMA PeerNext ==
    ASSUME CtlInv, PeerInv, [Next]_vars
    PROVE  PeerInv'
  <1> SUFFICES ASSUME Linux', "overlap" \notin past'
               PROVE  PeerData' /\ \A q \in Procs : PeerAtHead(q)'
    BY DEF PeerInv
  <1>1. /\ Linux /\ past \subseteq past' /\ "overlap" \notin past
        /\ PeerData /\ \A q \in Procs : PeerAtHead(q)
    BY Constancy DEF PeerInv, Linux
  <1>2. IsCli
    BY <1>1, LinuxIsCli DEF CtlInv, TypeInv
  <1>3. CASE Calls
    <2>1. CASE StateClear
      <3>1. UNCHANGED <<os, todo, iface, tun, snap>> /\ file' = NoFile
        BY <2>1 DEF StateClear, memory
      <3>2. PeerData'
        BY <1>1, <3>1, Nothing, PeerCopies
      <3>3. FileTunnel' = Nil
        BY <3>1, Nothing DEF FileTunnel
      <3>4. QED BY <1>1, <3>1, <3>2, <3>3 DEF PeerAtHead, AtStep, Known, NoTunnel
    <2>2. ASSUME NEW p \in Procs, NEW w, NEW f, CliCall(p, w, f)
          PROVE  PeerData' /\ \A q \in Procs : PeerAtHead(q)'
      <3>1. /\ UNCHANGED <<os, file, iface>> /\ snap' = [snap EXCEPT ![p] = w]
            /\ tun' = [tun EXCEPT ![p] = w.tun] /\ w.tun = file.has.tun
            /\ todo' = [todo EXCEPT ![p] = f] /\ Begins(FileTunnel, f)
            /\ \A q \in Procs : Idle(q)
            /\ Head(f).do \in {"load key", "take", "truncate"}
        BY <2>2 DEF CliCall, CliRuns, Renamed
      <3>2. /\ \A q \in Procs : tun'[q] \in {tun[q], Nil, FileTunnel}
            /\ \A q \in Procs : snap'[q].tun \in {snap[q].tun, Nil, FileTunnel, tun[q]}
            /\ \A q \in Procs : todo'[q] = IF q = p THEN f ELSE todo[q]
            /\ tun'[p] = FileTunnel /\ snap'[p].tun = FileTunnel /\ FileTunnel' = FileTunnel
        BY <3>1 DEF CtlInv, TypeInv, FileTunnel
      <3>3. PeerData'
        BY <1>1, <3>1, <3>2, PeerCopies DEF FileTunnel
      <3>4. iface'[p] = Nil
        BY <1>2, <3>1 DEF CtlInv, Alone
      <3>5. PeerAtHead(p)'
        BY <3>1, <3>2, <3>4 DEF PeerAtHead, AtStep, AfterPeer, BeforePeer, KeyOps, NoTunnel,
                                Begins, After
      <3>6. ASSUME NEW q \in Procs \ {p} PROVE PeerAtHead(q)'
        BY <3>1, <3>2 DEF PeerAtHead, AtStep, Idle
      <3>7. QED BY <3>3, <3>5, <3>6
    <2>3. ASSUME NEW f, HelperCall(f)
          PROVE  FALSE
      BY <1>2, <2>3 DEF HelperCall, HelperRuns
    <2>4. CASE HelperRenames
      BY <1>2, <2>4 DEF HelperRenames, HelperIdentifies
    <2>5. QED BY <1>3, <2>1, <2>2, <2>3, <2>4, CallShape
  <1>4. CASE Reboot
    <2>1. "reboot" \in past' /\ \A q \in Procs : todo'[q] = <<>>
      BY <1>4 DEF Reboot
    <2>2. QED BY <2>1 DEF PeerData, PeerAtHead, AtStep, Known
  <1>5. ASSUME NEW p \in Procs, Steps(p)
        PROVE  PeerData' /\ \A q \in Procs : PeerAtHead(q)'
    BY <1>1, <1>5, PeerSteppers
  <1>6. ASSUME NEW p \in Procs, StepFails(p) \/ Kill(p)
        PROVE  PeerData' /\ \A q \in Procs : PeerAtHead(q)'
    <2>1. Exit(p) /\ UNCHANGED <<os, file>>
      BY <1>2, <1>6 DEF StepFails, Kill, Abort
    <2>2. /\ \A q \in Procs : tun'[q] \in {tun[q], Nil, FileTunnel}
          /\ \A q \in Procs : snap'[q].tun \in {snap[q].tun, Nil, FileTunnel, tun[q]}
          /\ \A q \in Procs \ {p} : UNCHANGED <<todo[q], iface[q], tun[q], snap[q]>>
          /\ todo'[p] = <<>>
      BY <2>1, Nothing DEF Exit, CtlInv, TypeInv
    <2>3. PeerData'
      BY <1>1, <2>1, <2>2, PeerCopies DEF FileTunnel
    <2>4. PeerAtHead(p)'
      BY <2>2 DEF PeerAtHead, AtStep
    <2>5. ASSUME NEW q \in Procs \ {p} PROVE PeerAtHead(q)'
      BY <1>1, <2>1, <2>2 DEF PeerAtHead, AtStep, Known, NoTunnel, FileTunnel
    <2>6. QED BY <2>3, <2>4, <2>5
  <1>7. CASE UNCHANGED vars
    BY <1>1, <1>7 DEF vars, history, PeerData, PeerAtHead, AtStep, Known, NoTunnel, FileTunnel
  <1>8. QED BY <1>3, <1>4, <1>5, <1>6, <1>7 DEF Next

LEMMA SavedInit ==
    ASSUME Init
    PROVE  UpInv /\ PeerInv
  <1>1. /\ FileTunnel = Nil
        /\ \A p \in Procs : todo[p] = <<>> /\ tun[p] = Nil /\ snap[p].tun = Nil
    BY Nothing DEF Init, FileTunnel
  <1>2. UpInv
    BY <1>1 DEF UpInv, UpData, UpAtHead, AtStep
  <1>3. PeerInv
    BY <1>1 DEF PeerInv, PeerData, PeerAtHead, AtStep, Known
  <1>4. QED BY <1>2, <1>3

\* Whatever step of the Linux command line client fails and whenever it is
\* killed, the tunnel that its state file names leads through an interface that
\* is up and a route until the machine restarts; if no two commands overlapped,
\* WireGuard knows its peer.
THEOREM SavedTunnelStaysUp == Spec => []SavedTunnelIsUp
  <1>1. Init => UpInv /\ PeerInv
    BY SavedInit
  <1>2. CtlInv /\ UpInv /\ PeerInv /\ [Next]_vars => UpInv' /\ PeerInv'
    BY UpNext, PeerNext
  <1>3. UpInv /\ PeerInv => SavedTunnelIsUp
    BY DEF UpInv, UpData, Through, PeerInv, PeerData, Known, SavedTunnelIsUp
  <1>4. QED BY <1>1, <1>2, <1>3, CallsFollowTheirPath, PTL DEF Spec
-----------------------------------------------------------------------------
(* Nothing is left behind: peers and routes of the system. *)

Only(i) == \A j \in Ips : Used(j) => j = i \/ j \in stray
\* Only a command that finds no tunnel in the state file gets to an establish;
\* the state file may be cleared at any time.
AnyOps == KeyOps \cup {"load key", "take", "check remove", "connected", "disconnected"}
          \cup BeforePeer \cup AfterPeer \cup SaveOps
LinuxAtHead(p) ==
    /\ AtStep(p, EarlyOps) => Only(tun[p]) /\ Only(FileTunnel)
    /\ AtStep(p, {"connected"}) => Only(tun[p])
    /\ AtStep(p, BeforePeer \cup {"disconnected"}) => Only(Nil)
    /\ AtStep(p, AfterPeer) => Only(Head(todo[p]).c.ip)
    /\ AtStep(p, PeerOps \cup {"check up"}) => iface[p] # Nil
    /\ AtStep(p, {"check remove"}) => Only(FileTunnel)
    /\ AtStep(p, {"take"}) => After(tun[p], Then(todo[p]))
    /\ AtStep(p, SaveOps) => Only(snap[p].tun) /\ Only(tun[p])
    /\ todo[p] # <<>> => AtStep(p, AnyOps)
LinuxInv == Linux /\ "overlap" \notin past =>
    /\ (\A p \in Procs : Idle(p)) => Only(FileTunnel)
    /\ \A p \in Procs : LinuxAtHead(p)

\* What comes before the steps around an establish.
LEMMA AroundFlow ==
    ASSUME CtlInv, Linux, NEW x \in HostStep, NEW y \in HostStep, Flow(x, y)
    PROVE  /\ y.do = "connected" => x.do \in {"load key", "key", "tunnel"}
           /\ y.do = "disconnected" => x.do \in {"take", "check remove"}
           /\ y.do = "check remove" => x.do \in {"load key", "key", "take"}
           /\ y.do # "take"
           /\ y.do \in SaveOps => x.do \in {"connected", "disconnected", "send", "truncate"}
           /\ y.do \in PeerOps \cup {"check up"} => x.do \in PeerOps \cup {"iface"}
           /\ x.do \in AnyOps => x.do = "check remove" \/ y.do \in AnyOps
  <1>1. IsCli /\ host.backend # "memory"
    BY LinuxIsCli DEF CtlInv, TypeInv
  <1>2. x.do \in FullOps \cup PlainOps \cup KeyOps /\ Fits(x) /\ Fits(y)
    BY GoodStepFacts DEF HostStep
  <1>3. /\ y.do = "connected" => x.do \in {"load key", "key", "tunnel"}
        /\ y.do = "disconnected" => x.do \in {"take", "check remove"}
    BY <1>1, <1>2 DEF Fits, LinuxOps, WindowsOps, HelperOps, Flow, SameConfig, Cleared, FullOps,
                      PlainOps, KeyOps
  <1>4. /\ y.do = "check remove" => x.do \in {"load key", "key", "take"}
        /\ y.do # "take"
    BY <1>1, <1>2 DEF Fits, LinuxOps, WindowsOps, HelperOps, Flow, SameConfig, Cleared, FullOps,
                      PlainOps, KeyOps
  <1>5. y.do \in SaveOps => x.do \in {"connected", "disconnected", "send", "truncate"}
    BY <1>1, <1>2 DEF Fits, LinuxOps, WindowsOps, HelperOps, Flow, SameConfig, Cleared, FullOps,
                      PlainOps, KeyOps, SaveOps
  <1>6. y.do \in PeerOps \cup {"check up"} => x.do \in PeerOps \cup {"iface"}
    BY <1>1, <1>2 DEF Fits, LinuxOps, WindowsOps, HelperOps, Flow, SameConfig, Cleared, FullOps,
                      PlainOps, KeyOps, PeerOps
  <1>7. ASSUME x.do \in AnyOps, x.do # "check remove"
        PROVE  y.do \in AnyOps
    <2>1. x.do \in KeyOps \cup {"load key"} => y.do \in AnyOps
      BY <1>1, <1>2 DEF Fits, Flow, KeyOps, AnyOps, BeforePeer, LinuxOps
    <2>2. x.do \in {"take", "connected", "disconnected"} \cup SaveOps => y.do \in AnyOps
      BY <1>1, <1>2 DEF Flow, SaveOps, AnyOps, Fits, LinuxOps, WindowsOps
    <2>3. x.do \in BeforePeer => y.do \in AnyOps
      BY <1>1, <1>2 DEF Flow, SameConfig, BeforePeer, AnyOps, AfterPeer
    <2>4. x.do \in AfterPeer => y.do \in AnyOps
      BY <1>1, <1>2 DEF Flow, SameConfig, BeforePeer, AnyOps, AfterPeer, Fits, WindowsOps,
                        HelperOps
    <2>5. QED BY <1>7, <2>1, <2>2, <2>3, <2>4 DEF AnyOps
  <1>8. QED BY <1>3, <1>4, <1>5, <1>6, <1>7

LEMMA LinuxAdvances ==
    ASSUME CtlInv, Linux, NEW p \in Procs, PeerAtHead(p), LinuxAtHead(p), Busy(todo[p]),
           Advance(p), PeerStep(p, Head(todo[p])), LinuxStep(p, Head(todo[p])),
           stray \subseteq stray'
    PROVE  LinuxAtHead(p)'
  <1> DEFINE x == Head(todo[p])
             y == Head(todo'[p])
  <1>1. /\ todo'[p] = Tail(todo[p]) /\ x \in HostStep
        /\ todo'[p] # <<>> => Flow(x, y) /\ y \in HostStep
    BY Advances
  <1>2. CASE todo'[p] = <<>>
    BY <1>2 DEF LinuxAtHead, AtStep
  <1>3. CASE todo'[p] # <<>>
    <2>1. /\ y.do \in AfterPeer =>
               \/ x.do \in AfterPeer \cup {"wg peer"} /\ x.do # "tunnel" /\ y.c = x.c
               \/ x.do = "check remove"
          /\ y.do \in BeforePeer =>
               \/ x.do \in BeforePeer
               \/ x.do \in {"load key", "key"} /\ y.do = "validate"
               \/ x.do = "tunnel" /\ x.c.ip = Nil
          /\ y.do \in KeyOps \cup {"load key"} => x.do \in {"store truncate", "store write"}
      <3> HIDE DEF x, y
      <3> QED BY <1>1, <1>3, PeerFlow
    <2>2. /\ y.do = "connected" => x.do \in {"load key", "key", "tunnel"}
          /\ y.do = "disconnected" => x.do \in {"take", "check remove"}
          /\ y.do = "check remove" => x.do \in {"load key", "key", "take"}
          /\ y.do # "take"
          /\ y.do \in SaveOps => x.do \in {"connected", "disconnected", "send", "truncate"}
          /\ y.do \in PeerOps \cup {"check up"} => x.do \in PeerOps \cup {"iface"}
          /\ x.do \in AnyOps => x.do = "check remove" \/ y.do \in AnyOps
      <3> HIDE DEF x, y
      <3> QED BY <1>1, <1>3, AroundFlow
    <2>3. /\ x.do \in AfterPeer => x.c.ip # Nil
          /\ x.do \in KeyOps \cup {"load key"} /\ Then(todo[p]).do = "validate" => NoTunnel(p)
      BY DEF PeerAtHead, AtStep, Busy
    <2>4. /\ x.do \in EarlyOps => Only(tun[p]) /\ Only(FileTunnel)
          /\ x.do = "connected" => Only(tun[p])
          /\ x.do \in BeforePeer \cup {"disconnected"} => Only(Nil)
          /\ x.do \in AfterPeer => Only(x.c.ip)
          /\ x.do \in PeerOps \cup {"check up"} => iface[p] # Nil
          /\ x.do = "take" => After(tun[p], Then(todo[p]))
          /\ x.do \in SaveOps => Only(snap[p].tun) /\ Only(tun[p])
          /\ x.do \in AnyOps
      BY DEF LinuxAtHead, AtStep, Busy
    <2>5. PeerStep(p, x) /\ LinuxStep(p, x)
      OBVIOUS
    <2>6. x.do \in {"load key", "key", "take"} => Then(todo[p]) = y
      <3>1. x = todo[p][1] /\ Tail(todo[p])[1] = todo[p][2] /\ Head(Tail(todo[p])) = Tail(todo[p])[1]
        <4>1. Busy(Tail(todo[p]))
          BY <1>1, <1>3, TailProgram DEF Busy
        <4>2. QED BY <1>1, <1>3, <4>1, TailProgram
      <3>2. x.do \in {"load key", "key", "take"} => Then(todo[p]) = todo[p][2]
        BY <3>1 DEF Then
      <3>3. QED BY <1>1, <3>1, <3>2
    <2>7. /\ "wg peer" \in BeforePeer /\ "route" \in AfterPeer /\ "tunnel" \in AfterPeer
          /\ EarlyOps = {"store truncate", "store write", "key", "load key", "take"}
          /\ KeyOps = {"store truncate", "store write", "key"}
          /\ SaveOps = {"send", "truncate", "write"}
          /\ "route" \notin BeforePeer /\ "wg peer" \notin AfterPeer
          /\ "check remove" \notin BeforePeer \cup AfterPeer
          /\ x.do # "check remove"
      BY <2>5 DEF BeforePeer, AfterPeer, SaveOps, KeyOps, EarlyOps, PeerStep
    <2> HIDE DEF x, y
    <2>8. ASSUME NEW i, Only(i), x.do \notin {"wg peer", "route"}
          PROVE  \A j \in Ips : Used(j)' => j = i \/ j \in stray'
      BY <2>5, <2>8 DEF Only, LinuxStep
    <2>9. ASSUME Only(Nil)', NEW i PROVE \A j \in Ips : Used(j)' => j = i \/ j \in stray'
      <3>1. \A j \in Ips : j # Nil
        BY NilAssumption
      <3>2. QED BY <2>9, <3>1 DEF Only
    <2>10. y.do \in EarlyOps => Only(tun[p])' /\ Only(FileTunnel)'
      <3>1. ASSUME y.do \in EarlyOps
            PROVE  x.do \in EarlyOps \ {"take"} /\ tun'[p] = tun[p] /\ FileTunnel' = FileTunnel
        BY <2>1, <2>2, <2>5, <2>7, <3>1 DEF PeerStep
      <3>2. QED BY <2>4, <2>7, <2>8, <3>1 DEF Only
    <2>11. y.do = "connected" => Only(tun[p])'
      <3>1. CASE x.do = "tunnel"
        BY <2>4, <2>5, <2>7, <2>8, <3>1 DEF LinuxStep, Only
      <3>2. CASE x.do \in {"load key", "key"}
        <4>1. tun'[p] = tun[p]
          BY <2>5, <2>7, <3>2 DEF PeerStep
        <4>2. QED BY <2>4, <2>7, <2>8, <3>2, <4>1 DEF Only
      <3>3. QED BY <2>2, <3>1, <3>2
    <2>12. y.do \in AfterPeer => \A j \in Ips : Used(j)' => j = y.c.ip \/ j \in stray'
      <3>1. \A j \in Ips : j # Nil
        BY NilAssumption
      <3>2. QED BY <2>1, <2>4, <2>5, <2>7, <3>1 DEF PeerStep, LinuxStep, Only
    <2>13. y.do \in BeforePeer => Only(Nil)'
      <3>1. CASE y.do \in BeforePeer /\ x.do \in BeforePeer
        <4>1. x.do # "wg peer"
          BY <1>1, <1>3, <3>1 DEF Flow, SameConfig, BeforePeer
        <4>2. x.do \notin {"wg peer", "route"}
          BY <2>7, <3>1, <4>1
        <4>3. QED BY <2>4, <2>8, <3>1, <4>2 DEF Only
      <3>2. CASE x.do \in {"load key", "key"} /\ y.do = "validate"
        <4>1. NoTunnel(p) /\ x.do \in KeyOps \cup {"load key"}
          BY <2>3, <2>6, <2>7, <3>2
        <4>2. Only(Nil)
          BY <2>4, <2>7, <3>2, <4>1 DEF NoTunnel
        <4>3. QED BY <2>8, <3>2, <4>2 DEF Only
      <3>3. QED BY <2>1, <2>3, <2>7, <3>1, <3>2
    <2>14. y.do = "disconnected" => Only(Nil)'
      <3>1. ASSUME y.do = "disconnected"
            PROVE  Only(Nil)'
        <4>1. x.do = "take"
          BY <2>2, <2>7, <3>1
        <4>2. tun[p] = Nil
          BY <2>4, <2>6, <3>1, <4>1 DEF After
        <4>3. QED BY <2>4, <2>7, <2>8, <4>1, <4>2 DEF Only
      <3>2. QED BY <3>1
    <2>15. y.do = "check remove" => Only(FileTunnel)'
      <3>1. ASSUME y.do = "check remove"
            PROVE  x.do \in EarlyOps /\ FileTunnel' = FileTunnel
        BY <2>2, <2>5, <2>7, <3>1 DEF PeerStep, LinuxStep
      <3>2. QED BY <2>4, <2>7, <2>8, <3>1 DEF Only
    <2>16. y.do \in SaveOps => Only(snap[p].tun)' /\ Only(tun[p])'
      <3>1. CASE x.do = "connected"
        <4>1. snap'[p].tun = tun[p] /\ tun'[p] = tun[p]
          BY <2>5, <3>1 DEF LinuxStep
        <4>2. QED BY <2>4, <2>8, <3>1, <4>1 DEF Only
      <3>2. CASE x.do = "disconnected"
        <4>1. Only(Nil)'
          BY <2>4, <2>8, <3>2 DEF Only
        <4>2. QED BY <2>9, <4>1 DEF Only
      <3>3. CASE x.do \in {"send", "truncate"}
        <4>1. snap'[p].tun = snap[p].tun /\ tun'[p] = tun[p]
          BY <2>5, <3>3 DEF LinuxStep
        <4>2. QED BY <2>4, <2>7, <2>8, <3>3, <4>1 DEF Only
      <3>4. QED BY <2>2, <3>1, <3>2, <3>3
    <2>17. y.do \in PeerOps \cup {"check up"} => iface'[p] # Nil
      BY <2>2, <2>4, <2>5 DEF LinuxStep
    <2>18. y.do # "take" /\ y.do \in AnyOps
      BY <2>2, <2>4, <2>7
    <2>19. QED
      BY <1>3, <2>10, <2>11, <2>12, <2>13, <2>14, <2>15, <2>16, <2>17, <2>18
         DEF LinuxAtHead, AtStep, Only, y
  <1>4. QED BY <1>2, <1>3

\* A call that ends half-way leaves no more behind than its tunnel, and the
\* tunnel of its next step.
LEMMA LinuxEnds ==
    ASSUME CtlInv, NEW p \in Procs, todo[p] # <<>>, LinuxAtHead(p), os' = os, file' = file,
           stray' = stray \cup Asked(p)
    PROVE  Only(FileTunnel)'
  <1> DEFINE x == Head(todo[p])
  <1>1. /\ x.do \in EarlyOps => Only(tun[p])
        /\ x.do = "connected" => Only(tun[p])
        /\ x.do \in BeforePeer \cup {"disconnected"} => Only(Nil)
        /\ x.do \in AfterPeer => Only(x.c.ip)
        /\ x.do = "check remove" => Only(FileTunnel)
        /\ x.do \in SaveOps => Only(tun[p])
        /\ x.do \in AnyOps
    BY DEF LinuxAtHead, AtStep
  <1>2. \E i : Only(i) /\ (i = FileTunnel \/ i = Nil \/ i \in Asked(p))
    <2>1. tun[p] = Nil \/ tun[p] \in Asked(p)
      BY AskedTypes DEF CtlInv
    <2>2. x.do \in AfterPeer => x.c.ip = Nil \/ x.c.ip \in Asked(p)
      <3>1. AfterPeer \subseteq ConfigOps
        BY DEF AfterPeer, ConfigOps
      <3>2. QED BY <3>1, AskedTypes DEF CtlInv, AtStep
    <2> HIDE DEF x
    <2>3. x.do \in EarlyOps \cup {"connected", "disconnected", "check remove"} \cup BeforePeer
                   \cup AfterPeer \cup SaveOps
      BY <1>1 DEF AnyOps, EarlyOps
    <2>4. QED BY <1>1, <2>1, <2>2, <2>3
  <1>3. PICK i : Only(i) /\ (i = FileTunnel \/ i = Nil \/ i \in Asked(p))
    BY <1>2
  <1>4. \A j \in Ips : j # Nil
    BY NilAssumption
  <1>5. \A j \in Ips : Used(j)' => Used(j)
    BY DEF Used
  <1>6. FileTunnel' = FileTunnel
    BY DEF FileTunnel
  <1>7. QED BY <1>3, <1>4, <1>5, <1>6 DEF Only

LEMMA LinuxSteppers ==
    ASSUME CtlInv, Linux, "overlap" \notin past, PeerData, \A q \in Procs : PeerAtHead(q),
           LinuxInv, NEW p \in Procs, Steps(p)
    PROVE  /\ (\A q \in Procs : Idle(q)') => Only(FileTunnel)'
           /\ \A q \in Procs : LinuxAtHead(q)'
  <1>1. IsCli /\ stray \subseteq stray'
    BY LinuxIsCli, StepsKeep DEF CtlInv, TypeInv
  <1>2. Busy(todo[p]) /\ (Taken(p) \/ KeyRead(p) \/ Ended(p))
    BY LinuxMoves
  <1>3. LinuxAtHead(p)
    BY DEF LinuxInv
  <1>4. ASSUME NEW i, Only(i), os' = os
        PROVE  \A j \in Ips : Used(j)' => j = i \/ j \in stray'
    BY <1>1, <1>4 DEF Only, Used
  <1>5. /\ todo'[p] = <<>> => Only(FileTunnel)'
        /\ LinuxAtHead(p)' /\ \A q \in Procs \ {p} : todo'[q] = todo[q]
    <2>1. CASE Taken(p)
      BY <1>1, <1>2, <1>3, <2>1, LinuxAdvances, Advances DEF Taken
    <2>2. CASE KeyRead(p)
      <3>1. PICK r : Keyed(p, r)
        BY <2>2 DEF KeyRead
      <3>2. /\ \A q \in Procs \ {p} : todo'[q] = todo[q]
            /\ todo'[p] = r /\ Head(r).do \in KeyOps /\ r # <<>>
        BY <3>1 DEF Keyed, CtlInv, TypeInv, Busy
      <3>3. Only(tun[p]) /\ Only(FileTunnel)
        BY <1>2, <1>3, <2>2 DEF LinuxAtHead, AtStep, Busy, KeyRead, EarlyOps
      <3>4. /\ Head(r).do \notin AfterPeer \cup BeforePeer \cup PeerOps \cup SaveOps
            /\ Head(r).do \notin {"connected", "disconnected", "take", "check remove", "check up"}
            /\ Head(r).do \in AnyOps
        BY <3>2 DEF AfterPeer, BeforePeer, KeyOps, PeerOps, SaveOps, AnyOps
      <3>5. Only(tun[p])' /\ Only(FileTunnel)'
        <4>1. tun' = tun /\ FileTunnel' = FileTunnel /\ os' = os
          BY <2>2 DEF KeyRead, FileTunnel
        <4>2. QED BY <1>4, <3>3, <4>1 DEF Only
      <3>6. LinuxAtHead(p)'
        BY <3>2, <3>4, <3>5 DEF LinuxAtHead, AtStep
      <3>7. QED BY <3>2, <3>6
    <2>3. CASE Ended(p)
      <3>1. /\ \A q \in Procs \ {p} : todo'[q] = todo[q]
            /\ todo'[p] = <<>> /\ os' = os
        BY <2>3 DEF Ended, Exit, CtlInv, TypeInv
      <3>2. LinuxAtHead(p)'
        BY <3>1 DEF LinuxAtHead, AtStep
      <3>3. CASE Refused(p) /\ file' = file
        <4>1. \/ AtStep(p, NeedIface \cup {"drop address"}) /\ iface[p] = Nil
              \/ AtStep(p, {"validate"})
              \/ AtStep(p, {"load key"})
          BY <3>3 DEF Refused
        <4>2. CASE AtStep(p, NeedIface \cup {"drop address"}) /\ iface[p] = Nil
          <5>1. todo[p][1].do \in NeedIface \cup {"drop address"} /\ Fits(todo[p][1])
                /\ Head(todo[p]) = todo[p][1]
            BY <4>2, HeadFacts
          <5>2. Head(todo[p]).do \in {"check peer", "check up", "check remove"}
            BY <1>1, <5>1 DEF NeedIface, Fits, HelperOps
          <5>3. Head(todo[p]).do \notin {"check peer", "check up"}
            BY <1>3, <4>2 DEF LinuxAtHead, AtStep, PeerOps
          <5>4. Only(FileTunnel)
            BY <1>2, <1>3, <5>2, <5>3 DEF LinuxAtHead, AtStep, Busy
          <5>5. FileTunnel' = FileTunnel
            BY <3>3 DEF FileTunnel
          <5>6. QED BY <1>4, <3>1, <3>2, <5>4, <5>5 DEF Only
        <4>3. ASSUME AtStep(p, {"validate"}) PROVE Only(FileTunnel)'
          <5>1. Only(Nil)
            BY <1>3, <4>3 DEF LinuxAtHead, AtStep, BeforePeer
          <5>2. \A j \in Ips : j # Nil
            BY NilAssumption
          <5>3. QED BY <1>4, <3>1, <5>1, <5>2 DEF Only
        <4>4. ASSUME AtStep(p, {"load key"}) PROVE Only(FileTunnel)'
          <5>1. Only(FileTunnel)
            BY <1>3, <4>4 DEF LinuxAtHead, AtStep, EarlyOps
          <5>2. FileTunnel' = FileTunnel
            BY <3>3 DEF FileTunnel
          <5>3. QED BY <1>4, <3>1, <5>1, <5>2 DEF Only
        <4>5. QED BY <3>1, <3>2, <4>1, <4>2, <4>3, <4>4
      <3>4. CASE SendFails(p) /\ file' = file
        <4>1. todo[p] # <<>> /\ stray' = stray \cup Asked(p)
          BY <3>4 DEF SendFails, AtStep
        <4>2. Only(FileTunnel)'
          BY <1>3, <3>1, <3>4, <4>1, LinuxEnds
        <4>3. QED BY <3>1, <3>2, <4>2
      <3>5. CASE Head(todo[p]).do = "write" /\ FileTunnel' = snap[p].tun
        <4>1. Only(snap[p].tun)
          BY <1>2, <1>3, <3>5 DEF LinuxAtHead, AtStep, SaveOps, Busy
        <4>2. Only(FileTunnel)'
          BY <1>4, <3>1, <3>5, <4>1 DEF Only
        <4>3. QED BY <3>1, <3>2, <4>2
      <3>6. QED BY <2>3, <3>3, <3>4, <3>5 DEF Ended
    <2>4. QED BY <1>2, <2>1, <2>2, <2>3
  <1>6. ASSUME NEW q \in Procs \ {p} PROVE LinuxAtHead(q)'
    BY <1>1, <1>2, <1>5, OthersName DEF LinuxAtHead, AtStep
  <1>7. QED BY <1>5, <1>6 DEF Idle

LEMMA LinuxNext ==
    ASSUME CtlInv, PeerInv, LinuxInv, [Next]_vars
    PROVE  LinuxInv'
  <1> SUFFICES ASSUME Linux', "overlap" \notin past'
               PROVE  /\ (\A q \in Procs : Idle(q)') => Only(FileTunnel)'
                      /\ \A q \in Procs : LinuxAtHead(q)'
    BY DEF LinuxInv
  <1>1. /\ Linux /\ "overlap" \notin past /\ PeerData /\ \A q \in Procs : PeerAtHead(q)
        /\ (\A q \in Procs : Idle(q)) => Only(FileTunnel)
        /\ \A q \in Procs : LinuxAtHead(q)
    BY Constancy DEF PeerInv, LinuxInv, Linux
  <1>2. IsCli
    BY <1>1, LinuxIsCli DEF CtlInv, TypeInv
  <1>3. CASE Calls
    <2>1. CASE StateClear
      <3>1. /\ UNCHANGED <<os, todo, iface, tun, snap>> /\ FileTunnel' = Nil
            /\ stray' = stray \cup ({FileTunnel} \ {Nil})
        BY <2>1, Nothing DEF StateClear, memory, FileTunnel
      <3>2. \A j \in Ips : j # Nil
        BY NilAssumption
      <3>3. Only(FileTunnel) => Only(FileTunnel)'
        BY <3>1, <3>2 DEF Only, Used
      <3>4. ASSUME NEW i, Only(i) PROVE \A j \in Ips : Used(j)' => j = i \/ j \in stray'
        BY <3>1, <3>4 DEF Only, Used
      <3>5. ASSUME NEW q \in Procs PROVE LinuxAtHead(q)'
        <4>1. LinuxAtHead(q)
          BY <1>1
        <4>2. /\ AtStep(q, EarlyOps \cup {"connected"}) => Only(tun[q])'
              /\ AtStep(q, BeforePeer \cup {"disconnected"}) => Only(Nil)'
              /\ AtStep(q, AfterPeer) => Only(Head(todo[q]).c.ip)'
              /\ AtStep(q, EarlyOps \cup {"check remove"}) => Only(FileTunnel)'
              /\ AtStep(q, SaveOps) => Only(snap[q].tun)' /\ Only(tun[q])'
          BY <3>1, <3>3, <3>4, <4>1 DEF LinuxAtHead, AtStep, Only
        <4>3. /\ AtStep(q, PeerOps \cup {"check up"}) => iface'[q] # Nil
              /\ AtStep(q, {"take"}) => After(tun'[q], Then(todo'[q]))
              /\ todo[q] # <<>> => AtStep(q, AnyOps)
          BY <3>1, <4>1 DEF LinuxAtHead
        <4>4. QED BY <3>1, <4>2, <4>3 DEF LinuxAtHead, AtStep
      <3>6. QED BY <1>1, <3>1, <3>3, <3>5 DEF Idle
    <2>2. ASSUME NEW p \in Procs, NEW w, NEW f, CliCall(p, w, f)
          PROVE  /\ (\A q \in Procs : Idle(q)') => Only(FileTunnel)'
                 /\ \A q \in Procs : LinuxAtHead(q)'
      <3>1. /\ UNCHANGED <<os, file, iface, stray>> /\ snap' = [snap EXCEPT ![p] = w]
            /\ tun' = [tun EXCEPT ![p] = w.tun] /\ w.tun = file.has.tun
            /\ todo' = [todo EXCEPT ![p] = f] /\ Begins(FileTunnel, f)
            /\ \A q \in Procs : Idle(q)
            /\ Head(f).do \in {"load key", "take", "truncate"}
        BY <2>2 DEF CliCall, CliRuns, Renamed
      <3>2. /\ \A q \in Procs : todo'[q] = IF q = p THEN f ELSE todo[q]
            /\ tun'[p] = FileTunnel /\ snap'[p].tun = FileTunnel /\ FileTunnel' = FileTunnel
        BY <3>1 DEF CtlInv, TypeInv, FileTunnel
      <3>3. Only(FileTunnel) /\ Only(FileTunnel)'
        BY <1>1, <3>1, <3>2 DEF Only, Used
      <3>4. /\ Head(f).do \notin AfterPeer \cup BeforePeer \cup PeerOps
            /\ Head(f).do \notin {"connected", "disconnected", "check remove", "check up"}
            /\ Head(f).do \in AnyOps
        BY <3>1 DEF AfterPeer, BeforePeer, PeerOps, AnyOps, SaveOps
      <3>5. Only(tun[p])' /\ Only(snap[p].tun)'
        BY <3>2, <3>3 DEF Only
      <3>6. LinuxAtHead(p)'
        BY <3>1, <3>2, <3>3, <3>4, <3>5 DEF LinuxAtHead, AtStep, Begins
      <3>7. ASSUME NEW q \in Procs \ {p} PROVE LinuxAtHead(q)'
        BY <3>1, <3>2 DEF LinuxAtHead, AtStep, Idle
      <3>8. QED BY <3>3, <3>6, <3>7
    <2>3. ASSUME NEW f, HelperCall(f)
          PROVE  FALSE
      BY <1>2, <2>3 DEF HelperCall, HelperRuns
    <2>4. CASE HelperRenames
      BY <1>2, <2>4 DEF HelperRenames, HelperIdentifies
    <2>5. QED BY <1>3, <2>1, <2>2, <2>3, <2>4, CallShape
  <1>4. ASSUME NEW p \in Procs, Steps(p)
        PROVE  /\ (\A q \in Procs : Idle(q)') => Only(FileTunnel)'
               /\ \A q \in Procs : LinuxAtHead(q)'
    BY <1>1, <1>4, LinuxSteppers
  <1>5. ASSUME NEW p \in Procs, StepFails(p) \/ Kill(p)
        PROVE  /\ (\A q \in Procs : Idle(q)') => Only(FileTunnel)'
               /\ \A q \in Procs : LinuxAtHead(q)'
    <2>1. /\ Exit(p) /\ UNCHANGED <<os, file>> /\ todo[p] # <<>>
          /\ stray' = stray \cup Asked(p)
      BY <1>2, <1>5 DEF StepFails, Kill, Abort, AtStep
    <2>2. /\ todo'[p] = <<>>
          /\ \A q \in Procs \ {p} : todo'[q] = todo[q]
      BY <2>1 DEF Exit, CtlInv, TypeInv
    <2>3. Only(FileTunnel)'
      BY <1>1, <2>1, LinuxEnds
    <2>4. \A q \in Procs \ {p} : todo[q] = <<>>
      BY <1>1, <1>2, <2>1, OthersName DEF Busy, CtlInv, Programs
    <2>5. \A q \in Procs : todo'[q] = <<>>
      BY <2>2, <2>4
    <2>6. QED BY <2>3, <2>5 DEF LinuxAtHead, AtStep
  <1>6. CASE Reboot
    <2>1. os' = NoSystem /\ \A q \in Procs : todo'[q] = <<>>
      BY <1>1, <1>6 DEF Reboot
    <2>2. \A j \in Ips : ~Used(j)'
      BY <2>1 DEF Used, NoSystem, NoPeers
    <2>3. QED BY <2>1, <2>2 DEF LinuxAtHead, AtStep, Only
  <1>7. CASE UNCHANGED vars
    BY <1>1, <1>7 DEF vars, history, LinuxAtHead, AtStep, Only, Used, FileTunnel, Idle
  <1>8. QED BY <1>3, <1>4, <1>5, <1>6, <1>7 DEF Next
-----------------------------------------------------------------------------
(* Nothing is left behind: peers that the helper has planned. *)

Plans(i) == /\ i # Nil => planned[Main][i] # Nil
            /\ \A j \in Ips : planned[Main][j] # Nil => j = i \/ j \in stray
Shows(i) == Plans(i) /\ shown = i
Settled == Shows(tun[Main]) /\ (tun[Main] # Nil => snap[Main].tun = tun[Main])
\* What holds before the step x of a call of the facade, which the step next
\* follows once there is a key, and which ends with the operation last.
HelperAt(x, next, last) ==
    /\ x.do \in KeyOps \cup {"load key"} =>
          Settled /\ After(tun[Main], next) /\ last = "connected"
    /\ x.do = "take" => Shows(tun[Main]) /\ After(tun[Main], next)
    /\ x.do \in {"validate", "iface", "planned"} => Shows(Nil) /\ tun[Main] = Nil
    /\ x.do \in {"planned", "check up"} => iface[Main] # Nil \/ host.backend = "memory"
    /\ x.do \in UpOps => x.c.ip # Nil /\ Plans(x.c.ip) /\ shown = Nil /\ tun[Main] = Nil
    /\ x.do \in {"run", "forget"} => x.c.ip # Nil
    /\ x.do \in {"run", "forget", "tunnel"} => Shows(x.c.ip)
    /\ x.do = "hide" => Plans(Nil) /\ shown = x.c.ip
    /\ x.do = "connected" => Shows(tun[Main])
    /\ x.do = "disconnected" => Shows(Nil)
    /\ x.do \in {"forget", "hide", "disconnected"} /\ last = "disconnected" => tun[Main] = Nil
    /\ x.do \notin {"halt", "check down", "drop address", "down"}
InCall == /\ HelperAt(Head(todo[Main]), Then(todo[Main]), Last(todo[Main]).do)
          /\ Last(todo[Main]).do \in {"connected", "disconnected"}
HelperInv == ~IsCli /\ "direct" \notin past => IF todo[Main] = <<>> THEN Settled ELSE InCall

\* What comes before each step of the helper.
LEMMA HelperFlow ==
    ASSUME CtlInv, ~IsCli, NEW x \in HostStep, NEW y \in HostStep, Flow(x, y)
    PROVE  /\ y.do \in KeyOps \cup {"load key"} => x.do \in {"store truncate", "store write"}
           /\ y.do # "take"
           /\ y.do \in {"validate", "planned"} => \/ x.do \in {"load key", "key", "iface"}
                                                  \/ x.do = "tunnel" /\ x.c.ip = Nil
           /\ y.do = "planned" => x.do = "iface" \/ host.backend = "memory"
           /\ y.do = "iface" => x.do = "validate"
           /\ y.do \in UpOps => x.do \in UpOps \cup {"planned"} /\ x.do # "show" /\ y.c = x.c
           /\ y.do = "check up" => x.do = "planned"
           /\ y.do = "run" => y.c = x.c /\ (x.do = "show" \/ (x.do = "up" /\ x.c.ip = Nil))
           /\ y.do = "forget" => x.do \in {"load key", "key", "take"}
           /\ y.do = "tunnel" => \/ x.do = "run" /\ y.c = x.c
                                 \/ x.do = "hide" /\ y.c.ip = Nil
           /\ y.do = "hide" => x.do = "forget" /\ y.c.ip = x.c.ip
           /\ y.do = "connected" => x.do \in {"load key", "key", "tunnel"}
           /\ y.do = "disconnected" => x.do \in {"hide", "take"}
           /\ y.do \in {"halt", "check down", "drop address", "down"} =>
                 x.do \in {"check down", "drop address", "down"}
  <1>1. ~Linux
    BY LinuxIsCli DEF CtlInv, TypeInv
  <1>2. /\ x.do \in FullOps \cup PlainOps \cup KeyOps /\ Fits(x) /\ Fits(y)
        /\ NoConfig.ip = Nil
    BY GoodStepFacts, ConfigFacts DEF HostStep
  <1>3. /\ x.do \notin LinuxOps \cup SaveOps /\ y.do \notin LinuxOps \cup SaveOps
    BY <1>1, <1>2 DEF Fits
  <1>4. /\ y.do \in KeyOps \cup {"load key"} => x.do \in {"store truncate", "store write"}
        /\ y.do # "take"
    BY <1>1, <1>2, <1>3 DEF Flow, SameConfig, Cleared, FullOps, PlainOps, KeyOps, LinuxOps, SaveOps
  <1>5. /\ y.do \in {"validate", "planned"} => \/ x.do \in {"load key", "key", "iface"}
                                               \/ x.do = "tunnel" /\ x.c.ip = Nil
        /\ y.do = "planned" => x.do = "iface" \/ host.backend = "memory"
        /\ y.do = "iface" => x.do = "validate"
    BY <1>1, <1>2, <1>3 DEF Flow, SameConfig, Cleared, FullOps, PlainOps, KeyOps, LinuxOps, SaveOps
  <1>6. /\ y.do \in UpOps => x.do \in UpOps \cup {"planned"} /\ x.do # "show" /\ y.c = x.c
        /\ y.do = "check up" => x.do = "planned"
    BY <1>1, <1>2, <1>3 DEF Flow, SameConfig, Cleared, FullOps, PlainOps, KeyOps, LinuxOps, SaveOps,
                            UpOps
  <1>7. /\ y.do = "run" => y.c = x.c /\ (x.do = "show" \/ (x.do = "up" /\ x.c.ip = Nil))
        /\ y.do = "forget" => x.do \in {"load key", "key", "take"}
    BY <1>1, <1>2, <1>3 DEF Flow, SameConfig, Cleared, FullOps, PlainOps, KeyOps, LinuxOps, SaveOps
  <1>8. /\ y.do = "tunnel" => \/ x.do = "run" /\ y.c = x.c
                              \/ x.do = "hide" /\ y.c.ip = Nil
        /\ y.do = "hide" => x.do = "forget" /\ y.c.ip = x.c.ip
    BY <1>1, <1>2, <1>3 DEF Flow, SameConfig, Cleared, FullOps, PlainOps, KeyOps, LinuxOps, SaveOps
  <1>9. /\ y.do = "connected" => x.do \in {"load key", "key", "tunnel"}
        /\ y.do = "disconnected" => x.do \in {"hide", "take"}
        /\ y.do \in {"halt", "check down", "drop address", "down"} =>
              x.do \in {"check down", "drop address", "down"}
    BY <1>1, <1>2, <1>3 DEF Flow, SameConfig, Cleared, FullOps, PlainOps, KeyOps, LinuxOps, SaveOps
  <1>10. QED BY <1>4, <1>5, <1>6, <1>7, <1>8, <1>9

\* What the step x of the helper does.
HelperEffect(x) ==
    /\ IF x.do \in {"planned", "forget"}
       THEN /\ planned'[Main][x.c.ip] = IF x.do = "planned" THEN x.c.key ELSE Nil
            /\ \A j \in Ips \ {x.c.ip} : planned'[Main][j] = planned[Main][j]
       ELSE planned' = planned
    /\ x.do = "iface" => iface'[Main] # Nil
    /\ x.do = "planned" => iface'[Main] = iface[Main]
    /\ shown' = CASE x.do = "show" -> x.c.ip
                  [] x.do = "hide" /\ shown = x.c.ip -> Nil
                  [] OTHER -> shown
    /\ tun'[Main] = IF x.do \in {"take", "tunnel"} THEN x.c.ip ELSE tun[Main]
    /\ snap'[Main].tun = CASE x.do = "connected" -> tun[Main]
                           [] x.do = "disconnected" -> Nil
                           [] OTHER -> snap[Main].tun
    /\ stray' = stray

\* The same of a step that comes after x, in the next state.
LEMMA HelperGoesOn ==
    ASSUME CtlInv, ~IsCli, NEW x \in HostStep, NEW y \in HostStep, Flow(x, y), NEW last,
           NEW next, NEW then, HelperAt(x, next, last), HelperEffect(x), host' = host,
           x.do \in {"load key", "key", "take"} => next = y,
           x.do \in {"store truncate", "store write"} => then = next
    PROVE  /\ y.do \in KeyOps \cup {"load key"} =>
                 Settled' /\ After(tun[Main]', then) /\ last = "connected"
           /\ y.do # "take"
           /\ y.do \in {"validate", "iface", "planned"} => Shows(Nil)' /\ tun'[Main] = Nil
           /\ y.do \in {"planned", "check up"} => iface'[Main] # Nil \/ host.backend = "memory"
           /\ y.do \in UpOps => y.c.ip # Nil /\ Plans(y.c.ip)' /\ shown' = Nil /\ tun'[Main] = Nil
           /\ y.do \in {"run", "forget"} => y.c.ip # Nil
           /\ y.do \in {"run", "forget", "tunnel"} => Shows(y.c.ip)'
           /\ y.do = "hide" => Plans(Nil)' /\ shown' = y.c.ip
           /\ y.do = "connected" => Shows(tun[Main])'
           /\ y.do = "disconnected" => Shows(Nil)'
           /\ y.do \in {"forget", "hide", "disconnected"} /\ last = "disconnected" =>
                 tun'[Main] = Nil
           /\ y.do \notin {"halt", "check down", "drop address", "down"}
  <1>1. /\ y.do \in KeyOps \cup {"load key"} => x.do \in {"store truncate", "store write"}
        /\ y.do # "take"
        /\ y.do \in {"validate", "planned"} => \/ x.do \in {"load key", "key", "iface"}
                                               \/ x.do = "tunnel" /\ x.c.ip = Nil
        /\ y.do = "planned" => x.do = "iface" \/ host.backend = "memory"
        /\ y.do = "iface" => x.do = "validate"
        /\ y.do \in UpOps => x.do \in UpOps \cup {"planned"} /\ x.do # "show" /\ y.c = x.c
        /\ y.do = "check up" => x.do = "planned"
        /\ y.do = "run" => y.c = x.c /\ (x.do = "show" \/ (x.do = "up" /\ x.c.ip = Nil))
        /\ y.do = "forget" => x.do \in {"load key", "key", "take"}
        /\ y.do = "tunnel" => \/ x.do = "run" /\ y.c = x.c
                              \/ x.do = "hide" /\ y.c.ip = Nil
        /\ y.do = "hide" => x.do = "forget" /\ y.c.ip = x.c.ip
        /\ y.do = "connected" => x.do \in {"load key", "key", "tunnel"}
        /\ y.do = "disconnected" => x.do \in {"hide", "take"}
        /\ y.do \in {"halt", "check down", "drop address", "down"} =>
              x.do \in {"check down", "drop address", "down"}
    BY HelperFlow
  <1>2. /\ x.do = "take" => x.c.ip = Nil
        /\ x.do \in {"planned", "show"} => x.c.ip \in Ips /\ x.c.ip # Nil /\ x.c.key # Nil
        /\ x.do = "forget" /\ x.c.ip # Nil => x.c.ip \in Ips
        /\ \A j \in Ips : j # Nil
    <2>1. x.do = "take" => x.c.ip = Nil
      BY ConfigFacts DEF HostStep, Fits
    <2>2. x \in GoodStep
      BY DEF HostStep
    <2>3. /\ x.do \in FullOps => x.c.ip \in Ips /\ x.c.key \in Keys
          /\ x.do \in FullOps \cup PlainOps => x.c.ip \in Ips \cup {Nil}
      BY <2>2, GoodStepFacts
    <2>4. "planned" \in FullOps /\ "show" \in FullOps /\ "forget" \in PlainOps
      BY DEF FullOps, PlainOps
    <2>5. QED BY <2>1, <2>3, <2>4, NilAssumption
  <1>3. HelperAt(x, next, last) /\ HelperEffect(x)
    OBVIOUS
  <1>4. /\ {"store truncate", "store write", "key"} \subseteq KeyOps
        /\ "load key" \notin KeyOps /\ "take" \notin KeyOps
        /\ {"store truncate", "store write", "key", "load key", "take", "validate", "iface", "run",
            "tunnel", "connected", "disconnected", "hide", "planned", "forget"} \cap UpOps = {}
        /\ UpOps = {"check up", "set address", "up", "show"}
    BY DEF KeyOps, UpOps
  <1>5. ASSUME NEW i, Plans(i), planned' = planned PROVE Plans(i)'
    BY <1>3, <1>5 DEF Plans, HelperEffect
  <1>6. ASSUME NEW i, Shows(i), planned' = planned, shown' = shown PROVE Shows(i)'
    BY <1>3, <1>6 DEF Plans, Shows, HelperEffect
  <1>7. ASSUME y.do \in KeyOps \cup {"load key"}
        PROVE  Settled' /\ After(tun[Main]', then) /\ last = "connected"
    <2>1. x.do \in {"store truncate", "store write"} /\ Settled /\ After(tun[Main], then)
          /\ last = "connected"
      BY <1>1, <1>3, <1>4, <1>7 DEF HelperAt
    <2>2. /\ planned' = planned /\ shown' = shown /\ tun'[Main] = tun[Main]
          /\ snap'[Main].tun = snap[Main].tun /\ stray' = stray
      BY <1>3, <2>1 DEF HelperEffect
    <2>3. QED BY <2>1, <2>2 DEF Settled, Shows, Plans
  <1>8. ASSUME y.do \in {"validate", "iface", "planned"}
        PROVE  Shows(Nil)' /\ tun'[Main] = Nil
    <2>1. CASE x.do \in {"validate", "iface"}
      <3>1. Shows(Nil) /\ tun[Main] = Nil
        BY <1>3, <2>1 DEF HelperAt
      <3>2. planned' = planned /\ shown' = shown /\ tun'[Main] = tun[Main]
        BY <1>3, <2>1 DEF HelperEffect
      <3>3. QED BY <1>6, <3>1, <3>2
    <2>2. CASE x.do \in {"load key", "key"}
      <3>1. Settled /\ After(tun[Main], y) /\ y.do \in {"validate", "planned"}
        BY <1>1, <1>3, <1>4, <1>8, <2>2 DEF HelperAt
      <3>2. planned' = planned /\ shown' = shown /\ tun'[Main] = tun[Main]
        BY <1>3, <2>2 DEF HelperEffect
      <3>3. tun[Main] = Nil /\ Shows(Nil)
        BY <3>1 DEF After, Settled
      <3>4. QED BY <1>6, <3>2, <3>3
    <2>3. CASE x.do = "tunnel" /\ x.c.ip = Nil
      <3>1. Shows(Nil)
        BY <1>3, <2>3 DEF HelperAt
      <3>2. planned' = planned /\ shown' = shown /\ tun'[Main] = Nil
        BY <1>3, <2>3 DEF HelperEffect
      <3>3. QED BY <1>6, <3>1, <3>2
    <2>4. QED BY <1>1, <1>8, <2>1, <2>2, <2>3
  <1>9. ASSUME y.do \in {"planned", "check up"}
        PROVE  iface'[Main] # Nil \/ host.backend = "memory"
    BY <1>1, <1>3, <1>9 DEF HelperAt, HelperEffect
  <1>10. ASSUME y.do \in UpOps
         PROVE  y.c.ip # Nil /\ Plans(y.c.ip)' /\ shown' = Nil /\ tun'[Main] = Nil
    <2>1. y.c = x.c
      BY <1>1, <1>10
    <2>2. CASE x.do = "planned"
      <3>1. Shows(Nil) /\ x.c.ip # Nil /\ tun[Main] = Nil
        BY <1>2, <1>3, <2>2 DEF HelperAt
      <3>2. /\ planned'[Main][x.c.ip] # Nil
            /\ \A j \in Ips \ {x.c.ip} : planned'[Main][j] = planned[Main][j]
            /\ shown' = shown /\ stray' = stray /\ tun'[Main] = tun[Main]
        BY <1>2, <1>3, <2>2 DEF HelperEffect
      <3>3. \A j \in Ips \ {x.c.ip} : planned'[Main][j] # Nil => j \in stray
        BY <1>2, <3>1, <3>2 DEF Shows, Plans
      <3>4. Plans(y.c.ip)'
        BY <2>1, <3>2, <3>3 DEF Plans
      <3>5. QED BY <2>1, <3>1, <3>2, <3>4 DEF Shows
    <2>3. CASE x.do \in UpOps /\ x.do # "show"
      <3>1. x.c.ip # Nil /\ Plans(x.c.ip) /\ shown = Nil /\ tun[Main] = Nil
        BY <1>3, <2>3 DEF HelperAt
      <3>2. planned' = planned /\ shown' = shown /\ tun'[Main] = tun[Main]
        BY <1>3, <1>4, <2>3 DEF HelperEffect
      <3>3. QED BY <1>5, <2>1, <3>1, <3>2
    <2>4. QED BY <1>1, <1>10, <2>2, <2>3
  <1>11. ASSUME y.do = "run"
         PROVE  y.c.ip # Nil /\ Shows(y.c.ip)'
    <2>1. x.do = "show" /\ y.c = x.c
      BY <1>1, <1>3, <1>4, <1>11 DEF HelperAt
    <2>2. Plans(x.c.ip) /\ x.c.ip # Nil
      BY <1>3, <1>4, <2>1 DEF HelperAt
    <2>3. planned' = planned /\ shown' = x.c.ip /\ stray' = stray
      BY <1>3, <2>1 DEF HelperEffect
    <2>4. QED BY <2>1, <2>2, <2>3 DEF Shows, Plans
  <1>12. ASSUME y.do = "forget"
         PROVE  y.c.ip # Nil /\ Shows(y.c.ip)' /\ (last = "disconnected" => tun'[Main] = Nil)
    <2>1. /\ x.do \in {"load key", "key", "take"} /\ next = y
          /\ Shows(tun[Main]) /\ After(tun[Main], y)
          /\ x.do # "take" => last = "connected"
      BY <1>1, <1>3, <1>4, <1>12 DEF HelperAt, Settled
    <2>2. tun[Main] # Nil /\ y.c.ip = tun[Main]
      BY <1>12, <2>1 DEF After
    <2>3. /\ planned' = planned /\ shown' = shown
          /\ x.do = "take" => tun'[Main] = Nil
      BY <1>2, <1>3, <2>1 DEF HelperEffect
    <2>4. QED BY <1>6, <2>1, <2>2, <2>3
  <1>13. ASSUME y.do = "tunnel"
         PROVE  Shows(y.c.ip)'
    <2>1. CASE x.do = "run" /\ y.c = x.c
      BY <1>3, <1>6, <2>1 DEF HelperAt, HelperEffect
    <2>2. CASE x.do = "hide" /\ y.c.ip = Nil
      <3>1. Plans(Nil) /\ shown = x.c.ip
        BY <1>3, <2>2 DEF HelperAt
      <3>2. planned' = planned /\ shown' = Nil /\ stray' = stray
        BY <1>3, <2>2, <3>1 DEF HelperEffect
      <3>3. QED BY <2>2, <3>1, <3>2 DEF Shows, Plans
    <2>3. QED BY <1>1, <1>13, <2>1, <2>2
  <1>14. ASSUME y.do = "hide"
         PROVE  Plans(Nil)' /\ shown' = y.c.ip /\ (last = "disconnected" => tun'[Main] = Nil)
    <2>1. /\ x.do = "forget" /\ y.c.ip = x.c.ip /\ Shows(x.c.ip)
          /\ x.c.ip # Nil /\ x.c.ip \in Ips
          /\ last = "disconnected" => tun[Main] = Nil
      BY <1>1, <1>2, <1>3, <1>14 DEF HelperAt
    <2>2. /\ planned'[Main][x.c.ip] = Nil /\ shown' = shown /\ tun'[Main] = tun[Main]
          /\ \A j \in Ips \ {x.c.ip} : planned'[Main][j] = planned[Main][j]
      BY <1>3, <2>1 DEF HelperEffect
    <2>3. \A j \in Ips : planned'[Main][j] # Nil => j \in stray'
      BY <1>3, <2>1, <2>2 DEF Shows, Plans, HelperEffect
    <2>4. QED BY <1>2, <2>1, <2>2, <2>3 DEF Plans, Shows
  <1>15. ASSUME y.do = "connected"
         PROVE  Shows(tun[Main])'
    <2>1. CASE x.do = "tunnel"
      <3>1. Shows(x.c.ip) /\ planned' = planned /\ shown' = shown /\ tun'[Main] = x.c.ip
            /\ stray' = stray
        BY <1>3, <2>1 DEF HelperAt, HelperEffect
      <3>2. QED BY <3>1 DEF Shows, Plans
    <2>2. CASE x.do \in {"load key", "key"}
      <3>1. Shows(tun[Main]) /\ planned' = planned /\ shown' = shown /\ tun'[Main] = tun[Main]
            /\ stray' = stray
        BY <1>3, <1>4, <2>2 DEF HelperAt, HelperEffect, Settled
      <3>2. QED BY <3>1 DEF Shows, Plans
    <2>3. QED BY <1>1, <1>15, <2>1, <2>2
  <1>16. ASSUME y.do = "disconnected"
         PROVE  Shows(Nil)' /\ (last = "disconnected" => tun'[Main] = Nil)
    <2>1. CASE x.do = "hide"
      <3>1. Plans(Nil) /\ shown = x.c.ip /\ (last = "disconnected" => tun[Main] = Nil)
        BY <1>3, <2>1 DEF HelperAt
      <3>2. planned' = planned /\ shown' = Nil /\ tun'[Main] = tun[Main] /\ stray' = stray
        BY <1>3, <2>1, <3>1 DEF HelperEffect
      <3>3. QED BY <3>1, <3>2 DEF Shows, Plans
    <2>2. CASE x.do = "take"
      <3>1. Shows(tun[Main]) /\ After(tun[Main], y)
        BY <1>3, <2>2 DEF HelperAt
      <3>2. tun[Main] = Nil
        BY <1>16, <3>1 DEF After
      <3>3. planned' = planned /\ shown' = shown /\ tun'[Main] = Nil
        BY <1>2, <1>3, <2>2 DEF HelperEffect
      <3>4. QED BY <1>6, <3>1, <3>2, <3>3
    <2>3. QED BY <1>1, <1>16, <2>1, <2>2
  <1>17. y.do \notin {"halt", "check down", "drop address", "down"}
    BY <1>1, <1>3 DEF HelperAt
  <1>18. y.do # "take"
    BY <1>1
  <1>19. QED
    BY <1>7, <1>8, <1>9, <1>10, <1>11, <1>12, <1>13, <1>14, <1>15, <1>16, <1>17, <1>18

LEMMA HelperAdvances ==
    ASSUME CtlInv, ~IsCli, Busy(todo[Main]), InCall, Advance(Main), HelperEffect(Head(todo[Main])),
           host' = host
    PROVE  IF todo'[Main] = <<>> THEN Settled' ELSE InCall'
  <1> DEFINE s == todo[Main]
             r == todo'[Main]
             x == Head(todo[Main])
             y == Head(todo'[Main])
             last == Last(s).do
  <1>1. /\ r = Tail(s) /\ x \in HostStep
        /\ r # <<>> => Flow(x, y) /\ y \in HostStep
    BY ProcsAssumption, Advances
  <1>2. HelperAt(x, Then(s), last) /\ last \in {"connected", "disconnected"} /\ HelperEffect(x)
    BY DEF InCall
  <1>3. x = s[1]
    BY TailProgram
  <1>4. CASE r = <<>>
    <2>1. Len(s) = 1
      BY <1>1, <1>4, TailProgram
    <2>2. last = x.do
      BY <1>3, <2>1 DEF Last
    <2> HIDE DEF s, r, x, y, last
    <2>3. CASE x.do = "connected"
      <3>1. Shows(tun[Main]) /\ planned' = planned /\ shown' = shown /\ tun'[Main] = tun[Main]
            /\ snap'[Main].tun = tun[Main] /\ stray' = stray
        BY <1>2, <2>3 DEF HelperAt, HelperEffect
      <3>2. Settled'
        BY <3>1 DEF Settled, Shows, Plans
      <3>3. QED BY <1>4, <3>2 DEF r
    <2>4. CASE x.do = "disconnected"
      <3>1. /\ Shows(Nil) /\ planned' = planned /\ shown' = shown /\ tun'[Main] = tun[Main]
            /\ tun[Main] = Nil /\ stray' = stray
        BY <1>2, <2>2, <2>4 DEF HelperAt, HelperEffect
      <3>2. Settled'
        BY <3>1 DEF Settled, Shows, Plans
      <3>3. QED BY <1>4, <3>2 DEF r
    <2>5. QED BY <1>2, <2>2, <2>3, <2>4
  <1>5. CASE r # <<>>
    <2>1. Last(r) = Last(s) /\ r[1] = s[2] /\ y = r[1]
      <3>1. Busy(Tail(s))
        BY <1>1, <1>5, TailProgram DEF Busy
      <3>2. QED BY <1>1, <1>5, <3>1, TailProgram
    <2>2. x.do \in {"load key", "key", "take"} => Then(s) = y
      <3>1. x.do \in {"load key", "key", "take"} => Then(s) = s[2]
        BY <1>3 DEF Then
      <3>2. QED BY <2>1, <3>1
    <2>3. x.do \in {"store truncate", "store write"} => Then(r) = Then(s)
      <3>1. x.do \in {"store truncate", "store write"} => KeyPhase(s)
        BY <1>3 DEF KeyPhase, KeyOps
      <3>2. KeyPhase(s) /\ s[1].do \in {"store truncate", "store write"} => Then(Tail(s)) = Then(s)
        BY ThenStays
      <3> HIDE DEF s, r, x
      <3>3. QED BY <1>1, <1>3, <3>1, <3>2
    <2> DEFINE then == Then(r)
               next == Then(s)
    <2> HIDE DEF s, r, x, y, last, then, next
    <2>4. /\ y.do \in KeyOps \cup {"load key"} =>
                Settled' /\ After(tun[Main]', then) /\ last = "connected"
          /\ y.do # "take"
          /\ y.do \in {"validate", "iface", "planned"} => Shows(Nil)' /\ tun'[Main] = Nil
          /\ y.do \in {"planned", "check up"} => iface'[Main] # Nil \/ host.backend = "memory"
          /\ y.do \in {"run", "forget"} => y.c.ip # Nil
          /\ y.do = "hide" => Plans(Nil)' /\ shown' = y.c.ip
          /\ y.do = "connected" => Shows(tun[Main])'
          /\ y.do = "disconnected" => Shows(Nil)'
          /\ y.do \in {"forget", "hide", "disconnected"} /\ last = "disconnected" =>
                tun'[Main] = Nil
          /\ y.do \notin {"halt", "check down", "drop address", "down"}
      BY <1>1, <1>2, <1>5, <2>2, <2>3, HelperGoesOn DEF then, next
    <2>5. /\ y.do \in UpOps =>
                /\ y.c.ip # Nil /\ shown' = Nil /\ tun'[Main] = Nil
                /\ y.c.ip # Nil => planned'[Main][y.c.ip] # Nil
                /\ \A j \in Ips : planned'[Main][j] # Nil => j = y.c.ip \/ j \in stray'
          /\ y.do \in {"run", "forget", "tunnel"} =>
                /\ shown' = y.c.ip
                /\ y.c.ip # Nil => planned'[Main][y.c.ip] # Nil
                /\ \A j \in Ips : planned'[Main][j] # Nil => j = y.c.ip \/ j \in stray'
      BY <1>1, <1>2, <1>5, <2>2, <2>3, HelperGoesOn DEF then, next, Shows, Plans
    <2>6. HelperAt(Head(todo[Main]), Then(todo[Main]), Last(todo[Main]).do)'
      <3>1. Last(r).do = last
        BY <2>1 DEF last
      <3>2. QED BY <2>4, <2>5, <3>1 DEF HelperAt, Shows, Plans, y, r, then
    <2>7. QED BY <1>2, <1>5, <2>1, <2>6 DEF InCall, r, last
  <1>6. QED BY <1>4, <1>5

LEMMA HelperSteppers ==
    ASSUME CtlInv, ~IsCli, InCall, Busy(todo[Main]), Steps(Main), host' = host
    PROVE  IF todo'[Main] = <<>> THEN Settled' ELSE InCall'
  <1> DEFINE x == Head(todo[Main])
  <1>1. ~Linux /\ Main \in Procs
    BY LinuxIsCli, ProcsAssumption DEF CtlInv, TypeInv
  <1>2. x = todo[Main][1] /\ x \in HostStep /\ Fits(x) /\ x \in GoodStep
    BY TailProgram DEF HostStep
  <1>3. x.do \in FullOps \cup PlainOps \cup KeyOps /\ x.do \notin LinuxOps \cup SaveOps
    <2> HIDE DEF x
    <2> QED BY <1>1, <1>2, GoodStepFacts DEF Fits
  <1>4. HelperAt(x, Then(todo[Main]), Last(todo[Main]).do)
    BY DEF InCall
  <1>5. ASSUME Advance(Main), HelperEffect(x)
        PROVE  IF todo'[Main] = <<>> THEN Settled' ELSE InCall'
    BY <1>5, HelperAdvances
  <1>6. stray' = stray
    <2>1. ~AtStep(Main, {"send"})
      <3> HIDE DEF x
      <3>1. x.do # "send"
        BY <1>3 DEF SaveOps
      <3>2. QED BY <3>1 DEF AtStep, x
    <2>2. QED BY <1>1, <2>1, StepsKeep DEF SendFails
  <1>7. ASSUME UNCHANGED <<planned, shown, tun, snap, iface>>,
               x.do \notin {"planned", "forget", "iface", "show", "hide", "take", "tunnel",
                            "connected", "disconnected"}
        PROVE  HelperEffect(x)
    <2> HIDE DEF x
    <2> QED BY <1>7, <1>6 DEF HelperEffect
  <1>8. CASE OsStep(Main)
    <2>1. x.do \in OsOps \ {"set address"}
      BY <1>8 DEF OsStep, AtStep
    <2> HIDE DEF x
    <2>2. QED BY <1>3, <2>1 DEF OsOps, FullOps, PlainOps, KeyOps, LinuxOps
  <1>9. CASE WindowsStep(Main)
    <2>1. /\ x.do \in {"set address", "drop address"} /\ Advance(Main)
          /\ UNCHANGED <<planned, shown, tun, snap, iface>>
      BY <1>9 DEF WindowsStep, AtStep, memory
    <2> HIDE DEF x
    <2>2. QED BY <1>5, <1>7, <2>1
  <1>10. CASE BackendStep(Main)
    <2>1. /\ x.do \in NeedIface \cup {"validate", "iface", "up", "down", "planned", "forget"}
          /\ Advance(Main) /\ UNCHANGED <<shown, tun, snap>>
          /\ iface' = CASE x.do = "iface" ->
                             [iface EXCEPT ![Main] = [local |-> x.c.local, up |-> FALSE]]
                        [] x.do \in {"up", "down"} /\ iface[Main] # Nil ->
                             [iface EXCEPT ![Main].up = (x.do = "up")]
                        [] OTHER -> iface
          /\ planned' = CASE x.do = "planned" -> [planned EXCEPT ![Main][x.c.ip] = x.c.key]
                          [] x.do = "forget" -> [planned EXCEPT ![Main][x.c.ip] = Nil]
                          [] OTHER -> planned
      BY <1>10 DEF BackendStep, AtStep
    <2>2. /\ iface \in [Procs -> {Nil} \cup [local : Locals, up : BOOLEAN]]
          /\ planned \in [Procs -> [Ips -> Keys \cup {Nil}]]
      BY DEF CtlInv, TypeInv
    <2>3. x.do \in {"planned", "forget"} => x.c.ip \in Ips
      <3>1. x.do = "forget" => x.c.ip # Nil
        BY <1>4 DEF HelperAt
      <3> HIDE DEF x
      <3>2. /\ x.do \in FullOps => x.c.ip \in Ips
            /\ x.do \in FullOps \cup PlainOps => x.c.ip \in Ips \cup {Nil}
        BY <1>2, GoodStepFacts
      <3>3. "planned" \in FullOps /\ "forget" \in PlainOps
        BY DEF FullOps, PlainOps
      <3>4. QED BY <3>1, <3>2, <3>3
    <2>4. x.do = "iface" => x.c.local \in Locals
      <3> HIDE DEF x
      <3>1. "iface" \in FullOps
        BY DEF FullOps
      <3>2. QED BY <1>2, <3>1, GoodStepFacts
    <2> HIDE DEF x
    <2>5. x.do = "iface" => iface'[Main] # Nil
      <3>1. ASSUME x.do = "iface" PROVE iface'[Main] \in Runtime
        BY <1>1, <2>1, <2>2, <2>4, <3>1 DEF Runtime
      <3>2. QED BY <3>1, NilAssumption
    <2>6. x.do = "planned" => iface'[Main] = iface[Main]
      BY <2>1
    <2>7. IF x.do \in {"planned", "forget"}
          THEN /\ planned'[Main][x.c.ip] = IF x.do = "planned" THEN x.c.key ELSE Nil
               /\ \A j \in Ips \ {x.c.ip} : planned'[Main][j] = planned[Main][j]
          ELSE planned' = planned
      <3>1. CASE x.do = "planned"
        <4>1. planned' = [planned EXCEPT ![Main] = [planned[Main] EXCEPT ![x.c.ip] = x.c.key]]
          BY <2>1, <3>1
        <4>2. planned'[Main] = [planned[Main] EXCEPT ![x.c.ip] = x.c.key]
          BY <1>1, <2>2, <4>1
        <4>3. QED BY <1>1, <2>2, <2>3, <3>1, <4>2
      <3>2. CASE x.do = "forget"
        <4>1. planned' = [planned EXCEPT ![Main] = [planned[Main] EXCEPT ![x.c.ip] = Nil]]
          BY <2>1, <3>2
        <4>2. planned'[Main] = [planned[Main] EXCEPT ![x.c.ip] = Nil]
          BY <1>1, <2>2, <4>1
        <4>3. QED BY <1>1, <2>2, <2>3, <3>2, <4>2
      <3>3. CASE x.do \notin {"planned", "forget"}
        BY <2>1, <3>3
      <3>4. QED BY <3>1, <3>2, <3>3
    <2>8. x.do \notin {"show", "hide", "take", "tunnel", "connected", "disconnected"}
      BY <2>1 DEF NeedIface
    <2>9. HelperEffect(x)
      BY <1>6, <2>1, <2>5, <2>6, <2>7, <2>8 DEF HelperEffect
    <2>10. QED BY <1>5, <2>1, <2>9
  <1>11. CASE FacadeStep(Main)
    <2>1. /\ x.do \in {"take", "tunnel", "connected", "disconnected", "key", "send"}
          /\ Advance(Main) /\ UNCHANGED <<planned, shown, iface>>
          /\ tun' = IF x.do \in {"take", "tunnel"} THEN [tun EXCEPT ![Main] = x.c.ip] ELSE tun
          /\ Remembers(Main, x)
      BY <1>11 DEF FacadeStep, AtStep, Remembers
    <2> HIDE DEF x
    <2>2. /\ tun'[Main] = IF x.do \in {"take", "tunnel"} THEN x.c.ip ELSE tun[Main]
      BY <1>1, <2>1 DEF CtlInv, TypeInv
    <2>3. snap'[Main].tun = CASE x.do = "connected" -> tun[Main]
                              [] x.do = "disconnected" -> Nil
                              [] OTHER -> snap[Main].tun
      BY <1>1, <2>1, SnapshotMoves
    <2>4. HelperEffect(x)
      BY <1>6, <2>1, <2>2, <2>3 DEF HelperEffect
    <2>5. QED BY <1>5, <2>1, <2>4
  <1>12. CASE LoadKey(Main)
    <2>1. x.do = "load key" /\ UNCHANGED <<planned, shown, tun, snap, iface>>
      BY <1>1, <1>12, LoadKeyMoves
    <2>2. CASE Advance(Main)
      <3> HIDE DEF x
      <3> QED BY <1>5, <1>7, <2>1, <2>2
    <2>3. ASSUME NEW r, Keyed(Main, r)
          PROVE  r # <<>> /\ todo'[Main] = r /\ InCall'
      <3>1. /\ todo'[Main] = r /\ Head(r).do \in KeyOps /\ r # <<>>
            /\ Then(r) = Then(todo[Main]) /\ Last(r) = Last(todo[Main])
        BY <1>1, <2>3 DEF Keyed, CtlInv, TypeInv, Busy
      <3>2. /\ Settled /\ After(tun[Main], Then(todo[Main])) /\ Last(todo[Main]).do = "connected"
        BY <1>4, <2>1 DEF HelperAt
      <3>3. Settled' /\ After(tun'[Main], Then(r)) /\ Last(r).do = "connected"
        BY <1>6, <2>1, <3>1, <3>2 DEF Settled, Shows, Plans
      <3>4. /\ Head(r).do \notin {"take", "validate", "iface", "planned", "check up", "run", "forget",
                                  "tunnel", "hide", "connected", "disconnected", "halt",
                                  "check down", "drop address", "down"}
            /\ Head(r).do \notin UpOps
        BY <3>1 DEF KeyOps, UpOps
      <3>5. HelperAt(Head(todo[Main]), Then(todo[Main]), Last(todo[Main]).do)'
        BY <3>1, <3>3, <3>4 DEF HelperAt
      <3>6. QED BY <3>1, <3>3, <3>5 DEF InCall
    <2>4. QED BY <1>1, <1>12, <2>2, <2>3, LoadKeyMoves
  <1>13. CASE FileStep(Main)
    <2>1. /\ x.do \in FileOps /\ UNCHANGED shown
          /\ IF Len(todo[Main]) = 1 THEN Exit(Main) ELSE Advance(Main) /\ UNCHANGED memory
      BY <1>13 DEF FileStep, AtStep
    <2>2. x.do \notin Ends
      <3> HIDE DEF x
      <3> QED BY <1>3, <2>1 DEF FileOps, SaveOps, Ends
    <2>3. Advance(Main) /\ UNCHANGED <<planned, tun, snap, iface>>
      BY <1>2, <2>1, <2>2, TailProgram DEF memory
    <2> HIDE DEF x
    <2>4. QED BY <1>5, <1>7, <2>1, <2>3 DEF FileOps
  <1>14. CASE HelperStep(Main)
    <2>1. /\ x.do \in {"show", "hide", "run", "halt"} /\ Advance(Main)
          /\ UNCHANGED <<planned, tun, snap, iface>>
          /\ shown' = CASE x.do = "show" -> x.c.ip
                        [] x.do = "hide" /\ shown = x.c.ip -> Nil
                        [] OTHER -> shown
      BY <1>14 DEF HelperStep, AtStep, memory
    <2> HIDE DEF x
    <2>2. HelperEffect(x)
      BY <1>6, <2>1 DEF HelperEffect
    <2>3. QED BY <1>5, <2>1, <2>2
  <1>15. CASE Refused(Main)
    <2>1. /\ todo'[Main] = <<>> /\ UNCHANGED <<planned, shown, tun, snap>>
          /\ \/ x.do \in NeedIface \cup {"drop address"} /\ iface[Main] = Nil
             \/ x.do \in {"validate", "load key"}
      BY <1>1, <1>15 DEF Refused, Abort, AtStep, memory, CtlInv, TypeInv
    <2>2. x.do \in {"validate", "load key"}
      <3>1. x.do # "check up" \/ iface[Main] # Nil
        BY <1>2, <1>4 DEF HelperAt, Fits, InterfaceOps
      <3>2. x.do \notin {"check down", "drop address"}
        BY <1>4 DEF HelperAt
      <3> HIDE DEF x
      <3>3. QED BY <1>3, <2>1, <3>1, <3>2 DEF NeedIface, LinuxOps
    <2>3. Settled
      BY <1>4, <2>2 DEF HelperAt, Settled
    <2>4. Settled'
      BY <1>6, <2>1, <2>3 DEF Settled, Shows, Plans
    <2>5. QED BY <2>1, <2>4
  <1>16. CASE SendFails(Main)
    <2>1. x.do = "send"
      BY <1>16 DEF SendFails, AtStep
    <2> HIDE DEF x
    <2>2. QED BY <1>3, <2>1 DEF SaveOps
  <1>17. QED
    BY <1>8, <1>9, <1>10, <1>11, <1>12, <1>13, <1>14, <1>15, <1>16 DEF Steps

\* A call of the helper that ends half-way leaves at most the tunnel that it
\* was about to bring up.
LEMMA HelperFails ==
    ASSUME CtlInv, ~IsCli, Busy(todo[Main]), InCall, StepFails(Main)
    PROVE  todo'[Main] = <<>> /\ Settled'
  <1> DEFINE x == Head(todo[Main])
  <1>1. ~Linux /\ Main \in Procs
    BY LinuxIsCli, ProcsAssumption DEF CtlInv, TypeInv
  <1>2. /\ x.do \in OsOps \cup FileOps /\ todo'[Main] = <<>>
        /\ UNCHANGED <<planned, tun, snap, shown>> /\ stray' = stray \cup Asked(Main)
    BY <1>1 DEF StepFails, Abort, AtStep, memory, CtlInv, TypeInv
  <1>3. x = todo[Main][1] /\ Fits(x) /\ x \in GoodStep
    BY TailProgram DEF HostStep
  <1>4. x.do \in {"set address", "store truncate", "store write"}
    <2> HIDE DEF x
    <2>1. x.do \in FullOps \cup PlainOps \cup KeyOps /\ x.do \notin LinuxOps \cup SaveOps
      BY <1>1, <1>3, GoodStepFacts DEF Fits
    <2>2. QED BY <1>2, <2>1 DEF OsOps, FileOps, LinuxOps, SaveOps, FullOps, PlainOps, KeyOps
  <1>5. HelperAt(x, Then(todo[Main]), Last(todo[Main]).do)
    BY DEF InCall
  <1>6. CASE x.do = "set address"
    <2>1. x.c.ip # Nil /\ Plans(x.c.ip) /\ shown = Nil /\ tun[Main] = Nil
      BY <1>5, <1>6 DEF HelperAt, UpOps
    <2>2. x.c.ip \in Asked(Main)
      <3>1. AtStep(Main, ConfigOps)
        BY <1>6 DEF AtStep, ConfigOps, Busy
      <3>2. QED BY <1>1, <2>1, <3>1, AskedTypes DEF CtlInv
    <2>3. QED BY <1>2, <2>1, <2>2 DEF Settled, Shows, Plans
  <1>7. CASE x.do \in {"store truncate", "store write"}
    <2>1. Settled
      BY <1>5, <1>7 DEF HelperAt, KeyOps
    <2>2. QED BY <1>2, <2>1 DEF Settled, Shows, Plans
  <1>8. QED BY <1>4, <1>6, <1>7

LEMMA HelperNext ==
    ASSUME CtlInv, HelperInv, [Next]_vars
    PROVE  HelperInv'
  <1> SUFFICES ASSUME ~IsCli', "direct" \notin past'
               PROVE  IF todo'[Main] = <<>> THEN Settled' ELSE InCall'
    BY DEF HelperInv
  <1>1. ~IsCli /\ "direct" \notin past /\ host' = host /\ (IF todo[Main] = <<>> THEN Settled ELSE InCall)
    BY Constancy DEF HelperInv, IsCli
  <1>2. CASE Calls
    <2>1. CASE StateClear
      BY <1>1, <2>1 DEF StateClear
    <2>2. ASSUME NEW p \in Procs, NEW w, NEW f, CliCall(p, w, f)
          PROVE  FALSE
      BY <1>1, <2>2 DEF CliCall, CliRuns
    <2>3. ASSUME NEW f, HelperCall(f)
          PROVE  f # <<>> /\ todo'[Main] = f /\ InCall'
      <3>1. ~HelperRuns(f, TRUE)
        BY DEF HelperRuns
      <3>2. HelperRuns(f, FALSE) /\ FacadeCall(f) /\ f # <<>>
        BY <2>3, <3>1 DEF HelperCall, Busy
      <3>3. todo'[Main] = f /\ todo[Main] = <<>> /\ UNCHANGED <<planned, shown, tun, snap, iface>>
            /\ stray' = stray
        BY <3>2, ProcsAssumption DEF HelperRuns, Idle, memory, CtlInv, TypeInv
      <3>4. /\ Head(f).do \in {"load key", "take"} /\ After(tun[Main], Then(f))
            /\ Last(f).do \in {"connected", "disconnected"}
            /\ Head(f).do = "load key" => Last(f).do = "connected"
        BY <3>2 DEF FacadeCall, Begins
      <3>5. Settled' /\ After(tun'[Main], Then(f))
        BY <1>1, <3>3, <3>4 DEF Settled, Shows, Plans
      <3>6. Head(f).do \notin KeyOps \cup UpOps
        BY <3>4 DEF KeyOps, UpOps
      <3>7. HelperAt(Head(todo[Main]), Then(todo[Main]), Last(todo[Main]).do)'
        BY <3>3, <3>4, <3>5, <3>6 DEF HelperAt, Settled
      <3>8. QED BY <3>2, <3>3, <3>4, <3>7 DEF InCall
    <2>4. CASE HelperRenames
      <3>1. PICK w : Renamed(w, snap[Main]) /\ HelperIdentifies(w)
        BY <2>4 DEF HelperRenames
      <3>2. /\ UNCHANGED <<todo, planned, tun, shown, stray>> /\ todo[Main] = <<>>
            /\ snap' = [snap EXCEPT ![Main] = w]
        BY <3>1 DEF HelperIdentifies, history, Idle
      <3>3. snap'[Main].tun = snap[Main].tun
        BY <3>1, <3>2, ProcsAssumption DEF Renamed, CtlInv, TypeInv
      <3>4. QED BY <1>1, <3>2, <3>3 DEF Settled, Shows, Plans
    <2>5. QED BY <1>2, <2>1, <2>2, <2>3, <2>4, CallShape
  <1>3. ASSUME NEW p \in Procs, Steps(p)
        PROVE  IF todo'[Main] = <<>> THEN Settled' ELSE InCall'
    <2>1. todo[p] # <<>>
      BY <1>3 DEF Steps, OsStep, WindowsStep, BackendStep, FacadeStep, LoadKey, FileStep,
                  HelperStep, Refused, SendFails, AtStep
    <2>2. p = Main
      BY <1>1, <2>1 DEF CtlInv, Alone, Idle
    <2>3. Busy(todo[Main]) /\ InCall
      BY <1>1, <2>1, <2>2 DEF Busy, CtlInv, Programs
    <2>4. QED BY <1>1, <1>3, <2>2, <2>3, HelperSteppers
  <1>4. ASSUME planned'[Main] = NoPeers, tun'[Main] = Nil, shown' = Nil
        PROVE  Settled'
    BY <1>4 DEF Settled, Shows, Plans, NoPeers
  <1>5. ASSUME NEW p \in Procs, StepFails(p)
        PROVE  IF todo'[Main] = <<>> THEN Settled' ELSE InCall'
    <2>1. todo[p] # <<>>
      BY <1>5 DEF StepFails, AtStep
    <2>2. p = Main
      BY <1>1, <2>1 DEF CtlInv, Alone, Idle
    <2>3. Busy(todo[Main]) /\ InCall
      BY <1>1, <2>1, <2>2 DEF Busy, CtlInv, Programs
    <2>4. QED BY <1>1, <1>5, <2>2, <2>3, HelperFails
  <1>6. ASSUME NEW p \in Procs, Kill(p)
        PROVE  IF todo'[Main] = <<>> THEN Settled' ELSE InCall'
    <2>1. todo[p] # <<>> \/ p = Main
      BY <1>6 DEF Kill
    <2>2. p = Main
      BY <1>1, <2>1 DEF CtlInv, Alone, Idle
    <2>3. /\ todo'[Main] = <<>> /\ planned'[Main] = NoPeers /\ tun'[Main] = Nil /\ shown' = Nil
      BY <1>6, <2>2, ProcsAssumption DEF Kill, Exit, CtlInv, TypeInv
    <2>4. QED BY <1>4, <2>3
  <1>7. CASE Reboot
    <2>1. /\ todo'[Main] = <<>> /\ planned'[Main] = NoPeers /\ tun'[Main] = Nil /\ shown' = Nil
      BY <1>7, ProcsAssumption DEF Reboot
    <2>2. QED BY <1>4, <2>1
  <1>8. CASE UNCHANGED vars
    <2>1. CASE todo[Main] = <<>>
      BY <1>1, <1>8, <2>1 DEF vars, history, Settled, Shows, Plans
    <2>2. CASE todo[Main] # <<>>
      <3>1. UNCHANGED <<todo, host, iface, planned, tun, snap, shown, stray>> /\ InCall
        BY <1>1, <1>8, <2>2 DEF vars, history
      <3>2. InCall'
        BY <3>1 DEF InCall, HelperAt, Settled, Shows, Plans
      <3>3. QED BY <2>2, <3>1, <3>2
    <2>3. QED BY <2>1, <2>2
  <1>9. QED BY <1>2, <1>3, <1>5, <1>8, <1>6, <1>7 DEF Next

LEMMA ResidueInit ==
    ASSUME Init
    PROVE  LinuxInv /\ HelperInv
  <1>1. /\ FileTunnel = Nil /\ os = NoSystem /\ shown = Nil
        /\ \A p \in Procs : todo[p] = <<>> /\ tun[p] = Nil /\ planned[p] = NoPeers
    BY Nothing DEF Init, FileTunnel
  <1>2. Only(Nil)
    BY <1>1 DEF Only, Used, NoSystem, NoPeers
  <1>3. LinuxInv
    BY <1>1, <1>2 DEF LinuxInv, LinuxAtHead, AtStep
  <1>4. Settled
    BY <1>1, ProcsAssumption DEF Settled, Shows, Plans, NoPeers
  <1>5. HelperInv
    BY <1>1, <1>4, ProcsAssumption DEF HelperInv
  <1>6. QED BY <1>3, <1>5

\* Between the calls of the Linux command line client only the peer and the
\* route of the tunnel that its state file names are in the system, and between
\* those of the helper only the peer of the facade's tunnel is planned, except
\* for the tunnels that a failed command or send, a kill or a cleared state file
\* has left: a call that is refused, or succeeds, leaves nothing behind.
THEOREM NothingIsLeftBehind == Spec => []NoResidue
  <1> DEFINE ResInv == PeerInv /\ LinuxInv /\ HelperInv
  <1>1. Init => ResInv
    BY SavedInit, ResidueInit
  <1>2. CtlInv /\ ResInv /\ [Next]_vars => ResInv'
    BY PeerNext, LinuxNext, HelperNext
  <1>3. CtlInv /\ ResInv => NoResidue
    <2> SUFFICES ASSUME LinuxInv, HelperInv, \A p \in Procs : Idle(p)
                 PROVE  NoResidue
      BY DEF NoResidue
    <2>1. ASSUME Linux, "overlap" \notin past
          PROVE  \A i \in Ips : os.peers[i] # Nil \/ i \in os.routes => i = FileTunnel \/ i \in stray
      BY <2>1 DEF LinuxInv, Only, Used
    <2>2. ASSUME ~IsCli, "direct" \notin past
          PROVE  Settled
      BY <2>2, ProcsAssumption DEF HelperInv, Idle
    <2>3. QED BY <2>1, <2>2 DEF NoResidue, Settled, Shows, Plans
  <1>4. QED BY <1>1, <1>2, <1>3, CallsFollowTheirPath, PTL DEF Spec
=============================================================================
