----------------------------- MODULE Membership -----------------------------
(***************************************************************************)
(* server/server-biz: which networks there are, which device is a member of *)
(* which, and the active network of every user.  Joining is a sequence of   *)
(* statements without a transaction: all devices of the user leave their    *)
(* other networks, the user's active network is set, and then the device's  *)
(* member row (and for some requests its attachment) is written.            *)
(***************************************************************************)
EXTENDS Naturals

CONSTANTS Users, Networks, Keys, Requests,
          Devices,      \* device ids, as numbers in their sorting order
          UserOf,       \* the user of every device
          FirstOwner,   \* the networks created when users signed up, and their owners
          MaxRequests,  \* bound on requests begun
          MaxFailures,  \* bound on requests that stop halfway
          Nil

ASSUME DevicesAssumption == Devices \subseteq Nat
ASSUME UserOfAssumption == UserOf \in [Devices -> Users]
ASSUME FirstOwnerAssumption ==
    /\ FirstOwner \in [Networks -> Users \cup {Nil}]
    /\ \A g, h \in Networks : FirstOwner[g] # Nil /\ FirstOwner[g] = FirstOwner[h] => g = h
Roles == {"owner", "member"}
ASSUME NilAssumption == /\ Nil \notin Users \cup Networks \cup Devices \cup Keys
                        /\ Nil \notin Roles

VARIABLES owner,       \* networks: network -> its owner, or Nil
          key,         \* networks.join_key
          active,      \* users.active_network_id
          registered,  \* devices
          member,      \* network_members: network -> device -> role, or Nil
          attached,    \* subnet_attachments, as pairs of network and device
          req,         \* request -> what its handler knows
          begun,       \* requests begun so far
          failures,    \* failures so far
          admitted,    \* history: users a network's owner let in
          untidy       \* history: users two of whose requests overlapped, or who
                       \* bound a device to a network beside their active one

tables == <<owner, key, active, registered, member, attached>>
aux == <<begun, failures, admitted, untidy>>
vars == <<tables, req, aux>>

Stages == {"idle", "key", "attachments", "members", "activate", "role", "member", "insert",
           "attach", "create", "first", "boot"}
\* dev is the device to become a member, todo the devices that still have to
\* leave, attach whether an attachment follows, first whether the user had no
\* active network.
Request == [stage : Stages, user : Users \cup {Nil}, dev : Devices \cup {Nil},
            net : Networks \cup {Nil}, key : Keys \cup {Nil}, todo : SUBSET Devices,
            role : Roles \cup {Nil}, attach : BOOLEAN, first : BOOLEAN]

Idle == [stage |-> "idle", user |-> Nil, dev |-> Nil, net |-> Nil, key |-> Nil,
         todo |-> {}, role |-> Nil, attach |-> FALSE, first |-> FALSE]

\* A request of device d's user at the given stage, and how one goes on.
New(s, d, g) == [Idle EXCEPT !.stage = s, !.user = UserOf[d], !.dev = d, !.net = g]
To(r, s) == [req[r] EXCEPT !.stage = s]

IsMember(g, d) == member[g][d] # Nil
DevicesOf(u) == {d \in registered : UserOf[d] = u}
Busy(u) == \E r \in Requests : req[r].stage # "idle" /\ req[r].user = u
Owned(u) == {g \in Networks : owner[g] = u}
\* The network a user's devices belong in: the active one, or the user's own if
\* the request that created it stopped before it was made active.
HomeOf(u) == IF active[u] = Nil THEN Owned(u) ELSE {active[u]}

\* A user's network is active from the start.
Init ==
    /\ owner = FirstOwner
    /\ key = [g \in Networks |-> Nil]
    /\ active \in [Users -> Networks \cup {Nil}]
    /\ \A u \in Users, g \in Networks : active[u] = g <=> FirstOwner[g] = u
    /\ registered = {}
    /\ member = [g \in Networks |-> [d \in Devices |-> Nil]]
    /\ attached = {}
    /\ req = [r \in Requests |-> Idle]
    /\ begun = 0
    /\ failures = 0
    /\ admitted = {}
    /\ untidy = {}
-----------------------------------------------------------------------------
\* A new request of user u.
Begin(r, u, request) ==
    /\ req[r].stage = "idle"
    /\ req' = [req EXCEPT ![r] = request]
    /\ untidy' = IF Busy(u) THEN untidy \cup {u} ELSE untidy
    /\ begun < MaxRequests /\ begun' = begun + 1
    /\ UNCHANGED failures

\* Mutant: every network is open to everybody.
AccessFree(u, g) == owner[g] # Nil
\* ensureNetworkAccess: the owner, and users with a device in the network.
Access(u, g) ==
    owner[g] # Nil /\ (owner[g] = u \/ \E d \in DevicesOf(u) : IsMember(g, d))

\* Mutant: only the joining device leaves its other networks.
LeavingAlone(d, g, attach) ==
    [New("attachments", d, g) EXCEPT !.todo = {d}, !.attach = attach]
\* ensureSingleActiveNetworkForUser, the list of the user's devices.
Leaving(d, g, attach) ==
    [New("attachments", d, g) EXCEPT !.todo = DevicesOf(UserOf[d]), !.attach = attach]

\* The device is the user's (requests of others fail) and the network is theirs.
LoadNetworkForDevice(d, g) == d \in registered /\ Access(UserOf[d], g)

\* Join, Switch and (with an attachment) Activate, up to the list of devices.
Join(r, d, g, attach) ==
    /\ LoadNetworkForDevice(d, g)
    /\ Begin(r, UserOf[d], Leaving(d, g, attach))
    /\ UNCHANGED <<tables, admitted>>

\* JoinByOwnerEmail: knowing the owner is enough.
JoinByOwnerEmail(r, d, g) ==
    /\ d \in registered
    /\ owner[g] # Nil
    /\ Begin(r, UserOf[d], Leaving(d, g, FALSE))
    /\ admitted' = admitted \cup {<<UserOf[d], g>>}
    /\ UNCHANGED tables

\* JoinByKey: the transaction of ConsumeNetworkByJoinKey reads the network ...
JoinByKey(r, d, g) ==
    /\ d \in registered
    /\ key[g] # Nil
    /\ Begin(r, UserOf[d], [New("key", d, g) EXCEPT !.key = key[g]])
    /\ UNCHANGED <<tables, admitted>>

\* ... and clears the key if it is still there; that it is not is no error.
ConsumeKey(r) ==
    /\ req[r].stage = "key"
    /\ LET g == req[r].net
           d == req[r].dev IN
         /\ key' = IF key[g] = req[r].key THEN [key EXCEPT ![g] = Nil] ELSE key
         /\ req' = [req EXCEPT ![r] = Leaving(d, g, FALSE)]
         /\ admitted' = admitted \cup {<<UserOf[d], g>>}
    /\ UNCHANGED <<owner, active, registered, member, attached, begun, failures, untidy>>

UpdateJoinKey(g, k) ==
    /\ owner[g] # Nil
    /\ key' = [key EXCEPT ![g] = k]
    /\ UNCHANGED <<owner, active, registered, member, attached, req, aux>>

\* ensureSingleNetworkMembership for the next device: its attachments ...
LeaveSubnets(r, d) ==
    /\ req[r].stage = "attachments"
    /\ d \in req[r].todo /\ \A e \in req[r].todo : d <= e
    /\ attached' = {a \in attached : a[2] = d => a[1] = req[r].net}
    /\ req' = [req EXCEPT ![r] = To(r, "members")]
    /\ UNCHANGED <<owner, key, active, registered, member, aux>>

Left(r, d) ==
    [req[r] EXCEPT !.todo = @ \ {d},
                   !.stage = IF req[r].todo = {d} THEN "activate" ELSE "attachments"]

\* ... and its member rows.
LeaveNetworks(r, d) ==
    /\ req[r].stage = "members"
    /\ d \in req[r].todo /\ \A e \in req[r].todo : d <= e
    /\ member' = [g \in Networks |-> IF g = req[r].net THEN member[g]
                                     ELSE [member[g] EXCEPT ![d] = Nil]]
    /\ req' = [req EXCEPT ![r] = Left(r, d)]
    /\ UNCHANGED <<owner, key, active, registered, attached, aux>>

SetActive(r) ==
    /\ req[r].stage = "activate"
    /\ active' = [active EXCEPT ![req[r].user] = req[r].net]
    /\ req' = [req EXCEPT ![r] = To(r, "role")]
    /\ UNCHANGED <<owner, key, registered, member, attached, aux>>

WithRole(r, role) == [req[r] EXCEPT !.stage = "member", !.role = role]

\* Mutant: the status of the row is passed as its role.
MembershipRoleIsStatus(r) ==
    /\ req[r].stage = "role"
    /\ req' = [req EXCEPT ![r] = WithRole(r, "active")]
    /\ UNCHANGED <<tables, aux>>
\* membershipRole: the first device of the owner is the "owner".
MembershipRole(r) ==
    /\ req[r].stage = "role"
    /\ LET g == req[r].net IN
         req' = [req EXCEPT ![r] = WithRole(r,
           IF /\ owner[g] = req[r].user
              /\ \A e \in Devices \ {req[r].dev} : member[g][e] # "owner"
           THEN "owner" ELSE "member")]
    /\ UNCHANGED <<tables, aux>>

\* Where a request goes once its member row is there.
AfterMember(r) == IF req[r].attach THEN To(r, "attach") ELSE Idle

\* ensureMember: a row that is there is kept as it is.
FindMember(r) ==
    /\ req[r].stage = "member"
    /\ req' = [req EXCEPT ![r] = IF IsMember(req[r].net, req[r].dev) THEN AfterMember(r)
                                 ELSE To(r, "insert")]
    /\ UNCHANGED <<tables, aux>>

\* CreateMember; the index idx_network_device refuses a second row.
CreateMember(r) ==
    /\ req[r].stage = "insert"
    /\ LET g == req[r].net
           d == req[r].dev IN
         IF IsMember(g, d)
         THEN /\ req' = [req EXCEPT ![r] = Idle]
              /\ UNCHANGED member
         ELSE /\ member' = [member EXCEPT ![g] = [@ EXCEPT ![d] = req[r].role]]
              /\ req' = [req EXCEPT ![r] = AfterMember(r)]
    /\ UNCHANGED <<owner, key, active, registered, attached, aux>>

\* ensureAttachment, the module AddressLease in one step.
Attach(r) ==
    /\ req[r].stage = "attach"
    /\ attached' = attached \cup {<<req[r].net, req[r].dev>>}
    /\ req' = [req EXCEPT ![r] = Idle]
    /\ UNCHANGED <<owner, key, active, registered, member, aux>>

\* AttachDevice: the device is a member.
AttachDevice(r, d, g) ==
    /\ d \in registered
    /\ Access(UserOf[d], g) /\ IsMember(g, d)
    /\ Begin(r, UserOf[d], New("attach", d, g))
    /\ UNCHANGED <<tables, admitted>>

\* Bootstrap: a client of a member device starts in the network ...
Bootstrap(r, d, g) ==
    /\ d \in registered
    /\ Access(UserOf[d], g) /\ IsMember(g, d)
    /\ Begin(r, UserOf[d], New("boot", d, g))
    /\ UNCHANGED <<tables, admitted>>

\* ... which in the end becomes the user's active network, member or not by then.
BootstrapActive(r) ==
    /\ req[r].stage = "boot"
    /\ active' = [active EXCEPT ![req[r].user] = req[r].net]
    /\ req' = [req EXCEPT ![r] = Idle]
    /\ UNCHANGED <<owner, key, registered, member, attached, aux>>

\* Deactivate deletes the device's attachment and nothing else.
Deactivate(d, g) ==
    /\ LoadNetworkForDevice(d, g)
    /\ <<g, d>> \in attached
    /\ attached' = attached \ {<<g, d>>}
    /\ UNCHANGED <<owner, key, active, registered, member, req, aux>>
-----------------------------------------------------------------------------
Creating(u, d, attach, first) ==
    [Idle EXCEPT !.stage = "create", !.user = u, !.dev = d, !.attach = attach, !.first = first]

\* Create (also the last step of Register for a new user): the user owns no
\* network yet, a device to bind is theirs.  The readings are one step.
CheckCreate(r, u, d) ==
    /\ Owned(u) = {}
    /\ d # Nil => d \in DevicesOf(u)
    /\ Begin(r, u, Creating(u, d, FALSE, active[u] = Nil))
    /\ UNCHANGED <<tables, admitted>>

\* What is left of a request once network g of its user is there: nothing, the
\* rest of the registration, or the member row of the device to bind.
AfterCreate(r, g) ==
    IF req[r].dev = Nil THEN Idle
    ELSE IF req[r].attach THEN [To(r, "role") EXCEPT !.net = g]
    ELSE [WithRole(r, "owner") EXCEPT !.net = g]
\* Binding a device while another network is active leaves the user untidy.
BindsBeside(r) == req[r].dev # Nil /\ ~req[r].first

\* CreateNetworkWithDefaultSubnet, under a new random id.
CreateNetwork(r, g) ==
    /\ req[r].stage = "create"
    /\ owner[g] = Nil
    /\ owner' = [owner EXCEPT ![g] = req[r].user]
    /\ req' = [req EXCEPT ![r] = IF req[r].first THEN [To(r, "first") EXCEPT !.net = g]
                                 ELSE AfterCreate(r, g)]
    /\ untidy' = IF BindsBeside(r) THEN untidy \cup {req[r].user} ELSE untidy
    /\ UNCHANGED <<key, active, registered, member, attached, begun, failures, admitted>>

\* The user's first network becomes the active one.
ActivateFirst(r) ==
    /\ req[r].stage = "first"
    /\ active' = [active EXCEPT ![req[r].user] = req[r].net]
    /\ req' = [req EXCEPT ![r] = AfterCreate(r, req[r].net)]
    /\ UNCHANGED <<owner, key, registered, member, attached, aux>>

\* RegisterDevice, the upsert of the device and the reading of its user: it is
\* provisioned in the active network, or in one of the user's own.
RegisterDevice(r, d) ==
    /\ LET u == UserOf[d] IN
         \/ \E g \in HomeOf(u) : Begin(r, u, [New("role", d, g) EXCEPT !.attach = TRUE])
         \/ HomeOf(u) = {} /\ Begin(r, u, Creating(u, d, TRUE, TRUE))
    /\ registered' = registered \cup {d}
    /\ UNCHANGED <<owner, key, active, member, attached, admitted>>

\* The process or the database fails between two statements of a request.
Fails(r) ==
    /\ req[r].stage # "idle"
    /\ failures < MaxFailures
    /\ failures' = failures + 1
    /\ req' = [req EXCEPT ![r] = Idle]
    /\ UNCHANGED <<tables, begun, admitted, untidy>>

Next ==
    \/ \E r \in Requests, d \in Devices, g \in Networks :
          \/ \E attach \in BOOLEAN : Join(r, d, g, attach)
          \/ JoinByOwnerEmail(r, d, g) \/ JoinByKey(r, d, g) \/ AttachDevice(r, d, g)
          \/ Bootstrap(r, d, g)
    \/ \E r \in Requests, d \in Devices :
          LeaveSubnets(r, d) \/ LeaveNetworks(r, d) \/ RegisterDevice(r, d)
    \/ \E r \in Requests : \/ ConsumeKey(r) \/ SetActive(r) \/ MembershipRole(r)
                           \/ FindMember(r) \/ CreateMember(r) \/ Attach(r)
                           \/ ActivateFirst(r) \/ BootstrapActive(r) \/ Fails(r)
                           \/ \E g \in Networks : CreateNetwork(r, g)
                           \/ \E u \in Users, d \in Devices \cup {Nil} : CheckCreate(r, u, d)
    \/ \E g \in Networks, k \in Keys : UpdateJoinKey(g, k)
    \/ \E d \in Devices, g \in Networks : Deactivate(d, g)

Spec == Init /\ [][Next]_vars
-----------------------------------------------------------------------------
TypeOK ==
    /\ owner \in [Networks -> Users \cup {Nil}]
    /\ key \in [Networks -> Keys \cup {Nil}]
    /\ active \in [Users -> Networks \cup {Nil}]
    /\ registered \subseteq Devices
    /\ member \in [Networks -> [Devices -> Roles \cup {Nil}]]
    /\ attached \subseteq Networks \X Devices
    /\ req \in [Requests -> Request]
    /\ begun \in Nat
    /\ failures \in Nat
    /\ admitted \subseteq Users \X Networks
    /\ untidy \subseteq Users

LetIn(u, g) == owner[g] = u \/ <<u, g>> \in admitted

\* Through stale active networks, half-done switches and late requests, a
\* device gets into a network only if its user owns it or was let in by email
\* or key, and has the role "owner" only in a network of its user.
MembersAreLetIn ==
    /\ \A g \in Networks, d \in Devices : IsMember(g, d) => LetIn(UserOf[d], g)
    /\ \A g \in Networks, d \in Devices : member[g][d] = "owner" => owner[g] = UserOf[d]
    /\ \A u \in Users : active[u] # Nil => LetIn(u, active[u])

\* The user owns at most one network, the user's devices are in the home
\* network or in none, and only members have an attachment.
Follows(u) ==
    /\ \A g, h \in Owned(u) : g = h
    /\ \A d \in Devices, g \in Networks : UserOf[d] = u =>
          /\ IsMember(g, d) => g \in HomeOf(u)
          /\ <<g, d>> \in attached => IsMember(g, d)

\* The devices of a user whose requests do not overlap follow the user, even in
\* the middle of a request, wherever one stops halfway, and whatever the
\* requests of other users do meanwhile.
DevicesFollowUser == \A u \in Users \ untidy : Follows(u)

\* internal/service/impl/network_membership.go:83: a device is attached to
\* exactly one active network at a time.
SingleNetworkPerDevice ==
    (\A r \in Requests : req[r].stage = "idle") =>
        \A d \in Devices, g, h \in Networks : IsMember(g, d) /\ IsMember(h, d) => g = h
=============================================================================
