-------------------------- MODULE MembershipProofs --------------------------
(***************************************************************************)
(* Membership for any sets of users, devices, networks, keys and concurrent *)
(* requests: types, who gets into a network, and where a user's devices are.*)
(***************************************************************************)
EXTENDS Membership, TLAPS

\* What a handler knows: the user, a registered device of the user, and the
\* network, from the stage on where the code has read them.
Sound(n) ==
    /\ n.stage # "idle" => n.user \in Users
    /\ n.dev # Nil => n.dev \in DevicesOf(n.user)
    /\ n.stage \notin {"idle", "create", "first"} => n.net \in Networks /\ n.dev # Nil
    /\ n.stage = "first" => n.net \in Networks
    /\ n.todo \subseteq DevicesOf(n.user)
    /\ n.stage \in {"member", "insert"} => n.role \in Roles
RequestsSound ==
    /\ \A r \in Requests : Sound(req[r])
    /\ \A g \in Networks, d \in Devices : IsMember(g, d) => d \in registered

\* A request works on a network its user was let in to, and writes the role
\* "owner" only into a network of its user.
RequestLetIn(n) ==
    /\ n.stage \in {"attachments", "members", "activate", "role", "member", "insert", "attach",
                    "boot"}
          => LetIn(n.user, n.net)
    /\ n.stage = "first" => owner[n.net] = n.user
    /\ n.stage \in {"member", "insert"} /\ n.role = "owner" => owner[n.net] = n.user
RequestsLetIn == \A r \in Requests : RequestLetIn(req[r])

\* What a request of a user without overlapping requests can rely on: while
\* devices leave, the ones that are done are in no other network; the network is
\* the home network from then on; a network is created only for who has none.
Progress(n) ==
    /\ n.stage \in {"attachments", "members", "activate"} =>
          \A d \in Devices \ n.todo, h \in Networks :
              UserOf[d] = n.user /\ IsMember(h, d) => h = n.net
    /\ n.stage = "activate" => n.todo = {}
    /\ n.stage = "members" =>
          \A d \in n.todo : (\A e \in n.todo : d <= e) =>
              \A h \in Networks : <<h, d>> \in attached => h = n.net
    /\ n.stage \in {"role", "member", "insert", "attach", "boot"} => n.net \in HomeOf(n.user)
    /\ n.stage = "attach" => IsMember(n.net, n.dev)
    /\ n.stage = "create" => /\ Owned(n.user) = {}
                             /\ n.first <=> active[n.user] = Nil
                             /\ n.attach => n.first
    /\ n.stage = "first" => n.net \in Owned(n.user) /\ active[n.user] = Nil

BusyFor(n, u) == n.stage # "idle" /\ n.user = u
\* A user whose devices follow and whose requests run one at a time.
Tidy(u) ==
    /\ Follows(u)
    /\ \A r \in Requests : BusyFor(req[r], u) =>
          /\ \A q \in Requests : BusyFor(req[q], u) => q = r
          /\ Progress(req[r])
TidyUsers == \A u \in Users \ untidy : Tidy(u)
-----------------------------------------------------------------------------
\* The fields of a request, and what every action makes of it.
Is(n, s, u, d, g, todo, role, attach, first) ==
    /\ n \in Request
    /\ n.stage = s /\ n.user = u /\ n.dev = d /\ n.net = g /\ n.todo = todo
    /\ n.role = role /\ n.attach = attach /\ n.first = first
Same(n, s, r) == Is(n, s, req[r].user, req[r].dev, req[r].net, req[r].todo, req[r].role,
                    req[r].attach, req[r].first)
Becomes(r, n) == req' = [req EXCEPT ![r] = n]

IsIdle(n) == Is(n, "idle", Nil, Nil, Nil, {}, Nil, FALSE, FALSE)
LeavesWith(n, d, g, attach) ==
    Is(n, "attachments", UserOf[d], d, g, DevicesOf(UserOf[d]), Nil, attach, FALSE)
HasLeft(n, r, d) ==
    Is(n, IF req[r].todo = {d} THEN "activate" ELSE "attachments", req[r].user, req[r].dev,
       req[r].net, req[r].todo \ {d}, req[r].role, req[r].attach, req[r].first)
Provisioning(n, d) ==
    \/ \E g \in HomeOf(UserOf[d]) : Is(n, "role", UserOf[d], d, g, {}, Nil, TRUE, FALSE)
    \/ HomeOf(UserOf[d]) = {} /\ Is(n, "create", UserOf[d], d, Nil, {}, Nil, TRUE, TRUE)
GetsRole(n, r) ==
    \E role \in Roles :
        /\ Is(n, "member", req[r].user, req[r].dev, req[r].net, req[r].todo, role,
              req[r].attach, req[r].first)
        /\ role = "owner" => owner[req[r].net] = req[r].user
FindsMember(n, r) ==
    IF ~IsMember(req[r].net, req[r].dev) THEN Same(n, "insert", r)
    ELSE IF req[r].attach THEN Same(n, "attach", r) ELSE IsIdle(n)
HasMember(n, r) ==
    IF ~IsMember(req[r].net, req[r].dev) /\ req[r].attach THEN Same(n, "attach", r)
    ELSE IsIdle(n)
HasNetwork(n, r, g) ==
    IF req[r].dev = Nil THEN IsIdle(n)
    ELSE IF req[r].attach
    THEN Is(n, "role", req[r].user, req[r].dev, g, req[r].todo, req[r].role, req[r].attach,
            req[r].first)
    ELSE Is(n, "member", req[r].user, req[r].dev, g, req[r].todo, "owner", req[r].attach,
            req[r].first)
GetsNetwork(n, r, g) ==
    IF req[r].first
    THEN Is(n, "first", req[r].user, req[r].dev, g, req[r].todo, req[r].role, req[r].attach,
            req[r].first)
    ELSE HasNetwork(n, r, g)

\* Every request in progress has fields of the right types.
LEMMA RequestFields ==
  ASSUME TypeOK, NEW r \in Requests
  PROVE  /\ req[r].stage \in Stages /\ req[r].user \in Users \cup {Nil}
         /\ req[r].dev \in Devices \cup {Nil} /\ req[r].net \in Networks \cup {Nil}
         /\ req[r].todo \subseteq Devices /\ req[r].role \in Roles \cup {Nil}
         /\ req[r].attach \in BOOLEAN /\ req[r].first \in BOOLEAN
  BY DEF TypeOK, Request

\* A user's home networks are networks.
LEMMA HomeNetworks ==
  ASSUME TypeOK, NEW u \in Users
  PROVE  HomeOf(u) \subseteq Networks
  BY DEF TypeOK, HomeOf, Owned

\* What has the fields of a request is one.
LEMMA IsRequest ==
  ASSUME NEW n, NEW s, NEW u, NEW d, NEW g, NEW todo, NEW role, NEW attach, NEW first,
         Is(n, s, u, d, g, todo, role, attach, first)
  PROVE  n \in Request
  BY DEF Is

\* A request at its end has forgotten everything.
LEMMA IdleFields == IsIdle(Idle)
  BY DEF IsIdle, Is, Idle, Request, Stages

\* Going on to another stage keeps the other fields.
LEMMA ToFields ==
  ASSUME TypeOK, NEW r \in Requests, NEW s \in Stages
  PROVE  Same(To(r, s), s, r)
  BY DEF Is, Same, To, Request, TypeOK

\* A new request knows its user, device and network.
LEMMA NewFields ==
  ASSUME NEW s \in Stages, NEW d \in Devices, NEW g \in Networks
  PROVE  Is(New(s, d, g), s, UserOf[d], d, g, {}, Nil, FALSE, FALSE)
  BY UserOfAssumption DEF Is, New, Idle, Request

\* So does one that reads a join key.
LEMMA KeyFields ==
  ASSUME TypeOK, NEW d \in Devices, NEW g \in Networks
  PROVE  Is([New("key", d, g) EXCEPT !.key = key[g]],
            "key", UserOf[d], d, g, {}, Nil, FALSE, FALSE)
  BY UserOfAssumption DEF Is, New, Idle, Request, Stages, TypeOK

\* So does the registration of a device with a home network.
LEMMA ProvisionFields ==
  ASSUME NEW d \in Devices, NEW g \in Networks
  PROVE  Is([New("role", d, g) EXCEPT !.attach = TRUE],
            "role", UserOf[d], d, g, {}, Nil, TRUE, FALSE)
  BY UserOfAssumption DEF Is, New, Idle, Request, Stages

\* A join starts with all devices of its user.
LEMMA LeavingFields ==
  ASSUME TypeOK, NEW d \in Devices, NEW g \in Networks, NEW attach \in BOOLEAN
  PROVE  Is(Leaving(d, g, attach),
            "attachments", UserOf[d], d, g, DevicesOf(UserOf[d]), Nil, attach, FALSE)
  BY UserOfAssumption DEF Is, Leaving, New, Idle, Request, DevicesOf, TypeOK, Stages

\* A device that has left is taken off the list.
LEMMA LeftFields ==
  ASSUME TypeOK, NEW r \in Requests, NEW d \in Devices
  PROVE  Is(Left(r, d), IF req[r].todo = {d} THEN "activate" ELSE "attachments", req[r].user,
            req[r].dev, req[r].net, req[r].todo \ {d}, req[r].role, req[r].attach, req[r].first)
  BY DEF Is, Left, Request, TypeOK, Stages

\* The role is kept for the member row.
LEMMA RoleFields ==
  ASSUME TypeOK, NEW r \in Requests, NEW role \in Roles
  PROVE  Is(WithRole(r, role), "member", req[r].user, req[r].dev, req[r].net, req[r].todo,
            role, req[r].attach, req[r].first)
  BY DEF Is, WithRole, Request, TypeOK, Stages

\* The creation of a network has no network yet.
LEMMA CreatingFields ==
  ASSUME NEW u \in Users, NEW d \in Devices \cup {Nil}, NEW attach \in BOOLEAN,
         NEW first \in BOOLEAN
  PROVE  Is(Creating(u, d, attach, first), "create", u, d, Nil, {}, Nil, attach, first)
  BY DEF Is, Creating, Request, Idle, Stages

\* A created network is the one the request goes on with.
LEMMA ToNetFields ==
  ASSUME TypeOK, NEW r \in Requests, NEW s \in Stages, NEW g \in Networks
  PROVE  Is([To(r, s) EXCEPT !.net = g], s, req[r].user, req[r].dev, g, req[r].todo,
            req[r].role, req[r].attach, req[r].first)
  BY DEF Is, To, Request, TypeOK

\* The creator's device is bound to the created network.
LEMMA RoleNetFields ==
  ASSUME TypeOK, NEW r \in Requests, NEW role \in Roles, NEW g \in Networks
  PROVE  Is([WithRole(r, role) EXCEPT !.net = g], "member", req[r].user, req[r].dev, g,
            req[r].todo, role, req[r].attach, req[r].first)
  BY DEF Is, WithRole, Request, TypeOK, Stages

\* What Join makes of its request.
LEMMA JoinEffect ==
  ASSUME TypeOK, RequestsSound, NEW r \in Requests, NEW d \in Devices, NEW g \in Networks,
         NEW attach \in BOOLEAN,
                                Join(r, d, g, attach)
  PROVE  \E n \in Request : LeavesWith(n, d, g, attach) /\ Becomes(r, n)
  BY LeavingFields, IsRequest DEF Join, Becomes, Begin, LeavesWith

\* What JoinByOwnerEmail makes of its request.
LEMMA JoinByOwnerEmailEffect ==
  ASSUME TypeOK, RequestsSound, NEW r \in Requests, NEW d \in Devices, NEW g \in Networks,
                                JoinByOwnerEmail(r, d, g)
  PROVE  \E n \in Request : LeavesWith(n, d, g, FALSE) /\ Becomes(r, n)
  BY LeavingFields, IsRequest DEF JoinByOwnerEmail, Becomes, Begin, LeavesWith

\* What JoinByKey makes of its request.
LEMMA JoinByKeyEffect ==
  ASSUME TypeOK, RequestsSound, NEW r \in Requests, NEW d \in Devices, NEW g \in Networks,
                                JoinByKey(r, d, g)
  PROVE  \E n \in Request : /\ Is(n, "key", UserOf[d], d, g, {}, Nil, FALSE, FALSE)
                            /\ Becomes(r, n)
  BY KeyFields, IsRequest DEF JoinByKey, Becomes, Begin

\* What AttachDevice makes of its request.
LEMMA AttachDeviceEffect ==
  ASSUME TypeOK, RequestsSound, NEW r \in Requests, NEW d \in Devices, NEW g \in Networks,
                                AttachDevice(r, d, g)
  PROVE  \E n \in Request : /\ Is(n, "attach", UserOf[d], d, g, {}, Nil, FALSE, FALSE)
                            /\ Becomes(r, n)
  BY NewFields, IsRequest DEF AttachDevice, Becomes, Begin, Stages

\* What Bootstrap makes of its request.
LEMMA BootstrapEffect ==
  ASSUME TypeOK, RequestsSound, NEW r \in Requests, NEW d \in Devices, NEW g \in Networks,
                                Bootstrap(r, d, g)
  PROVE  \E n \in Request : /\ Is(n, "boot", UserOf[d], d, g, {}, Nil, FALSE, FALSE)
                            /\ Becomes(r, n)
  BY NewFields, IsRequest DEF Bootstrap, Becomes, Begin, Stages

\* What BootstrapActive makes of its request.
LEMMA BootstrapActiveEffect ==
  ASSUME TypeOK, RequestsSound, NEW r \in Requests, BootstrapActive(r)
  PROVE  \E n \in Request : IsIdle(n) /\ Becomes(r, n)
  BY IdleFields, IsRequest DEF BootstrapActive, Becomes, IsIdle

\* What LeaveSubnets makes of its request.
LEMMA LeaveSubnetsEffect ==
  ASSUME TypeOK, RequestsSound, NEW r \in Requests, NEW d \in Devices, LeaveSubnets(r, d)
  PROVE  \E n \in Request : Same(n, "members", r) /\ Becomes(r, n)
  BY ToFields, IsRequest DEF LeaveSubnets, Becomes, Stages, Same

\* What LeaveNetworks makes of its request.
LEMMA LeaveNetworksEffect ==
  ASSUME TypeOK, RequestsSound, NEW r \in Requests, NEW d \in Devices, LeaveNetworks(r, d)
  PROVE  \E n \in Request : HasLeft(n, r, d) /\ Becomes(r, n)
  BY LeftFields, IsRequest DEF LeaveNetworks, Becomes, HasLeft

\* What RegisterDevice makes of its request.
LEMMA RegisterDeviceEffect ==
  ASSUME TypeOK, RequestsSound, NEW r \in Requests, NEW d \in Devices, RegisterDevice(r, d)
  PROVE  \E n \in Request : Provisioning(n, d) /\ Becomes(r, n)
  BY ProvisionFields, CreatingFields, HomeNetworks, UserOfAssumption, IsRequest
  DEF RegisterDevice, Becomes, Begin, Provisioning

\* What ConsumeKey makes of its request.
LEMMA ConsumeKeyEffect ==
  ASSUME TypeOK, RequestsSound, NEW r \in Requests, ConsumeKey(r)
  PROVE  \E n \in Request : LeavesWith(n, req[r].dev, req[r].net, FALSE) /\ Becomes(r, n)
  BY LeavingFields, RequestFields, IsRequest
  DEF ConsumeKey, Becomes, RequestsSound, Sound, DevicesOf, LeavesWith

\* What SetActive makes of its request.
LEMMA SetActiveEffect ==
  ASSUME TypeOK, RequestsSound, NEW r \in Requests, SetActive(r)
  PROVE  \E n \in Request : Same(n, "role", r) /\ Becomes(r, n)
  BY ToFields, IsRequest DEF SetActive, Becomes, Stages, Same

\* What MembershipRole makes of its request.
LEMMA MembershipRoleEffect ==
  ASSUME TypeOK, RequestsSound, NEW r \in Requests, MembershipRole(r)
  PROVE  \E n \in Request : GetsRole(n, r) /\ Becomes(r, n)
  BY RoleFields, IsRequest DEF MembershipRole, Becomes, Roles, GetsRole

\* What FindMember makes of its request.
LEMMA FindMemberEffect ==
  ASSUME TypeOK, RequestsSound, NEW r \in Requests, FindMember(r)
  PROVE  \E n \in Request : FindsMember(n, r) /\ Becomes(r, n)
  BY ToFields, IdleFields, IsRequest
  DEF FindMember, Becomes, Stages, AfterMember, FindsMember, Same, IsIdle

\* What CreateMember makes of its request.
LEMMA CreateMemberEffect ==
  ASSUME TypeOK, RequestsSound, NEW r \in Requests, CreateMember(r)
  PROVE  \E n \in Request : HasMember(n, r) /\ Becomes(r, n)
  BY ToFields, IdleFields, IsRequest
  DEF CreateMember, Becomes, Stages, AfterMember, HasMember, Same, IsIdle

\* What Attach makes of its request.
LEMMA AttachEffect ==
  ASSUME TypeOK, RequestsSound, NEW r \in Requests, Attach(r)
  PROVE  \E n \in Request : IsIdle(n) /\ Becomes(r, n)
  BY IdleFields, IsRequest DEF Attach, Becomes, IsIdle

\* What ActivateFirst makes of its request.
LEMMA ActivateFirstEffect ==
  ASSUME TypeOK, RequestsSound, NEW r \in Requests, ActivateFirst(r)
  PROVE  \E n \in Request : HasNetwork(n, r, req[r].net) /\ Becomes(r, n)
  BY IdleFields, ToNetFields, RoleNetFields, IsRequest
  DEF ActivateFirst, Becomes, AfterCreate, Stages, Roles, RequestsSound, Sound, HasNetwork,
      IsIdle

\* What Fails makes of its request.
LEMMA FailsEffect ==
  ASSUME TypeOK, RequestsSound, NEW r \in Requests, Fails(r)
  PROVE  \E n \in Request : IsIdle(n) /\ Becomes(r, n)
  BY IdleFields, IsRequest DEF Fails, Becomes, IsIdle

\* What CreateNetwork makes of its request.
LEMMA CreateNetworkEffect ==
  ASSUME TypeOK, RequestsSound, NEW r \in Requests, NEW g \in Networks, CreateNetwork(r, g)
  PROVE  \E n \in Request : GetsNetwork(n, r, g) /\ Becomes(r, n)
  BY IdleFields, ToNetFields, RoleNetFields, IsRequest
  DEF CreateNetwork, Becomes, AfterCreate, Stages, Roles, GetsNetwork, HasNetwork, IsIdle

\* What CheckCreate makes of its request.
LEMMA CheckCreateEffect ==
  ASSUME TypeOK, RequestsSound, NEW r \in Requests, NEW u \in Users,
         NEW d \in Devices \cup {Nil},
                                CheckCreate(r, u, d)
  PROVE  \E n \in Request : /\ Is(n, "create", u, d, Nil, {}, Nil, FALSE, active[u] = Nil)
                            /\ Becomes(r, n)
  BY CreatingFields, IsRequest DEF CheckCreate, Becomes, Begin

-----------------------------------------------------------------------------
\* What follows for all requests from what holds of the one that changed.
LEMMA BecomesFields ==
  ASSUME TypeOK, NEW r \in Requests, NEW n \in Request, Becomes(r, n)
  PROVE  /\ req' \in [Requests -> Request]
         /\ req'[r] = n
         /\ \A q \in Requests \ {r} : req'[q] = req[q]
  BY DEF TypeOK, Becomes

\* A request that begins keeps the types, and records an overlap.
LEMMA BeginTypes ==
  ASSUME TypeOK, NEW r \in Requests, NEW u \in Users, NEW request, Begin(r, u, request)
  PROVE  /\ untidy' \subseteq Users /\ untidy \subseteq untidy'
         /\ begun' \in Nat /\ failures' = failures
         /\ req[r].stage = "idle"
         /\ Busy(u) => u \in untidy'
  BY DEF Begin, TypeOK

\* Handlers go on knowing what they know when one request changes soundly.
LEMMA KeepSound ==
  ASSUME TypeOK, RequestsSound, NEW r \in Requests, NEW n \in Request, Becomes(r, n),
         registered \subseteq registered', Sound(n)',
         \A g \in Networks, d \in Devices : IsMember(g, d)' => d \in registered'
  PROVE  RequestsSound'
  <1>1. ASSUME NEW q \in Requests
        PROVE  Sound(req[q])'
    <2>1. CASE q = r
      BY <2>1, BecomesFields DEF Sound, DevicesOf
    <2>2. CASE q # r
      <3>1. req'[q] = req[q]
        BY <2>2, BecomesFields
      <3>2. QED
        BY <3>1 DEF Sound, DevicesOf, RequestsSound
    <2>3. QED BY <2>1, <2>2
  <1>2. QED
    BY <1>1 DEF RequestsSound

\* Who was let in stays let in while networks keep their owners.
LEMMA KeepLetIn ==
  ASSUME TypeOK, RequestsSound, RequestsLetIn, NEW r \in Requests, NEW n \in Request,
         Becomes(r, n), RequestLetIn(n)',
         \A g \in Networks : owner[g] # Nil => owner'[g] = owner[g],
         admitted \subseteq admitted'
  PROVE  RequestsLetIn'
  <1>1. ASSUME NEW q \in Requests
        PROVE  RequestLetIn(req[q])'
    <2>1. CASE q = r
      BY <2>1, BecomesFields DEF RequestLetIn, LetIn
    <2>2. CASE q # r
      <3>1. req'[q] = req[q]
        BY <2>2, BecomesFields
      <3>2. Sound(req[q]) /\ RequestLetIn(req[q])
        BY DEF RequestsSound, RequestsLetIn
      <3>3. QED
        BY <3>1, <3>2, NilAssumption DEF Sound, RequestLetIn, LetIn
    <2>3. QED BY <2>1, <2>2
  <1>2. QED
    BY <1>1 DEF RequestsLetIn

\* Members stay let in by a step that writes no member row.
LEMMA KeepMembers ==
  ASSUME TypeOK, MembersAreLetIn, UNCHANGED <<member, active>>,
         \A g \in Networks : owner[g] # Nil => owner'[g] = owner[g],
         admitted \subseteq admitted'
  PROVE  MembersAreLetIn'
  BY NilAssumption, UserOfAssumption DEF TypeOK, MembersAreLetIn, LetIn, IsMember

\* A step leaves a user's networks and memberships alone; attachments may go.
SameFor(u) ==
    /\ Owned(u)' = Owned(u)
    /\ active'[u] = active[u]
    /\ \A d \in Devices, g \in Networks : UserOf[d] = u =>
          /\ IsMember(g, d)' <=> IsMember(g, d)
          /\ <<g, d>> \in attached' => <<g, d>> \in attached

\* A step that changes no table leaves every user alone.
LEMMA Quiet ==
  ASSUME NEW u \in Users, UNCHANGED <<owner, active, member, attached>>
  PROVE  SameFor(u)
  BY DEF SameFor, Owned, IsMember

\* The devices of a user left alone go on following.
LEMMA SameFollows ==
  ASSUME NEW u \in Users, Follows(u), SameFor(u)
  PROVE  Follows(u)'
  BY DEF Follows, SameFor, HomeOf

\* So does what the user's request relies on.
LEMMA SameProgress ==
  ASSUME TypeOK, RequestsSound, NEW r \in Requests, NEW u \in Users,
         BusyFor(req[r], u), SameFor(u),
         Progress(req[r]), req'[r] = req[r]
  PROVE  Progress(req[r])'
  <1>1. Sound(req[r]) /\ req[r].user = u /\ req[r].stage # "idle"
    BY DEF RequestsSound, BusyFor
  <1>2. HomeOf(u)' = HomeOf(u)
    BY DEF HomeOf, SameFor
  <1>3. DevicesOf(u) \subseteq Devices /\ \A d \in DevicesOf(u) : UserOf[d] = u
    BY DEF DevicesOf, TypeOK
  <1>4. QED
    BY <1>1, <1>2, <1>3 DEF Progress, SameFor, Sound

\* A step without a request of its own keeps users tidy.
LEMMA SameTidy ==
  ASSUME TypeOK, RequestsSound, TidyUsers, NEW w \in Users, w \notin untidy', SameFor(w),
         UNCHANGED <<req, untidy>>
  PROVE  Tidy(w)'
  BY SameFollows, SameProgress DEF TidyUsers, Tidy, BusyFor

\* A request r of user v goes on as n: for other users nothing changes, and for
\* v it is the only one in progress.
LEMMA TidyStep ==
  ASSUME TypeOK, RequestsSound, NEW w \in Users, Tidy(w), NEW v, NEW r \in Requests,
         NEW n \in Request, Becomes(r, n), n.stage = "idle" \/ n.user = v,
         w # v => SameFor(w),
         w = v => /\ Follows(w)'
                  /\ BusyFor(n, w) => Progress(n)'
                  /\ \A q \in Requests \ {r} : ~BusyFor(req[q], w)
  PROVE  Tidy(w)'
  <1>1. /\ req'[r] = n
        /\ \A q \in Requests \ {r} : req'[q] = req[q]
    BY BecomesFields
  <1>2. Follows(w)'
    BY SameFollows DEF Tidy
  <1>3. ASSUME NEW q \in Requests, BusyFor(req[q], w)'
        PROVE  Progress(req[q])' /\ \A p \in Requests : BusyFor(req[p], w)' => p = q
    <2>1. CASE w = v
      <3>1. q = r
        BY <1>1, <1>3, <2>1 DEF BusyFor
      <3>2. Progress(req[r])'
        BY <1>1, <1>3, <2>1, <3>1 DEF BusyFor, Progress, IsMember, HomeOf, Owned
      <3>3. QED
        BY <1>1, <2>1, <3>1, <3>2 DEF BusyFor
    <2>2. CASE w # v
      <3>1. \A p \in Requests : BusyFor(req[p], w)' => req'[p] = req[p] /\ BusyFor(req[p], w)
        BY <1>1, <2>2 DEF BusyFor
      <3>2. Progress(req[q])'
        BY <1>3, <2>2, <3>1, SameProgress DEF Tidy
      <3>3. QED
        BY <1>3, <3>1, <3>2 DEF Tidy
    <2>3. QED BY <2>1, <2>2
  <1>4. QED
    BY <1>2, <1>3 DEF Tidy

\* The same for a step that changes no table the property is about.
LEMMA QuietStep ==
  ASSUME TypeOK, RequestsSound, NEW w \in Users, Tidy(w), NEW v, NEW r \in Requests,
         NEW n \in Request, Becomes(r, n), n.stage = "idle" \/ n.user = v,
         UNCHANGED <<owner, active, member, attached>>,
         w = v => /\ BusyFor(n, w) => Progress(n)
                  /\ \A q \in Requests \ {r} : ~BusyFor(req[q], w)
  PROVE  Tidy(w)'
  <1>1. SameFor(w)
    BY Quiet
  <1>2. Follows(w)'
    BY <1>1, SameFollows DEF Tidy
  <1>3. Progress(n) => Progress(n)'
    BY DEF Progress, IsMember, HomeOf, Owned
  <1>4. QED
    BY <1>1, <1>2, <1>3, TidyStep

\* Whoever begins a request without becoming untidy is not busy with another
\* one, and the requests of such a user run alone.
LEMMA BeginAlone ==
  ASSUME TypeOK, TidyUsers, NEW w \in Users, w \notin untidy', NEW r \in Requests,
         NEW u \in Users, NEW request, Begin(r, u, request)
  PROVE  Tidy(w) /\ (w = u => \A q \in Requests \ {r} : ~BusyFor(req[q], w))
  BY DEF Begin, TidyUsers, Busy, BusyFor

\* The request of a tidy user is the only one in progress.
LEMMA RunsAlone ==
  ASSUME RequestsSound, TidyUsers, NEW w \in Users, w \notin untidy, NEW r \in Requests,
         req[r].stage # "idle"
  PROVE  /\ Tidy(w) /\ req[r].user \in Users /\ Sound(req[r])
         /\ w = req[r].user => /\ Progress(req[r])
                               /\ \A q \in Requests \ {r} : ~BusyFor(req[q], w)
  BY DEF TidyUsers, Tidy, BusyFor, RequestsSound, Sound

-----------------------------------------------------------------------------
\* The tables and the requests in progress keep their types.
THEOREM TypeCorrect == Spec => [](TypeOK /\ RequestsSound)
  <1>1. Init => TypeOK /\ RequestsSound
    <2> SUFFICES ASSUME Init PROVE TypeOK /\ RequestsSound
      OBVIOUS
    <2>1. Idle \in Request
      BY IdleFields DEF IsIdle, Is
    <2>2. TypeOK
      BY <2>1, FirstOwnerAssumption DEF Init, TypeOK
    <2>3. RequestsSound
      BY IdleFields DEF Init, RequestsSound, Sound, IsIdle, Is, IsMember
    <2>4. QED BY <2>2, <2>3
  <1>2. TypeOK /\ RequestsSound /\ [Next]_vars => (TypeOK /\ RequestsSound)'
    <2> SUFFICES ASSUME TypeOK, RequestsSound, [Next]_vars
                 PROVE  (TypeOK /\ RequestsSound)'
      OBVIOUS
    <2>1. \A r \in Requests : Sound(req[r]) /\ req[r] \in Request
      BY DEF RequestsSound, TypeOK
    <2>2. ASSUME NEW r \in Requests, NEW d \in Devices, NEW g \in Networks,
                 NEW attach \in BOOLEAN,
                 Join(r, d, g, attach)
          PROVE  (TypeOK /\ RequestsSound)'
      <3>1. PICK n \in Request : LeavesWith(n, d, g, attach) /\ Becomes(r, n)
        BY <2>2, JoinEffect
      <3>2. UserOf[d] \in Users
        BY UserOfAssumption
      <3>3. untidy' \subseteq Users /\ begun' \in Nat /\ failures' \in Nat
        BY <2>2, <3>2, BeginTypes DEF Join, TypeOK
      <3>4. TypeOK'
        BY <2>2, <3>1, <3>2, <3>3, BecomesFields DEF Join, tables, TypeOK
      <3>5. Sound(n)'
        BY <2>2, <2>1, <3>1, RequestFields, UserOfAssumption, NilAssumption
        DEF Join, tables, LeavesWith, Is, Sound, DevicesOf, LoadNetworkForDevice
      <3>6. /\ registered \subseteq registered'
            /\ \A h \in Networks, e \in Devices : IsMember(h, e)' => e \in registered'
        BY <2>2 DEF Join, tables, IsMember, RequestsSound, TypeOK
      <3>7. QED
        BY <3>1, <3>4, <3>5, <3>6, KeepSound
    <2>3. ASSUME NEW r \in Requests, NEW d \in Devices, NEW g \in Networks,
                 JoinByOwnerEmail(r, d, g)
          PROVE  (TypeOK /\ RequestsSound)'
      <3>1. PICK n \in Request : LeavesWith(n, d, g, FALSE) /\ Becomes(r, n)
        BY <2>3, JoinByOwnerEmailEffect
      <3>2. UserOf[d] \in Users /\ <<UserOf[d], g>> \in Users \X Networks
        BY UserOfAssumption
      <3>3. untidy' \subseteq Users /\ begun' \in Nat /\ failures' \in Nat
        BY <2>3, <3>2, BeginTypes DEF JoinByOwnerEmail, TypeOK
      <3>4. TypeOK'
        BY <2>3, <3>1, <3>2, <3>3, BecomesFields DEF JoinByOwnerEmail, tables, TypeOK
      <3>5. Sound(n)'
        BY <2>3, <2>1, <3>1, RequestFields, UserOfAssumption, NilAssumption
        DEF JoinByOwnerEmail, tables, LeavesWith, Is, Sound, DevicesOf
      <3>6. /\ registered \subseteq registered'
            /\ \A h \in Networks, e \in Devices : IsMember(h, e)' => e \in registered'
        BY <2>3 DEF JoinByOwnerEmail, tables, IsMember, RequestsSound, TypeOK
      <3>7. QED
        BY <3>1, <3>4, <3>5, <3>6, KeepSound
    <2>4. ASSUME NEW r \in Requests, NEW d \in Devices, NEW g \in Networks,
                 JoinByKey(r, d, g)
          PROVE  (TypeOK /\ RequestsSound)'
      <3>1. PICK n \in Request : /\ Is(n, "key", UserOf[d], d, g, {}, Nil, FALSE, FALSE)
                                 /\ Becomes(r, n)
        BY <2>4, JoinByKeyEffect
      <3>2. UserOf[d] \in Users
        BY UserOfAssumption
      <3>3. untidy' \subseteq Users /\ begun' \in Nat /\ failures' \in Nat
        BY <2>4, <3>2, BeginTypes DEF JoinByKey, TypeOK
      <3>4. TypeOK'
        BY <2>4, <3>1, <3>2, <3>3, BecomesFields DEF JoinByKey, tables, TypeOK
      <3>5. Sound(n)'
        BY <2>4, <2>1, <3>1, RequestFields, UserOfAssumption, NilAssumption
        DEF JoinByKey, tables, Is, Sound, DevicesOf
      <3>6. /\ registered \subseteq registered'
            /\ \A h \in Networks, e \in Devices : IsMember(h, e)' => e \in registered'
        BY <2>4 DEF JoinByKey, tables, IsMember, RequestsSound, TypeOK
      <3>7. QED
        BY <3>1, <3>4, <3>5, <3>6, KeepSound
    <2>5. ASSUME NEW r \in Requests, NEW d \in Devices, NEW g \in Networks,
                 AttachDevice(r, d, g)
          PROVE  (TypeOK /\ RequestsSound)'
      <3>1. PICK n \in Request : /\ Is(n, "attach", UserOf[d], d, g, {}, Nil, FALSE, FALSE)
                                 /\ Becomes(r, n)
        BY <2>5, AttachDeviceEffect
      <3>2. UserOf[d] \in Users
        BY UserOfAssumption
      <3>3. untidy' \subseteq Users /\ begun' \in Nat /\ failures' \in Nat
        BY <2>5, <3>2, BeginTypes DEF AttachDevice, TypeOK
      <3>4. TypeOK'
        BY <2>5, <3>1, <3>2, <3>3, BecomesFields DEF AttachDevice, tables, TypeOK
      <3>5. Sound(n)'
        BY <2>5, <2>1, <3>1, RequestFields, UserOfAssumption, NilAssumption
        DEF AttachDevice, tables, Is, Sound, DevicesOf
      <3>6. /\ registered \subseteq registered'
            /\ \A h \in Networks, e \in Devices : IsMember(h, e)' => e \in registered'
        BY <2>5 DEF AttachDevice, tables, IsMember, RequestsSound, TypeOK
      <3>7. QED
        BY <3>1, <3>4, <3>5, <3>6, KeepSound
    <2>6. ASSUME NEW r \in Requests, NEW d \in Devices, LeaveSubnets(r, d)
          PROVE  (TypeOK /\ RequestsSound)'
      <3>1. PICK n \in Request : Same(n, "members", r) /\ Becomes(r, n)
        BY <2>6, LeaveSubnetsEffect
      <3>2. TypeOK'
        BY <2>6, <3>1, BecomesFields, UserOfAssumption DEF LeaveSubnets, aux, TypeOK
      <3>3. Sound(n)'
        BY <2>6, <2>1, <3>1, RequestFields
        DEF LeaveSubnets, Same, Is, Sound, DevicesOf
      <3>4. /\ registered \subseteq registered'
            /\ \A h \in Networks, e \in Devices : IsMember(h, e)' => e \in registered'
        BY <2>6 DEF LeaveSubnets, IsMember, RequestsSound, TypeOK
      <3>5. QED
        BY <3>1, <3>2, <3>3, <3>4, KeepSound
    <2>7. ASSUME NEW r \in Requests, NEW d \in Devices, LeaveNetworks(r, d)
          PROVE  (TypeOK /\ RequestsSound)'
      <3>1. PICK n \in Request : HasLeft(n, r, d) /\ Becomes(r, n)
        BY <2>7, LeaveNetworksEffect
      <3>2. TypeOK'
        BY <2>7, <3>1, BecomesFields, UserOfAssumption DEF LeaveNetworks, aux, TypeOK
      <3>3. Sound(n)'
        BY <2>7, <2>1, <3>1, RequestFields
        DEF LeaveNetworks, HasLeft, Is, Sound, DevicesOf
      <3>4. /\ registered \subseteq registered'
            /\ \A h \in Networks, e \in Devices : IsMember(h, e)' => e \in registered'
        BY <2>7 DEF LeaveNetworks, IsMember, RequestsSound, TypeOK
      <3>5. QED
        BY <3>1, <3>2, <3>3, <3>4, KeepSound
    <2>8. ASSUME NEW r \in Requests, NEW d \in Devices, RegisterDevice(r, d)
          PROVE  (TypeOK /\ RequestsSound)'
      <3>1. PICK n \in Request : Provisioning(n, d) /\ Becomes(r, n)
        BY <2>8, RegisterDeviceEffect
      <3>2. UserOf[d] \in Users
        BY UserOfAssumption
      <3>3. untidy' \subseteq Users /\ begun' \in Nat /\ failures' \in Nat
        BY <2>8, <3>2, BeginTypes DEF RegisterDevice, TypeOK
      <3>4. TypeOK'
        BY <2>8, <3>1, <3>2, <3>3, BecomesFields DEF RegisterDevice, tables, TypeOK
      <3>5. Sound(n)'
        BY <2>8, <2>1, <3>1, RequestFields, UserOfAssumption, NilAssumption, HomeNetworks
        DEF RegisterDevice, Provisioning, Is, Sound, DevicesOf
      <3>6. /\ registered \subseteq registered'
            /\ \A h \in Networks, e \in Devices : IsMember(h, e)' => e \in registered'
        BY <2>8 DEF RegisterDevice, IsMember, RequestsSound, TypeOK
      <3>7. QED
        BY <3>1, <3>4, <3>5, <3>6, KeepSound
    <2>9. ASSUME NEW r \in Requests, ConsumeKey(r)
          PROVE  (TypeOK /\ RequestsSound)'
      <3>1. PICK n \in Request : LeavesWith(n, req[r].dev, req[r].net, FALSE) /\ Becomes(r, n)
        BY <2>9, ConsumeKeyEffect
      <3>2. req[r].net \in Networks /\ req[r].dev \in Devices /\ req[r].user \in Users
        BY <2>9, RequestFields DEF ConsumeKey, RequestsSound, Sound, DevicesOf
      <3>3. admitted' \subseteq Users \X Networks /\ key' \in [Networks -> Keys \cup {Nil}]
        BY <2>9, <3>2, UserOfAssumption DEF ConsumeKey, TypeOK
      <3>4. TypeOK'
        BY <2>9, <3>1, <3>2, <3>3, BecomesFields DEF ConsumeKey, TypeOK
      <3>5. Sound(n)'
        BY <2>9, <2>1, <3>1, RequestFields, UserOfAssumption, NilAssumption
        DEF ConsumeKey, LeavesWith, Is, Sound, DevicesOf
      <3>6. /\ registered \subseteq registered'
            /\ \A h \in Networks, e \in Devices : IsMember(h, e)' => e \in registered'
        BY <2>9 DEF ConsumeKey, IsMember, RequestsSound, TypeOK
      <3>7. QED
        BY <3>1, <3>4, <3>5, <3>6, KeepSound
    <2>10. ASSUME NEW r \in Requests, SetActive(r)
          PROVE  (TypeOK /\ RequestsSound)'
      <3>1. PICK n \in Request : Same(n, "role", r) /\ Becomes(r, n)
        BY <2>10, SetActiveEffect
      <3>2. req[r].net \in Networks /\ req[r].dev \in Devices /\ req[r].user \in Users
        BY <2>10, RequestFields DEF SetActive, RequestsSound, Sound, DevicesOf
      <3>3. TypeOK'
        BY <2>10, <3>1, <3>2, BecomesFields DEF SetActive, aux, TypeOK
      <3>4. Sound(n)'
        BY <2>10, <2>1, <3>1, RequestFields
        DEF SetActive, Same, Is, Sound, DevicesOf
      <3>5. /\ registered \subseteq registered'
            /\ \A h \in Networks, e \in Devices : IsMember(h, e)' => e \in registered'
        BY <2>10 DEF SetActive, IsMember, RequestsSound, TypeOK
      <3>6. QED
        BY <3>1, <3>3, <3>4, <3>5, KeepSound
    <2>11. ASSUME NEW r \in Requests, MembershipRole(r)
          PROVE  (TypeOK /\ RequestsSound)'
      <3>1. PICK n \in Request : GetsRole(n, r) /\ Becomes(r, n)
        BY <2>11, MembershipRoleEffect
      <3>2. TypeOK'
        BY <2>11, <3>1, BecomesFields, UserOfAssumption DEF MembershipRole, tables, aux, TypeOK
      <3>3. Sound(n)'
        BY <2>11, <2>1, <3>1, RequestFields
        DEF MembershipRole, tables, GetsRole, Is, Sound, DevicesOf, Roles
      <3>4. /\ registered \subseteq registered'
            /\ \A h \in Networks, e \in Devices : IsMember(h, e)' => e \in registered'
        BY <2>11 DEF MembershipRole, tables, IsMember, RequestsSound, TypeOK
      <3>5. QED
        BY <3>1, <3>2, <3>3, <3>4, KeepSound
    <2>12. ASSUME NEW r \in Requests, FindMember(r)
          PROVE  (TypeOK /\ RequestsSound)'
      <3>1. PICK n \in Request : FindsMember(n, r) /\ Becomes(r, n)
        BY <2>12, FindMemberEffect
      <3>2. TypeOK'
        BY <2>12, <3>1, BecomesFields, UserOfAssumption DEF FindMember, tables, aux, TypeOK
      <3>3. Sound(n)'
        BY <2>12, <2>1, <3>1, RequestFields
        DEF FindMember, tables, FindsMember, Same, IsIdle, Is, Sound, DevicesOf
      <3>4. /\ registered \subseteq registered'
            /\ \A h \in Networks, e \in Devices : IsMember(h, e)' => e \in registered'
        BY <2>12 DEF FindMember, tables, IsMember, RequestsSound, TypeOK
      <3>5. QED
        BY <3>1, <3>2, <3>3, <3>4, KeepSound
    <2>13. ASSUME NEW r \in Requests, CreateMember(r)
          PROVE  (TypeOK /\ RequestsSound)'
      <3>1. PICK n \in Request : HasMember(n, r) /\ Becomes(r, n)
        BY <2>13, CreateMemberEffect
      <3>2. req[r].net \in Networks /\ req[r].dev \in Devices /\ req[r].user \in Users
        BY <2>13, RequestFields DEF CreateMember, RequestsSound, Sound, DevicesOf
      <3>3. member' \in [Networks -> [Devices -> Roles \cup {Nil}]]
        <4>1. [member[req[r].net] EXCEPT ![req[r].dev] = req[r].role]
                 \in [Devices -> Roles \cup {Nil}]
          BY <3>2, RequestFields DEF TypeOK
        <4>2. CASE IsMember(req[r].net, req[r].dev)
          BY <2>13, <4>2 DEF CreateMember, TypeOK
        <4>3. CASE ~IsMember(req[r].net, req[r].dev)
          BY <2>13, <3>2, <4>1, <4>3 DEF CreateMember, TypeOK
        <4>4. QED BY <4>2, <4>3
      <3>4. TypeOK'
        BY <2>13, <3>1, <3>2, <3>3, BecomesFields DEF CreateMember, aux, TypeOK
      <3>5. Sound(n)'
        BY <2>13, <2>1, <3>1, RequestFields
        DEF CreateMember, HasMember, Same, IsIdle, Is, Sound, DevicesOf
      <3>6. /\ registered \subseteq registered'
            /\ \A h \in Networks, e \in Devices : IsMember(h, e)' => e \in registered'
        BY <2>13, <2>1 DEF CreateMember, IsMember, RequestsSound, TypeOK, Sound, DevicesOf
      <3>7. QED
        BY <3>1, <3>4, <3>5, <3>6, KeepSound
    <2>14. ASSUME NEW r \in Requests, Attach(r)
          PROVE  (TypeOK /\ RequestsSound)'
      <3>1. PICK n \in Request : IsIdle(n) /\ Becomes(r, n)
        BY <2>14, AttachEffect
      <3>2. req[r].net \in Networks /\ req[r].dev \in Devices /\ req[r].user \in Users
        BY <2>14, RequestFields DEF Attach, RequestsSound, Sound, DevicesOf
      <3>3. TypeOK'
        BY <2>14, <3>1, <3>2, BecomesFields DEF Attach, aux, TypeOK
      <3>4. Sound(n)'
        BY <2>14, <2>1, <3>1, RequestFields, NilAssumption
        DEF Attach, IsIdle, Is, Sound, DevicesOf
      <3>5. /\ registered \subseteq registered'
            /\ \A h \in Networks, e \in Devices : IsMember(h, e)' => e \in registered'
        BY <2>14 DEF Attach, IsMember, RequestsSound, TypeOK
      <3>6. QED
        BY <3>1, <3>3, <3>4, <3>5, KeepSound
    <2>15. ASSUME NEW r \in Requests, ActivateFirst(r)
          PROVE  (TypeOK /\ RequestsSound)'
      <3>1. PICK n \in Request : HasNetwork(n, r, req[r].net) /\ Becomes(r, n)
        BY <2>15, ActivateFirstEffect
      <3>2. req[r].net \in Networks /\ req[r].user \in Users
        BY <2>15, RequestFields DEF ActivateFirst, RequestsSound, Sound, DevicesOf
      <3>3. TypeOK'
        BY <2>15, <3>1, <3>2, BecomesFields DEF ActivateFirst, aux, TypeOK
      <3>4. Sound(n)'
        BY <2>15, <2>1, <3>1, RequestFields
        DEF ActivateFirst, HasNetwork, IsIdle, Is, Sound, DevicesOf, Roles
      <3>5. /\ registered \subseteq registered'
            /\ \A h \in Networks, e \in Devices : IsMember(h, e)' => e \in registered'
        BY <2>15 DEF ActivateFirst, IsMember, RequestsSound, TypeOK
      <3>6. QED
        BY <3>1, <3>3, <3>4, <3>5, KeepSound
    <2>16. ASSUME NEW r \in Requests, Fails(r)
          PROVE  (TypeOK /\ RequestsSound)'
      <3>1. PICK n \in Request : IsIdle(n) /\ Becomes(r, n)
        BY <2>16, FailsEffect
      <3>2. TypeOK'
        BY <2>16, <3>1, BecomesFields, UserOfAssumption DEF Fails, tables, TypeOK
      <3>3. Sound(n)'
        BY <2>16, <2>1, <3>1, RequestFields, NilAssumption
        DEF Fails, tables, IsIdle, Is, Sound, DevicesOf
      <3>4. /\ registered \subseteq registered'
            /\ \A h \in Networks, e \in Devices : IsMember(h, e)' => e \in registered'
        BY <2>16 DEF Fails, tables, IsMember, RequestsSound, TypeOK
      <3>5. QED
        BY <3>1, <3>2, <3>3, <3>4, KeepSound
    <2>17. ASSUME NEW r \in Requests, NEW g \in Networks, CreateNetwork(r, g)
          PROVE  (TypeOK /\ RequestsSound)'
      <3>1. PICK n \in Request : GetsNetwork(n, r, g) /\ Becomes(r, n)
        BY <2>17, CreateNetworkEffect
      <3>2. req[r].user \in Users
        BY <2>17, RequestFields DEF CreateNetwork, RequestsSound, Sound, DevicesOf
      <3>3. TypeOK'
        BY <2>17, <3>1, <3>2, BecomesFields DEF CreateNetwork, BindsBeside, TypeOK
      <3>4. Sound(n)'
        BY <2>17, <2>1, <3>1, RequestFields
        DEF CreateNetwork, GetsNetwork, HasNetwork, IsIdle, Is, Sound, DevicesOf, Roles
      <3>5. /\ registered \subseteq registered'
            /\ \A h \in Networks, e \in Devices : IsMember(h, e)' => e \in registered'
        BY <2>17 DEF CreateNetwork, IsMember, RequestsSound, TypeOK
      <3>6. QED
        BY <3>1, <3>3, <3>4, <3>5, KeepSound
    <2>18. ASSUME NEW r \in Requests, NEW u \in Users, NEW d \in Devices \cup {Nil},
                  CheckCreate(r, u, d)
          PROVE  (TypeOK /\ RequestsSound)'
      <3>1. PICK n \in Request : /\ Is(n, "create", u, d, Nil, {}, Nil, FALSE, active[u] = Nil)
                                 /\ Becomes(r, n)
        BY <2>18, CheckCreateEffect
      <3>2. u \in Users
        OBVIOUS
      <3>3. untidy' \subseteq Users /\ begun' \in Nat /\ failures' \in Nat
        BY <2>18, <3>2, BeginTypes DEF CheckCreate, TypeOK
      <3>4. TypeOK'
        BY <2>18, <3>1, <3>2, <3>3, BecomesFields DEF CheckCreate, tables, TypeOK
      <3>5. Sound(n)'
        BY <2>18, <2>1, <3>1, RequestFields, UserOfAssumption, NilAssumption
        DEF CheckCreate, tables, Is, Sound, DevicesOf
      <3>6. /\ registered \subseteq registered'
            /\ \A h \in Networks, e \in Devices : IsMember(h, e)' => e \in registered'
        BY <2>18 DEF CheckCreate, tables, IsMember, RequestsSound, TypeOK
      <3>7. QED
        BY <3>1, <3>4, <3>5, <3>6, KeepSound
    <2>19. ASSUME NEW g \in Networks, NEW k \in Keys, UpdateJoinKey(g, k)
          PROVE  (TypeOK /\ RequestsSound)'
      BY <2>19 DEF UpdateJoinKey, aux, TypeOK, RequestsSound, Sound, DevicesOf, IsMember
    <2>20. ASSUME NEW d \in Devices, NEW g \in Networks, Deactivate(d, g)
          PROVE  (TypeOK /\ RequestsSound)'
      BY <2>20 DEF Deactivate, aux, TypeOK, RequestsSound, Sound, DevicesOf, IsMember
    <2>21. ASSUME NEW r \in Requests, NEW d \in Devices, NEW g \in Networks,
                 Bootstrap(r, d, g)
          PROVE  (TypeOK /\ RequestsSound)'
      <3>1. PICK n \in Request : /\ Is(n, "boot", UserOf[d], d, g, {}, Nil, FALSE, FALSE)
                                 /\ Becomes(r, n)
        BY <2>21, BootstrapEffect
      <3>2. UserOf[d] \in Users
        BY UserOfAssumption
      <3>3. untidy' \subseteq Users /\ begun' \in Nat /\ failures' \in Nat
        BY <2>21, <3>2, BeginTypes DEF Bootstrap, TypeOK
      <3>4. TypeOK'
        BY <2>21, <3>1, <3>2, <3>3, BecomesFields DEF Bootstrap, tables, TypeOK
      <3>5. Sound(n)'
        BY <2>21, <2>1, <3>1, RequestFields, UserOfAssumption, NilAssumption
        DEF Bootstrap, tables, Is, Sound, DevicesOf
      <3>6. /\ registered \subseteq registered'
            /\ \A h \in Networks, e \in Devices : IsMember(h, e)' => e \in registered'
        BY <2>21 DEF Bootstrap, tables, IsMember, RequestsSound, TypeOK
      <3>7. QED
        BY <3>1, <3>4, <3>5, <3>6, KeepSound
    <2>22. ASSUME NEW r \in Requests, BootstrapActive(r)
          PROVE  (TypeOK /\ RequestsSound)'
      <3>1. PICK n \in Request : IsIdle(n) /\ Becomes(r, n)
        BY <2>22, BootstrapActiveEffect
      <3>2. req[r].net \in Networks /\ req[r].dev \in Devices /\ req[r].user \in Users
        BY <2>22, RequestFields DEF BootstrapActive, RequestsSound, Sound, DevicesOf
      <3>3. TypeOK'
        BY <2>22, <3>1, <3>2, BecomesFields DEF BootstrapActive, aux, TypeOK
      <3>4. Sound(n)'
        BY <2>22, <2>1, <3>1, RequestFields
        DEF BootstrapActive, IsIdle, Is, Sound, DevicesOf
      <3>5. /\ registered \subseteq registered'
            /\ \A h \in Networks, e \in Devices : IsMember(h, e)' => e \in registered'
        BY <2>22 DEF BootstrapActive, IsMember, RequestsSound, TypeOK
      <3>6. QED
        BY <3>1, <3>3, <3>4, <3>5, KeepSound
    <2>23. CASE UNCHANGED vars
      BY <2>23 DEF vars, tables, aux, TypeOK, RequestsSound, Sound, DevicesOf, IsMember
    <2>24. QED
      BY <2>2, <2>3, <2>4, <2>5, <2>6, <2>7, <2>8, <2>9, <2>10, <2>11,
         <2>12, <2>13, <2>14, <2>15, <2>16, <2>17, <2>18, <2>19, <2>20, <2>21, <2>22, <2>23 DEF Next
  <1>3. QED
    BY <1>1, <1>2, PTL DEF Spec

\* Whoever passes ensureNetworkAccess owns the network or was let in before.
LEMMA AccessLetIn ==
  ASSUME TypeOK, MembersAreLetIn, NEW d \in Devices, NEW g \in Networks, Access(UserOf[d], g)
  PROVE  LetIn(UserOf[d], g)
  BY DEF TypeOK, MembersAreLetIn, Access, DevicesOf, LetIn

\* A user is let in to the home network.
LEMMA HomeLetIn ==
  ASSUME TypeOK, MembersAreLetIn, NEW u \in Users, NEW g \in HomeOf(u)
  PROVE  g \in Networks /\ LetIn(u, g)
  BY NilAssumption DEF TypeOK, MembersAreLetIn, HomeOf, Owned, LetIn

\* Only devices whose user owns a network or was let in get into it.
THEOREM OnlyLetIn == Spec => []MembersAreLetIn
  <1>1. Init => MembersAreLetIn /\ RequestsLetIn
    <2> SUFFICES ASSUME Init PROVE MembersAreLetIn /\ RequestsLetIn
      OBVIOUS
    <2>1. RequestsLetIn
      BY IdleFields DEF Init, RequestsLetIn, RequestLetIn, IsIdle, Is
    <2>2. \A g \in Networks, d \in Devices : member[g][d] = Nil
      BY DEF Init
    <2>3. Nil # "owner"
      BY NilAssumption DEF Roles
    <2>4. QED
      BY <2>1, <2>2, <2>3, FirstOwnerAssumption DEF Init, MembersAreLetIn, LetIn, IsMember
  <1>2. TypeOK /\ RequestsSound /\ MembersAreLetIn /\ RequestsLetIn /\ [Next]_vars
          => MembersAreLetIn' /\ RequestsLetIn'
    <2> SUFFICES ASSUME TypeOK, RequestsSound, MembersAreLetIn, RequestsLetIn, [Next]_vars
                 PROVE  MembersAreLetIn' /\ RequestsLetIn'
      OBVIOUS
    <2>1. \A r \in Requests : Sound(req[r]) /\ RequestLetIn(req[r])
      BY DEF RequestsSound, RequestsLetIn
    <2>2. ASSUME NEW r \in Requests, NEW d \in Devices, NEW g \in Networks,
                 NEW attach \in BOOLEAN,
                 Join(r, d, g, attach)
          PROVE  MembersAreLetIn' /\ RequestsLetIn'
      <3>1. PICK n \in Request : LeavesWith(n, d, g, attach) /\ Becomes(r, n)
        BY <2>2, JoinEffect
      <3>2. /\ \A h \in Networks : owner[h] # Nil => owner'[h] = owner[h]
            /\ admitted \subseteq admitted'
        BY <2>2 DEF Join, tables
      <3>3. RequestLetIn(n)'
        BY <2>2, <2>1, <3>1, <3>2, AccessLetIn, UserOfAssumption, NilAssumption
        DEF Join, LeavesWith, Is, RequestLetIn, LetIn, LoadNetworkForDevice
      <3>4. MembersAreLetIn'
        BY <2>2, <3>2, KeepMembers DEF Join, tables
      <3>5. QED
        BY <3>1, <3>2, <3>3, <3>4, KeepLetIn
    <2>3. ASSUME NEW r \in Requests, NEW d \in Devices, NEW g \in Networks,
                 JoinByOwnerEmail(r, d, g)
          PROVE  MembersAreLetIn' /\ RequestsLetIn'
      <3>1. PICK n \in Request : LeavesWith(n, d, g, FALSE) /\ Becomes(r, n)
        BY <2>3, JoinByOwnerEmailEffect
      <3>2. /\ \A h \in Networks : owner[h] # Nil => owner'[h] = owner[h]
            /\ admitted \subseteq admitted'
        BY <2>3 DEF JoinByOwnerEmail, tables
      <3>3. RequestLetIn(n)'
        BY <2>3, <2>1, <3>1, <3>2, NilAssumption
        DEF JoinByOwnerEmail, LeavesWith, Is, RequestLetIn, LetIn
      <3>4. MembersAreLetIn'
        BY <2>3, <3>2, KeepMembers DEF JoinByOwnerEmail, tables
      <3>5. QED
        BY <3>1, <3>2, <3>3, <3>4, KeepLetIn
    <2>4. ASSUME NEW r \in Requests, NEW d \in Devices, NEW g \in Networks,
                 JoinByKey(r, d, g)
          PROVE  MembersAreLetIn' /\ RequestsLetIn'
      <3>1. PICK n \in Request : /\ Is(n, "key", UserOf[d], d, g, {}, Nil, FALSE, FALSE)
                                 /\ Becomes(r, n)
        BY <2>4, JoinByKeyEffect
      <3>2. /\ \A h \in Networks : owner[h] # Nil => owner'[h] = owner[h]
            /\ admitted \subseteq admitted'
        BY <2>4 DEF JoinByKey, tables
      <3>3. RequestLetIn(n)'
        BY <2>4, <2>1, <3>1, <3>2
        DEF JoinByKey, Is, RequestLetIn, LetIn
      <3>4. MembersAreLetIn'
        BY <2>4, <3>2, KeepMembers DEF JoinByKey, tables
      <3>5. QED
        BY <3>1, <3>2, <3>3, <3>4, KeepLetIn
    <2>5. ASSUME NEW r \in Requests, NEW d \in Devices, NEW g \in Networks,
                 AttachDevice(r, d, g)
          PROVE  MembersAreLetIn' /\ RequestsLetIn'
      <3>1. PICK n \in Request : /\ Is(n, "attach", UserOf[d], d, g, {}, Nil, FALSE, FALSE)
                                 /\ Becomes(r, n)
        BY <2>5, AttachDeviceEffect
      <3>2. /\ \A h \in Networks : owner[h] # Nil => owner'[h] = owner[h]
            /\ admitted \subseteq admitted'
        BY <2>5 DEF AttachDevice, tables
      <3>3. RequestLetIn(n)'
        BY <2>5, <2>1, <3>1, <3>2, AccessLetIn, UserOfAssumption, NilAssumption
        DEF AttachDevice, Is, RequestLetIn, LetIn
      <3>4. MembersAreLetIn'
        BY <2>5, <3>2, KeepMembers DEF AttachDevice, tables
      <3>5. QED
        BY <3>1, <3>2, <3>3, <3>4, KeepLetIn
    <2>6. ASSUME NEW r \in Requests, NEW d \in Devices, LeaveSubnets(r, d)
          PROVE  MembersAreLetIn' /\ RequestsLetIn'
      <3>1. PICK n \in Request : Same(n, "members", r) /\ Becomes(r, n)
        BY <2>6, LeaveSubnetsEffect
      <3>2. /\ \A h \in Networks : owner[h] # Nil => owner'[h] = owner[h]
            /\ admitted \subseteq admitted'
        BY <2>6 DEF LeaveSubnets, aux
      <3>3. RequestLetIn(n)'
        BY <2>6, <2>1, <3>1, <3>2
        DEF LeaveSubnets, Same, Is, RequestLetIn, LetIn, Sound
      <3>4. MembersAreLetIn'
        BY <2>6, <3>2, KeepMembers DEF LeaveSubnets
      <3>5. QED
        BY <3>1, <3>2, <3>3, <3>4, KeepLetIn
    <2>7. ASSUME NEW r \in Requests, NEW d \in Devices, LeaveNetworks(r, d)
          PROVE  MembersAreLetIn' /\ RequestsLetIn'
      <3>1. PICK n \in Request : HasLeft(n, r, d) /\ Becomes(r, n)
        BY <2>7, LeaveNetworksEffect
      <3>2. /\ \A h \in Networks : owner[h] # Nil => owner'[h] = owner[h]
            /\ admitted \subseteq admitted'
        BY <2>7 DEF LeaveNetworks, aux
      <3>3. RequestLetIn(n)'
        BY <2>7, <2>1, <3>1, <3>2
        DEF LeaveNetworks, HasLeft, Is, RequestLetIn, LetIn, Sound
      <3>4. MembersAreLetIn'
        <4>1. /\ UNCHANGED <<owner, admitted, active>>
              /\ \A h \in Networks, e \in Devices : member'[h][e] \in {member[h][e], Nil}
          BY <2>7 DEF LeaveNetworks, aux, TypeOK
        <4>2. QED
          BY <4>1, NilAssumption DEF MembersAreLetIn, LetIn, IsMember, Roles
      <3>5. QED
        BY <3>1, <3>2, <3>3, <3>4, KeepLetIn
    <2>8. ASSUME NEW r \in Requests, NEW d \in Devices, RegisterDevice(r, d)
          PROVE  MembersAreLetIn' /\ RequestsLetIn'
      <3>1. PICK n \in Request : Provisioning(n, d) /\ Becomes(r, n)
        BY <2>8, RegisterDeviceEffect
      <3>2. /\ \A h \in Networks : owner[h] # Nil => owner'[h] = owner[h]
            /\ admitted \subseteq admitted'
        BY <2>8 DEF RegisterDevice
      <3>3. RequestLetIn(n)'
        BY <2>8, <2>1, <3>1, <3>2, HomeLetIn, UserOfAssumption, NilAssumption
        DEF RegisterDevice, Provisioning, Is, RequestLetIn, LetIn
      <3>4. MembersAreLetIn'
        BY <2>8, <3>2, KeepMembers DEF RegisterDevice
      <3>5. QED
        BY <3>1, <3>2, <3>3, <3>4, KeepLetIn
    <2>9. ASSUME NEW r \in Requests, ConsumeKey(r)
          PROVE  MembersAreLetIn' /\ RequestsLetIn'
      <3>1. PICK n \in Request : LeavesWith(n, req[r].dev, req[r].net, FALSE) /\ Becomes(r, n)
        BY <2>9, ConsumeKeyEffect
      <3>2. /\ \A h \in Networks : owner[h] # Nil => owner'[h] = owner[h]
            /\ admitted \subseteq admitted'
        BY <2>9 DEF ConsumeKey
      <3>3. RequestLetIn(n)'
        BY <2>9, <2>1, <3>1, <3>2
        DEF ConsumeKey, LeavesWith, Is, RequestLetIn, LetIn
      <3>4. MembersAreLetIn'
        BY <2>9, <3>2, KeepMembers DEF ConsumeKey
      <3>5. QED
        BY <3>1, <3>2, <3>3, <3>4, KeepLetIn
    <2>10. ASSUME NEW r \in Requests, SetActive(r)
          PROVE  MembersAreLetIn' /\ RequestsLetIn'
      <3>1. PICK n \in Request : Same(n, "role", r) /\ Becomes(r, n)
        BY <2>10, SetActiveEffect
      <3>2. /\ \A h \in Networks : owner[h] # Nil => owner'[h] = owner[h]
            /\ admitted \subseteq admitted'
        BY <2>10 DEF SetActive, aux
      <3>3. RequestLetIn(n)'
        BY <2>10, <2>1, <3>1, <3>2
        DEF SetActive, Same, Is, RequestLetIn, LetIn, Sound
      <3>4. MembersAreLetIn'
        <4>1. LetIn(req[r].user, req[r].net) /\ req[r].user \in Users
          BY <2>10, <2>1 DEF SetActive, RequestLetIn, Sound
        <4>2. \A v \in Users : active'[v] = IF v = req[r].user THEN req[r].net ELSE active[v]
          BY <2>10 DEF SetActive, TypeOK
        <4>3. UNCHANGED <<owner, admitted, member>>
          BY <2>10 DEF SetActive, aux
        <4>4. QED
          BY <4>1, <4>2, <4>3 DEF MembersAreLetIn, LetIn, IsMember
      <3>5. QED
        BY <3>1, <3>2, <3>3, <3>4, KeepLetIn
    <2>11. ASSUME NEW r \in Requests, MembershipRole(r)
          PROVE  MembersAreLetIn' /\ RequestsLetIn'
      <3>1. PICK n \in Request : GetsRole(n, r) /\ Becomes(r, n)
        BY <2>11, MembershipRoleEffect
      <3>2. /\ \A h \in Networks : owner[h] # Nil => owner'[h] = owner[h]
            /\ admitted \subseteq admitted'
        BY <2>11 DEF MembershipRole, tables, aux
      <3>3. RequestLetIn(n)'
        BY <2>11, <2>1, <3>1, <3>2
        DEF MembershipRole, tables, GetsRole, Is, RequestLetIn, LetIn, Sound
      <3>4. MembersAreLetIn'
        BY <2>11, <3>2, KeepMembers DEF MembershipRole, tables
      <3>5. QED
        BY <3>1, <3>2, <3>3, <3>4, KeepLetIn
    <2>12. ASSUME NEW r \in Requests, FindMember(r)
          PROVE  MembersAreLetIn' /\ RequestsLetIn'
      <3>1. PICK n \in Request : FindsMember(n, r) /\ Becomes(r, n)
        BY <2>12, FindMemberEffect
      <3>2. /\ \A h \in Networks : owner[h] # Nil => owner'[h] = owner[h]
            /\ admitted \subseteq admitted'
        BY <2>12 DEF FindMember, tables, aux
      <3>3. RequestLetIn(n)'
        BY <2>12, <2>1, <3>1, <3>2
        DEF FindMember, tables, FindsMember, Same, IsIdle, Is, RequestLetIn, LetIn, Sound
      <3>4. MembersAreLetIn'
        BY <2>12, <3>2, KeepMembers DEF FindMember, tables
      <3>5. QED
        BY <3>1, <3>2, <3>3, <3>4, KeepLetIn
    <2>13. ASSUME NEW r \in Requests, CreateMember(r)
          PROVE  MembersAreLetIn' /\ RequestsLetIn'
      <3>1. PICK n \in Request : HasMember(n, r) /\ Becomes(r, n)
        BY <2>13, CreateMemberEffect
      <3>2. /\ \A h \in Networks : owner[h] # Nil => owner'[h] = owner[h]
            /\ admitted \subseteq admitted'
        BY <2>13 DEF CreateMember, aux
      <3>3. RequestLetIn(n)'
        BY <2>13, <2>1, <3>1, <3>2
        DEF CreateMember, HasMember, Same, IsIdle, Is, RequestLetIn, LetIn, Sound
      <3>4. MembersAreLetIn'
        <4> DEFINE g == req[r].net
                   d == req[r].dev
        <4>1. /\ LetIn(UserOf[d], g) /\ g \in Networks /\ d \in Devices
              /\ req[r].role = "owner" => owner[g] = UserOf[d]
          BY <2>13, <2>1, RequestFields DEF CreateMember, RequestLetIn, Sound, DevicesOf
        <4>2. UNCHANGED <<owner, admitted, active>>
          BY <2>13 DEF CreateMember, aux
        <4>3. CASE IsMember(g, d)
          BY <2>13, <4>2, <4>3 DEF CreateMember, MembersAreLetIn, LetIn, IsMember
        <4>4. CASE ~IsMember(g, d)
          <5>1. \A h \in Networks, e \in Devices : member'[h][e] =
                   IF h = g /\ e = d THEN req[r].role ELSE member[h][e]
            BY <2>13, <4>1, <4>4 DEF CreateMember, TypeOK
          <5>2. QED
            BY <4>1, <4>2, <5>1 DEF MembersAreLetIn, LetIn, IsMember
        <4>5. QED BY <4>3, <4>4
      <3>5. QED
        BY <3>1, <3>2, <3>3, <3>4, KeepLetIn
    <2>14. ASSUME NEW r \in Requests, Attach(r)
          PROVE  MembersAreLetIn' /\ RequestsLetIn'
      <3>1. PICK n \in Request : IsIdle(n) /\ Becomes(r, n)
        BY <2>14, AttachEffect
      <3>2. /\ \A h \in Networks : owner[h] # Nil => owner'[h] = owner[h]
            /\ admitted \subseteq admitted'
        BY <2>14 DEF Attach, aux
      <3>3. RequestLetIn(n)'
        BY <2>14, <2>1, <3>1, <3>2
        DEF Attach, IsIdle, Is, RequestLetIn, LetIn
      <3>4. MembersAreLetIn'
        BY <2>14, <3>2, KeepMembers DEF Attach
      <3>5. QED
        BY <3>1, <3>2, <3>3, <3>4, KeepLetIn
    <2>15. ASSUME NEW r \in Requests, ActivateFirst(r)
          PROVE  MembersAreLetIn' /\ RequestsLetIn'
      <3>1. PICK n \in Request : HasNetwork(n, r, req[r].net) /\ Becomes(r, n)
        BY <2>15, ActivateFirstEffect
      <3>2. /\ \A h \in Networks : owner[h] # Nil => owner'[h] = owner[h]
            /\ admitted \subseteq admitted'
        BY <2>15 DEF ActivateFirst, aux
      <3>3. RequestLetIn(n)'
        BY <2>15, <2>1, <3>1, <3>2
        DEF ActivateFirst, HasNetwork, IsIdle, Is, RequestLetIn, LetIn, Sound
      <3>4. MembersAreLetIn'
        <4>1. LetIn(req[r].user, req[r].net) /\ req[r].user \in Users
          BY <2>15, <2>1 DEF ActivateFirst, RequestLetIn, LetIn, Sound
        <4>2. \A v \in Users : active'[v] = IF v = req[r].user THEN req[r].net ELSE active[v]
          BY <2>15 DEF ActivateFirst, TypeOK
        <4>3. UNCHANGED <<owner, admitted, member>>
          BY <2>15 DEF ActivateFirst, aux
        <4>4. QED
          BY <4>1, <4>2, <4>3 DEF MembersAreLetIn, LetIn, IsMember
      <3>5. QED
        BY <3>1, <3>2, <3>3, <3>4, KeepLetIn
    <2>16. ASSUME NEW r \in Requests, Fails(r)
          PROVE  MembersAreLetIn' /\ RequestsLetIn'
      <3>1. PICK n \in Request : IsIdle(n) /\ Becomes(r, n)
        BY <2>16, FailsEffect
      <3>2. /\ \A h \in Networks : owner[h] # Nil => owner'[h] = owner[h]
            /\ admitted \subseteq admitted'
        BY <2>16 DEF Fails, tables
      <3>3. RequestLetIn(n)'
        BY <2>16, <2>1, <3>1, <3>2
        DEF Fails, IsIdle, Is, RequestLetIn, LetIn
      <3>4. MembersAreLetIn'
        BY <2>16, <3>2, KeepMembers DEF Fails, tables
      <3>5. QED
        BY <3>1, <3>2, <3>3, <3>4, KeepLetIn
    <2>17. ASSUME NEW r \in Requests, NEW g \in Networks, CreateNetwork(r, g)
          PROVE  MembersAreLetIn' /\ RequestsLetIn'
      <3>1. PICK n \in Request : GetsNetwork(n, r, g) /\ Becomes(r, n)
        BY <2>17, CreateNetworkEffect
      <3>2. /\ \A h \in Networks : owner[h] # Nil => owner'[h] = owner[h]
            /\ admitted \subseteq admitted'
        BY <2>17 DEF CreateNetwork, TypeOK
      <3>3. RequestLetIn(n)'
        BY <2>17, <2>1, <3>1, <3>2
        DEF CreateNetwork, GetsNetwork, HasNetwork, IsIdle, Is, RequestLetIn, LetIn, Sound,
            TypeOK
      <3>4. MembersAreLetIn'
        BY <2>17, <3>2, KeepMembers DEF CreateNetwork
      <3>5. QED
        BY <3>1, <3>2, <3>3, <3>4, KeepLetIn
    <2>18. ASSUME NEW r \in Requests, NEW u \in Users, NEW d \in Devices \cup {Nil},
                  CheckCreate(r, u, d)
          PROVE  MembersAreLetIn' /\ RequestsLetIn'
      <3>1. PICK n \in Request : /\ Is(n, "create", u, d, Nil, {}, Nil, FALSE, active[u] = Nil)
                                 /\ Becomes(r, n)
        BY <2>18, CheckCreateEffect
      <3>2. /\ \A h \in Networks : owner[h] # Nil => owner'[h] = owner[h]
            /\ admitted \subseteq admitted'
        BY <2>18 DEF CheckCreate, tables
      <3>3. RequestLetIn(n)'
        BY <2>18, <2>1, <3>1, <3>2
        DEF CheckCreate, Is, RequestLetIn, LetIn
      <3>4. MembersAreLetIn'
        BY <2>18, <3>2, KeepMembers DEF CheckCreate, tables
      <3>5. QED
        BY <3>1, <3>2, <3>3, <3>4, KeepLetIn
    <2>19. ASSUME NEW g \in Networks, NEW k \in Keys, UpdateJoinKey(g, k)
          PROVE  MembersAreLetIn' /\ RequestsLetIn'
      BY <2>19
      DEF UpdateJoinKey, aux, MembersAreLetIn, RequestsLetIn, RequestLetIn, LetIn, IsMember
    <2>20. ASSUME NEW d \in Devices, NEW g \in Networks, Deactivate(d, g)
          PROVE  MembersAreLetIn' /\ RequestsLetIn'
      BY <2>20
      DEF Deactivate, aux, MembersAreLetIn, RequestsLetIn, RequestLetIn, LetIn, IsMember
    <2>21. ASSUME NEW r \in Requests, NEW d \in Devices, NEW g \in Networks,
                 Bootstrap(r, d, g)
          PROVE  MembersAreLetIn' /\ RequestsLetIn'
      <3>1. PICK n \in Request : /\ Is(n, "boot", UserOf[d], d, g, {}, Nil, FALSE, FALSE)
                                 /\ Becomes(r, n)
        BY <2>21, BootstrapEffect
      <3>2. /\ \A h \in Networks : owner[h] # Nil => owner'[h] = owner[h]
            /\ admitted \subseteq admitted'
        BY <2>21 DEF Bootstrap, tables
      <3>3. RequestLetIn(n)'
        BY <2>21, <2>1, <3>1, <3>2, AccessLetIn, UserOfAssumption, NilAssumption
        DEF Bootstrap, Is, RequestLetIn, LetIn
      <3>4. MembersAreLetIn'
        BY <2>21, <3>2, KeepMembers DEF Bootstrap, tables
      <3>5. QED
        BY <3>1, <3>2, <3>3, <3>4, KeepLetIn
    <2>22. ASSUME NEW r \in Requests, BootstrapActive(r)
          PROVE  MembersAreLetIn' /\ RequestsLetIn'
      <3>1. PICK n \in Request : IsIdle(n) /\ Becomes(r, n)
        BY <2>22, BootstrapActiveEffect
      <3>2. /\ \A h \in Networks : owner[h] # Nil => owner'[h] = owner[h]
            /\ admitted \subseteq admitted'
        BY <2>22 DEF BootstrapActive, aux
      <3>3. RequestLetIn(n)'
        BY <2>22, <2>1, <3>1, <3>2
        DEF BootstrapActive, IsIdle, Is, RequestLetIn, LetIn, Sound
      <3>4. MembersAreLetIn'
        <4>1. LetIn(req[r].user, req[r].net) /\ req[r].user \in Users
          BY <2>22, <2>1 DEF BootstrapActive, RequestLetIn, Sound
        <4>2. \A v \in Users : active'[v] = IF v = req[r].user THEN req[r].net ELSE active[v]
          BY <2>22 DEF BootstrapActive, TypeOK
        <4>3. UNCHANGED <<owner, admitted, member>>
          BY <2>22 DEF BootstrapActive, aux
        <4>4. QED
          BY <4>1, <4>2, <4>3 DEF MembersAreLetIn, LetIn, IsMember
      <3>5. QED
        BY <3>1, <3>2, <3>3, <3>4, KeepLetIn
    <2>23. CASE UNCHANGED vars
      BY <2>23
      DEF vars, tables, aux, MembersAreLetIn, RequestsLetIn, RequestLetIn, LetIn, IsMember
    <2>24. QED
      BY <2>2, <2>3, <2>4, <2>5, <2>6, <2>7, <2>8, <2>9, <2>10, <2>11,
         <2>12, <2>13, <2>14, <2>15, <2>16, <2>17, <2>18, <2>19, <2>20, <2>21, <2>22, <2>23 DEF Next
  <1>3. QED
    BY <1>1, <1>2, TypeCorrect, PTL DEF Spec

\* The devices of a user whose requests do not overlap are where the user is.
THEOREM DevicesFollow == Spec => []DevicesFollowUser
  <1>1. Init => TidyUsers
    <2> SUFFICES ASSUME Init, NEW u \in Users PROVE Tidy(u)
      BY DEF TidyUsers
    <2>1. \A r \in Requests : ~BusyFor(req[r], u)
      BY IdleFields DEF Init, BusyFor, IsIdle, Is
    <2>2. \A g \in Networks, d \in Devices : ~IsMember(g, d) /\ <<g, d>> \notin attached
      BY DEF Init, IsMember
    <2>3. \A g, h \in Owned(u) : g = h
      BY FirstOwnerAssumption, NilAssumption DEF Init, Owned
    <2>4. QED
      BY <2>1, <2>2, <2>3 DEF Tidy, Follows
  <1>2. TypeOK /\ RequestsSound /\ TidyUsers /\ [Next]_vars => TidyUsers'
    <2> SUFFICES ASSUME TypeOK, RequestsSound, TidyUsers, [Next]_vars, NEW w \in Users,
                        w \notin untidy'
                 PROVE  Tidy(w)'
      BY DEF TidyUsers
    <2>1. \A r \in Requests : req[r] \in Request
      BY DEF TypeOK
    <2>2. ASSUME NEW r \in Requests, NEW d \in Devices, NEW g \in Networks,
                 NEW attach \in BOOLEAN,
                 Join(r, d, g, attach)
          PROVE  Tidy(w)'
      <3>1. PICK n \in Request : LeavesWith(n, d, g, attach) /\ Becomes(r, n)
        BY <2>2, JoinEffect
      <3>2. /\ Tidy(w) /\ UserOf[d] \in Users
            /\ w = UserOf[d] => \A q \in Requests \ {r} : ~BusyFor(req[q], w)
        BY <2>2, UserOfAssumption, BeginAlone DEF Join
      <3>3. ASSUME w = UserOf[d]
            PROVE  Progress(n)
        BY <2>2, <3>1, <3>2, <3>3
        DEF LeavesWith, Is, IsMember, DevicesOf, RequestsSound, Progress
      <3>4. n.stage = "idle" \/ n.user = UserOf[d]
        BY <3>1 DEF LeavesWith, Is
      <3>5. UNCHANGED <<owner, active, member, attached>>
        BY <2>2 DEF Join, tables
      <3>6. QED
        BY <3>1, <3>2, <3>3, <3>4, <3>5, QuietStep
    <2>3. ASSUME NEW r \in Requests, NEW d \in Devices, NEW g \in Networks,
                 JoinByOwnerEmail(r, d, g)
          PROVE  Tidy(w)'
      <3>1. PICK n \in Request : LeavesWith(n, d, g, FALSE) /\ Becomes(r, n)
        BY <2>3, JoinByOwnerEmailEffect
      <3>2. /\ Tidy(w) /\ UserOf[d] \in Users
            /\ w = UserOf[d] => \A q \in Requests \ {r} : ~BusyFor(req[q], w)
        BY <2>3, UserOfAssumption, BeginAlone DEF JoinByOwnerEmail
      <3>3. ASSUME w = UserOf[d]
            PROVE  Progress(n)
        BY <2>3, <3>1, <3>2, <3>3
        DEF LeavesWith, Is, IsMember, DevicesOf, RequestsSound, Progress
      <3>4. n.stage = "idle" \/ n.user = UserOf[d]
        BY <3>1 DEF LeavesWith, Is
      <3>5. UNCHANGED <<owner, active, member, attached>>
        BY <2>3 DEF JoinByOwnerEmail, tables
      <3>6. QED
        BY <3>1, <3>2, <3>3, <3>4, <3>5, QuietStep
    <2>4. ASSUME NEW r \in Requests, NEW d \in Devices, NEW g \in Networks,
                 JoinByKey(r, d, g)
          PROVE  Tidy(w)'
      <3>1. PICK n \in Request : /\ Is(n, "key", UserOf[d], d, g, {}, Nil, FALSE, FALSE)
                                 /\ Becomes(r, n)
        BY <2>4, JoinByKeyEffect
      <3>2. /\ Tidy(w) /\ UserOf[d] \in Users
            /\ w = UserOf[d] => \A q \in Requests \ {r} : ~BusyFor(req[q], w)
        BY <2>4, UserOfAssumption, BeginAlone DEF JoinByKey
      <3>3. ASSUME w = UserOf[d]
            PROVE  Progress(n)
        BY <2>4, <3>1, <3>2, <3>3 DEF Is, Progress
      <3>4. n.stage = "idle" \/ n.user = UserOf[d]
        BY <3>1 DEF Is
      <3>5. UNCHANGED <<owner, active, member, attached>>
        BY <2>4 DEF JoinByKey, tables
      <3>6. QED
        BY <3>1, <3>2, <3>3, <3>4, <3>5, QuietStep
    <2>5. ASSUME NEW r \in Requests, NEW d \in Devices, NEW g \in Networks,
                 AttachDevice(r, d, g)
          PROVE  Tidy(w)'
      <3>1. PICK n \in Request : /\ Is(n, "attach", UserOf[d], d, g, {}, Nil, FALSE, FALSE)
                                 /\ Becomes(r, n)
        BY <2>5, AttachDeviceEffect
      <3>2. /\ Tidy(w) /\ UserOf[d] \in Users
            /\ w = UserOf[d] => \A q \in Requests \ {r} : ~BusyFor(req[q], w)
        BY <2>5, UserOfAssumption, BeginAlone DEF AttachDevice
      <3>3. ASSUME w = UserOf[d]
            PROVE  Progress(n)
        BY <2>5, <3>1, <3>2, <3>3 DEF Is, AttachDevice, Tidy, Follows, Progress
      <3>4. n.stage = "idle" \/ n.user = UserOf[d]
        BY <3>1 DEF Is
      <3>5. UNCHANGED <<owner, active, member, attached>>
        BY <2>5 DEF AttachDevice, tables
      <3>6. QED
        BY <3>1, <3>2, <3>3, <3>4, <3>5, QuietStep
    <2>6. ASSUME NEW r \in Requests, NEW d \in Devices, LeaveSubnets(r, d)
          PROVE  Tidy(w)'
      <3>1. PICK n \in Request : Same(n, "members", r) /\ Becomes(r, n)
        BY <2>6, LeaveSubnetsEffect
      <3>2. /\ Tidy(w) /\ req[r].user \in Users /\ Sound(req[r])
            /\ w = req[r].user => /\ Progress(req[r])
                                  /\ \A q \in Requests \ {r} : ~BusyFor(req[q], w)
        BY <2>6, RunsAlone DEF LeaveSubnets, aux
      <3>3. ASSUME w # req[r].user
            PROVE  SameFor(w)
        BY <2>6 DEF LeaveSubnets, SameFor, Owned, IsMember
      <3>4. ASSUME w = req[r].user
            PROVE  Follows(w)' /\ (BusyFor(n, w) => Progress(n)')
        <4>1. Follows(w)'
          <5>1. SameFor(w)
            BY <2>6 DEF LeaveSubnets, SameFor, Owned, IsMember
          <5>2. QED
            BY <3>2, <5>1, SameFollows DEF Tidy
        <4>2. Progress(n)'
          <5>1. \A e \in req[r].todo : (\A x \in req[r].todo : e <= x) => e = d
            <6>1. req[r].todo \subseteq Nat
              BY DevicesAssumption, RequestFields
            <6>2. QED
              BY <2>6, <6>1 DEF LeaveSubnets
          <5>2. \A h \in Networks : <<h, d>> \in attached' => h = req[r].net
            BY <2>6 DEF LeaveSubnets
          <5>3. QED
            BY <2>6, <3>1, <3>2, <3>4, <5>1, <5>2 DEF LeaveSubnets, Same, Is, Progress, IsMember
        <4>3. QED BY <4>1, <4>2
      <3>5. n.stage = "idle" \/ n.user = req[r].user
        BY <3>1 DEF Same, Is
      <3>6. Becomes(r, n)
        BY <3>1
      <3>7. QED
        BY <3>2, <3>3, <3>4, <3>5, <3>6, TidyStep
    <2>7. ASSUME NEW r \in Requests, NEW d \in Devices, LeaveNetworks(r, d)
          PROVE  Tidy(w)'
      <3>1. PICK n \in Request : HasLeft(n, r, d) /\ Becomes(r, n)
        BY <2>7, LeaveNetworksEffect
      <3>2. /\ Tidy(w) /\ req[r].user \in Users /\ Sound(req[r])
            /\ w = req[r].user => /\ Progress(req[r])
                                  /\ \A q \in Requests \ {r} : ~BusyFor(req[q], w)
        BY <2>7, RunsAlone DEF LeaveNetworks, aux
      <3>3. ASSUME w # req[r].user
            PROVE  SameFor(w)
        BY <2>7, <3>2, <3>3, NilAssumption
        DEF LeaveNetworks, SameFor, Owned, IsMember, Sound, DevicesOf, TypeOK
      <3>4. ASSUME w = req[r].user
            PROVE  Follows(w)' /\ (BusyFor(n, w) => Progress(n)')
        <4>1. /\ \A h \in Networks, e \in Devices :
                   member'[h][e] = IF h # req[r].net /\ e = d THEN Nil ELSE member[h][e]
              /\ UNCHANGED <<owner, active, attached>>
          BY <2>7 DEF LeaveNetworks, TypeOK
        <4>2. \A h \in Networks : <<h, d>> \in attached => h = req[r].net
          BY <2>7, <3>2, <3>4 DEF LeaveNetworks, Progress
        <4>3. Follows(w)'
          BY <3>2, <4>1, <4>2 DEF Tidy, Follows, IsMember, HomeOf, Owned
        <4>4. Progress(n)'
          BY <2>7, <3>1, <3>2, <3>4, <4>1 DEF LeaveNetworks, HasLeft, Is, Progress, IsMember
        <4>5. QED BY <4>3, <4>4
      <3>5. n.stage = "idle" \/ n.user = req[r].user
        BY <3>1 DEF HasLeft, Is
      <3>6. Becomes(r, n)
        BY <3>1
      <3>7. QED
        BY <3>2, <3>3, <3>4, <3>5, <3>6, TidyStep
    <2>8. ASSUME NEW r \in Requests, NEW d \in Devices, RegisterDevice(r, d)
          PROVE  Tidy(w)'
      <3>1. PICK n \in Request : Provisioning(n, d) /\ Becomes(r, n)
        BY <2>8, RegisterDeviceEffect
      <3>2. /\ Tidy(w) /\ UserOf[d] \in Users
            /\ w = UserOf[d] => \A q \in Requests \ {r} : ~BusyFor(req[q], w)
        BY <2>8, UserOfAssumption, BeginAlone DEF RegisterDevice
      <3>3. ASSUME w = UserOf[d]
            PROVE  Progress(n)
        BY <2>8, <3>1, <3>2, <3>3 DEF Provisioning, Is, HomeOf, Progress
      <3>4. n.stage = "idle" \/ n.user = UserOf[d]
        BY <3>1 DEF Provisioning, Is
      <3>5. UNCHANGED <<owner, active, member, attached>>
        BY <2>8 DEF RegisterDevice
      <3>6. QED
        BY <3>1, <3>2, <3>3, <3>4, <3>5, QuietStep
    <2>9. ASSUME NEW r \in Requests, ConsumeKey(r)
          PROVE  Tidy(w)'
      <3>1. PICK n \in Request : LeavesWith(n, req[r].dev, req[r].net, FALSE) /\ Becomes(r, n)
        BY <2>9, ConsumeKeyEffect
      <3>2. /\ Tidy(w) /\ req[r].user \in Users /\ Sound(req[r])
            /\ w = req[r].user => /\ Progress(req[r])
                                  /\ \A q \in Requests \ {r} : ~BusyFor(req[q], w)
        BY <2>9, RunsAlone DEF ConsumeKey
      <3>3. ASSUME w = req[r].user
            PROVE  Progress(n)
        BY <2>9, <2>1, <3>1, <3>2, <3>3
        DEF LeavesWith, Is, ConsumeKey, IsMember, DevicesOf, RequestsSound, Sound, Progress
      <3>4. n.stage = "idle" \/ n.user = req[r].user
        BY <2>9, <3>2, <3>1 DEF LeavesWith, Is, ConsumeKey, Sound, DevicesOf
      <3>5. UNCHANGED <<owner, active, member, attached>>
        BY <2>9 DEF ConsumeKey
      <3>6. QED
        BY <3>1, <3>2, <3>3, <3>4, <3>5, QuietStep
    <2>10. ASSUME NEW r \in Requests, SetActive(r)
          PROVE  Tidy(w)'
      <3>1. PICK n \in Request : Same(n, "role", r) /\ Becomes(r, n)
        BY <2>10, SetActiveEffect
      <3>2. /\ Tidy(w) /\ req[r].user \in Users /\ Sound(req[r])
            /\ w = req[r].user => /\ Progress(req[r])
                                  /\ \A q \in Requests \ {r} : ~BusyFor(req[q], w)
        BY <2>10, RunsAlone DEF SetActive, aux
      <3>3. ASSUME w # req[r].user
            PROVE  SameFor(w)
        BY <2>10, <3>3 DEF SetActive, SameFor, Owned, IsMember, TypeOK
      <3>4. ASSUME w = req[r].user
            PROVE  Follows(w)' /\ (BusyFor(n, w) => Progress(n)')
        <4>1. /\ active'[w] = req[r].net /\ req[r].net \in Networks
              /\ UNCHANGED <<owner, member, attached>>
          BY <2>10, <3>2, <3>4 DEF SetActive, Sound, TypeOK
        <4>2. HomeOf(w)' = {req[r].net}
          BY <4>1, NilAssumption DEF HomeOf
        <4>3. \A d \in Devices, h \in Networks :
                 UserOf[d] = w /\ IsMember(h, d) => h = req[r].net
          BY <2>10, <3>2, <3>4 DEF SetActive, Progress
        <4>4. Follows(w)'
          BY <3>2, <4>1, <4>2, <4>3 DEF Tidy, Follows, IsMember, Owned
        <4>5. Progress(n)'
          BY <3>1, <3>4, <4>2 DEF Same, Is, Progress
        <4>6. QED BY <4>4, <4>5
      <3>5. n.stage = "idle" \/ n.user = req[r].user
        BY <3>1 DEF Same, Is
      <3>6. Becomes(r, n)
        BY <3>1
      <3>7. QED
        BY <3>2, <3>3, <3>4, <3>5, <3>6, TidyStep
    <2>11. ASSUME NEW r \in Requests, MembershipRole(r)
          PROVE  Tidy(w)'
      <3>1. PICK n \in Request : GetsRole(n, r) /\ Becomes(r, n)
        BY <2>11, MembershipRoleEffect
      <3>2. /\ Tidy(w) /\ req[r].user \in Users /\ Sound(req[r])
            /\ w = req[r].user => /\ Progress(req[r])
                                  /\ \A q \in Requests \ {r} : ~BusyFor(req[q], w)
        BY <2>11, RunsAlone DEF MembershipRole, aux
      <3>3. ASSUME w = req[r].user
            PROVE  Progress(n)
        BY <2>11, <2>1, <3>1, <3>2, <3>3 DEF GetsRole, Is, MembershipRole, Progress
      <3>4. n.stage = "idle" \/ n.user = req[r].user
        BY <3>1 DEF GetsRole, Is
      <3>5. UNCHANGED <<owner, active, member, attached>>
        BY <2>11 DEF MembershipRole, tables
      <3>6. QED
        BY <3>1, <3>2, <3>3, <3>4, <3>5, QuietStep
    <2>12. ASSUME NEW r \in Requests, FindMember(r)
          PROVE  Tidy(w)'
      <3>1. PICK n \in Request : FindsMember(n, r) /\ Becomes(r, n)
        BY <2>12, FindMemberEffect
      <3>2. /\ Tidy(w) /\ req[r].user \in Users /\ Sound(req[r])
            /\ w = req[r].user => /\ Progress(req[r])
                                  /\ \A q \in Requests \ {r} : ~BusyFor(req[q], w)
        BY <2>12, RunsAlone DEF FindMember, aux
      <3>3. ASSUME w = req[r].user
            PROVE  Progress(n) \/ n.stage = "idle"
        BY <2>12, <2>1, <3>1, <3>2, <3>3 DEF FindsMember, Same, IsIdle, Is, FindMember, Progress
      <3>4. n.stage = "idle" \/ n.user = req[r].user
        BY <3>1 DEF FindsMember, Same, IsIdle, Is
      <3>5. UNCHANGED <<owner, active, member, attached>>
        BY <2>12 DEF FindMember, tables
      <3>6. QED
        BY <3>1, <3>2, <3>3, <3>4, <3>5, QuietStep DEF BusyFor
    <2>13. ASSUME NEW r \in Requests, CreateMember(r)
          PROVE  Tidy(w)'
      <3>1. PICK n \in Request : HasMember(n, r) /\ Becomes(r, n)
        BY <2>13, CreateMemberEffect
      <3>2. /\ Tidy(w) /\ req[r].user \in Users /\ Sound(req[r])
            /\ w = req[r].user => /\ Progress(req[r])
                                  /\ \A q \in Requests \ {r} : ~BusyFor(req[q], w)
        BY <2>13, RunsAlone DEF CreateMember, aux
      <3>3. ASSUME w # req[r].user
            PROVE  SameFor(w)
        <4>1. req[r].net \in Networks /\ req[r].dev \in Devices /\ UserOf[req[r].dev] # w
          BY <2>13, <3>2, <3>3, RequestFields DEF CreateMember, Sound, DevicesOf
        <4>2. \A h \in Networks, e \in Devices : e # req[r].dev => member'[h][e] = member[h][e]
          <5>1. CASE IsMember(req[r].net, req[r].dev)
            BY <2>13, <5>1 DEF CreateMember
          <5>2. CASE ~IsMember(req[r].net, req[r].dev)
            BY <2>13, <4>1, <5>2 DEF CreateMember, TypeOK
          <5>3. QED BY <5>1, <5>2
        <4>3. QED
          BY <2>13, <4>1, <4>2 DEF CreateMember, SameFor, Owned, IsMember
      <3>4. ASSUME w = req[r].user
            PROVE  Follows(w)' /\ (BusyFor(n, w) => Progress(n)')
        <4>1. /\ req[r].net \in HomeOf(w) /\ req[r].net \in Networks /\ req[r].role # Nil
              /\ req[r].dev \in Devices /\ UserOf[req[r].dev] = w
          BY <2>13, <3>2, <3>4, RequestFields, NilAssumption
          DEF CreateMember, Progress, Sound, DevicesOf
        <4>2. UNCHANGED <<owner, active, attached>> /\ HomeOf(w)' = HomeOf(w)
          BY <2>13 DEF CreateMember, HomeOf, Owned
        <4>3. \A h \in Networks, e \in Devices : member'[h][e] =
                 IF h = req[r].net /\ e = req[r].dev /\ ~IsMember(h, e) THEN req[r].role
                 ELSE member[h][e]
          <5>1. CASE IsMember(req[r].net, req[r].dev)
            BY <2>13, <5>1 DEF CreateMember
          <5>2. CASE ~IsMember(req[r].net, req[r].dev)
            BY <2>13, <4>1, <5>2 DEF CreateMember, TypeOK
          <5>3. QED BY <5>1, <5>2
        <4>4. Follows(w)'
          BY <3>2, <4>1, <4>2, <4>3 DEF Tidy, Follows, IsMember, Owned
        <4>5. BusyFor(n, w) => Progress(n)'
          BY <3>1, <3>4, <4>1, <4>2, <4>3
          DEF HasMember, Same, IsIdle, Is, Progress, BusyFor, IsMember
        <4>6. QED BY <4>4, <4>5
      <3>5. n.stage = "idle" \/ n.user = req[r].user
        BY <3>1 DEF HasMember, Same, IsIdle, Is
      <3>6. Becomes(r, n)
        BY <3>1
      <3>7. QED
        BY <3>2, <3>3, <3>4, <3>5, <3>6, TidyStep
    <2>14. ASSUME NEW r \in Requests, Attach(r)
          PROVE  Tidy(w)'
      <3>1. PICK n \in Request : IsIdle(n) /\ Becomes(r, n)
        BY <2>14, AttachEffect
      <3>2. /\ Tidy(w) /\ req[r].user \in Users /\ Sound(req[r])
            /\ w = req[r].user => /\ Progress(req[r])
                                  /\ \A q \in Requests \ {r} : ~BusyFor(req[q], w)
        BY <2>14, RunsAlone DEF Attach, aux
      <3>3. ASSUME w # req[r].user
            PROVE  SameFor(w)
        BY <2>14, <3>2, <3>3 DEF Attach, SameFor, Owned, IsMember, Sound, DevicesOf
      <3>4. ASSUME w = req[r].user
            PROVE  Follows(w)' /\ (BusyFor(n, w) => Progress(n)')
        <4>1. IsMember(req[r].net, req[r].dev)
          BY <2>14, <3>2, <3>4 DEF Attach, Progress
        <4>2. Follows(w)'
          BY <2>14, <3>2, <4>1 DEF Attach, Tidy, Follows, IsMember, HomeOf, Owned
        <4>3. ~BusyFor(n, w)
          BY <3>1 DEF IsIdle, Is, BusyFor
        <4>4. QED BY <4>2, <4>3
      <3>5. n.stage = "idle" \/ n.user = req[r].user
        BY <3>1 DEF IsIdle, Is
      <3>6. Becomes(r, n)
        BY <3>1
      <3>7. QED
        BY <3>2, <3>3, <3>4, <3>5, <3>6, TidyStep
    <2>15. ASSUME NEW r \in Requests, ActivateFirst(r)
          PROVE  Tidy(w)'
      <3>1. PICK n \in Request : HasNetwork(n, r, req[r].net) /\ Becomes(r, n)
        BY <2>15, ActivateFirstEffect
      <3>2. /\ Tidy(w) /\ req[r].user \in Users /\ Sound(req[r])
            /\ w = req[r].user => /\ Progress(req[r])
                                  /\ \A q \in Requests \ {r} : ~BusyFor(req[q], w)
        BY <2>15, RunsAlone DEF ActivateFirst, aux
      <3>3. ASSUME w # req[r].user
            PROVE  SameFor(w)
        BY <2>15, <3>3 DEF ActivateFirst, SameFor, Owned, IsMember, TypeOK
      <3>4. ASSUME w = req[r].user
            PROVE  Follows(w)' /\ (BusyFor(n, w) => Progress(n)')
        <4>1. /\ active'[w] = req[r].net /\ req[r].net \in Networks
              /\ UNCHANGED <<owner, member, attached>>
          BY <2>15, <3>2, <3>4 DEF ActivateFirst, Sound, TypeOK
        <4>2. HomeOf(w)' = {req[r].net}
          BY <4>1, NilAssumption DEF HomeOf
        <4>3. HomeOf(w) = {req[r].net}
          BY <2>15, <3>2, <3>4 DEF ActivateFirst, Progress, HomeOf, Tidy, Follows
        <4>4. Follows(w)'
          BY <3>2, <4>1, <4>2, <4>3 DEF Tidy, Follows, IsMember, Owned
        <4>5. BusyFor(n, w) => Progress(n)'
          BY <3>1, <3>4, <4>2 DEF HasNetwork, IsIdle, Is, Progress, BusyFor
        <4>6. QED BY <4>4, <4>5
      <3>5. n.stage = "idle" \/ n.user = req[r].user
        BY <3>1 DEF HasNetwork, IsIdle, Is
      <3>6. Becomes(r, n)
        BY <3>1
      <3>7. QED
        BY <3>2, <3>3, <3>4, <3>5, <3>6, TidyStep
    <2>16. ASSUME NEW r \in Requests, Fails(r)
          PROVE  Tidy(w)'
      <3>1. PICK n \in Request : IsIdle(n) /\ Becomes(r, n)
        BY <2>16, FailsEffect
      <3>2. /\ Tidy(w) /\ req[r].user \in Users /\ Sound(req[r])
            /\ w = req[r].user => /\ Progress(req[r])
                                  /\ \A q \in Requests \ {r} : ~BusyFor(req[q], w)
        BY <2>16, RunsAlone DEF Fails
      <3>3. QED
        BY <2>16, <3>1, <3>2, QuietStep DEF Fails, tables, IsIdle, Is, BusyFor
    <2>17. ASSUME NEW r \in Requests, NEW g \in Networks, CreateNetwork(r, g)
          PROVE  Tidy(w)'
      <3>1. PICK n \in Request : GetsNetwork(n, r, g) /\ Becomes(r, n)
        BY <2>17, CreateNetworkEffect
      <3>2. /\ Tidy(w) /\ req[r].user \in Users /\ Sound(req[r])
            /\ w = req[r].user => /\ Progress(req[r])
                                  /\ \A q \in Requests \ {r} : ~BusyFor(req[q], w)
        BY <2>17, RunsAlone DEF CreateNetwork
      <3>3. ASSUME w # req[r].user
            PROVE  SameFor(w)
        BY <2>17, <3>3, NilAssumption DEF CreateNetwork, SameFor, Owned, IsMember, TypeOK
      <3>4. ASSUME w = req[r].user
            PROVE  Follows(w)' /\ (BusyFor(n, w) => Progress(n)')
        <4>1. /\ Owned(w) = {} /\ (req[r].first <=> active[w] = Nil)
              /\ UNCHANGED <<active, member, attached>>
          BY <2>17, <3>2, <3>4 DEF CreateNetwork, Progress
        <4>2. Owned(w)' = {g}
          BY <2>17, <3>4, <4>1, NilAssumption DEF CreateNetwork, Owned, TypeOK
        <4>3. req[r].first \/ req[r].dev = Nil
          BY <2>17, <3>4 DEF CreateNetwork, BindsBeside
        <4>4. Follows(w)'
          BY <3>2, <4>1, <4>2 DEF Tidy, Follows, IsMember, HomeOf
        <4>5. BusyFor(n, w) => Progress(n)'
          BY <3>1, <3>4, <4>1, <4>2, <4>3
          DEF GetsNetwork, HasNetwork, IsIdle, Is, Progress, BusyFor
        <4>6. QED BY <4>4, <4>5
      <3>5. n.stage = "idle" \/ n.user = req[r].user
        BY <3>1 DEF GetsNetwork, HasNetwork, IsIdle, Is
      <3>6. Becomes(r, n)
        BY <3>1
      <3>7. QED
        BY <3>2, <3>3, <3>4, <3>5, <3>6, TidyStep
    <2>18. ASSUME NEW r \in Requests, NEW u \in Users, NEW d \in Devices \cup {Nil},
                  CheckCreate(r, u, d)
          PROVE  Tidy(w)'
      <3>1. PICK n \in Request : /\ Is(n, "create", u, d, Nil, {}, Nil, FALSE, active[u] = Nil)
                                 /\ Becomes(r, n)
        BY <2>18, CheckCreateEffect
      <3>2. Tidy(w) /\ u \in Users /\ (w = u => \A q \in Requests \ {r} : ~BusyFor(req[q], w))
        BY <2>18, UserOfAssumption, BeginAlone DEF CheckCreate
      <3>3. ASSUME w = u
            PROVE  Progress(n)
        BY <2>18, <3>1, <3>2, <3>3 DEF Is, CheckCreate, Progress
      <3>4. n.stage = "idle" \/ n.user = u
        BY <3>1 DEF Is
      <3>5. UNCHANGED <<owner, active, member, attached>>
        BY <2>18 DEF CheckCreate, tables
      <3>6. QED
        BY <3>1, <3>2, <3>3, <3>4, <3>5, QuietStep
    <2>19. ASSUME NEW g \in Networks, NEW k \in Keys, UpdateJoinKey(g, k)
          PROVE  Tidy(w)'
      <3>1. SameFor(w) /\ UNCHANGED <<req, untidy>>
        BY <2>19 DEF UpdateJoinKey, aux, SameFor, Owned, IsMember
      <3>2. QED
        BY <3>1, SameTidy
    <2>20. ASSUME NEW d \in Devices, NEW g \in Networks, Deactivate(d, g)
          PROVE  Tidy(w)'
      <3>1. SameFor(w) /\ UNCHANGED <<req, untidy>>
        BY <2>20 DEF Deactivate, aux, SameFor, Owned, IsMember
      <3>2. QED
        BY <3>1, SameTidy
    <2>21. ASSUME NEW r \in Requests, NEW d \in Devices, NEW g \in Networks,
                 Bootstrap(r, d, g)
          PROVE  Tidy(w)'
      <3>1. PICK n \in Request : /\ Is(n, "boot", UserOf[d], d, g, {}, Nil, FALSE, FALSE)
                                 /\ Becomes(r, n)
        BY <2>21, BootstrapEffect
      <3>2. /\ Tidy(w) /\ UserOf[d] \in Users
            /\ w = UserOf[d] => \A q \in Requests \ {r} : ~BusyFor(req[q], w)
        BY <2>21, UserOfAssumption, BeginAlone DEF Bootstrap
      <3>3. ASSUME w = UserOf[d]
            PROVE  Progress(n)
        BY <2>21, <3>1, <3>2, <3>3 DEF Is, Bootstrap, Tidy, Follows, Progress
      <3>4. n.stage = "idle" \/ n.user = UserOf[d]
        BY <3>1 DEF Is
      <3>5. UNCHANGED <<owner, active, member, attached>>
        BY <2>21 DEF Bootstrap, tables
      <3>6. QED
        BY <3>1, <3>2, <3>3, <3>4, <3>5, QuietStep
    <2>22. ASSUME NEW r \in Requests, BootstrapActive(r)
          PROVE  Tidy(w)'
      <3>1. PICK n \in Request : IsIdle(n) /\ Becomes(r, n)
        BY <2>22, BootstrapActiveEffect
      <3>2. /\ Tidy(w) /\ req[r].user \in Users /\ Sound(req[r])
            /\ w = req[r].user => /\ Progress(req[r])
                                  /\ \A q \in Requests \ {r} : ~BusyFor(req[q], w)
        BY <2>22, RunsAlone DEF BootstrapActive, aux
      <3>3. ASSUME w # req[r].user
            PROVE  SameFor(w)
        BY <2>22, <3>3 DEF BootstrapActive, SameFor, Owned, IsMember, TypeOK
      <3>4. ASSUME w = req[r].user
            PROVE  Follows(w)' /\ (BusyFor(n, w) => Progress(n)')
        <4>1. /\ active'[w] = req[r].net /\ req[r].net \in Networks
              /\ UNCHANGED <<owner, member, attached>>
          BY <2>22, <3>2, <3>4 DEF BootstrapActive, Sound, TypeOK
        <4>2. HomeOf(w)' = {req[r].net}
          BY <4>1, NilAssumption DEF HomeOf
        <4>3. HomeOf(w) = {req[r].net}
          BY <2>22, <3>2, <3>4 DEF BootstrapActive, Progress, HomeOf, Tidy, Follows
        <4>4. Follows(w)'
          BY <3>2, <4>1, <4>2, <4>3 DEF Tidy, Follows, IsMember, Owned
        <4>5. BusyFor(n, w) => Progress(n)'
          BY <3>1, <3>4, <4>2 DEF IsIdle, Is, Progress, BusyFor
        <4>6. QED BY <4>4, <4>5
      <3>5. n.stage = "idle" \/ n.user = req[r].user
        BY <3>1 DEF IsIdle, Is
      <3>6. Becomes(r, n)
        BY <3>1
      <3>7. QED
        BY <3>2, <3>3, <3>4, <3>5, <3>6, TidyStep
    <2>23. CASE UNCHANGED vars
      <3>1. SameFor(w) /\ UNCHANGED <<req, untidy>>
        BY <2>23 DEF vars, tables, aux, SameFor, Owned, IsMember
      <3>2. QED
        BY <3>1, SameTidy
    <2>24. QED
      BY <2>2, <2>3, <2>4, <2>5, <2>6, <2>7, <2>8, <2>9, <2>10, <2>11,
         <2>12, <2>13, <2>14, <2>15, <2>16, <2>17, <2>18, <2>19, <2>20, <2>21, <2>22, <2>23 DEF Next
  <1>3. TidyUsers => DevicesFollowUser
    BY DEF TidyUsers, Tidy, DevicesFollowUser
  <1>4. QED
    BY <1>1, <1>2, <1>3, TypeCorrect, PTL DEF Spec
=============================================================================
