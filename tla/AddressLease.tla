---------------------------- MODULE AddressLease ----------------------------
(***************************************************************************)
(* server/server-biz: the virtual addresses of one subnet.  Devices are     *)
(* attached with the lowest free address, the network's owner changes       *)
(* single addresses or the whole range, and nothing but the two unique      *)
(* indexes of the table subnet_attachments orders concurrent requests: each *)
(* reads the rows first and writes in a later statement.                    *)
(***************************************************************************)
EXTENDS Naturals, FiniteSets

CONSTANTS Devices,      \* members of the network
          Owners,       \* devices whose member row has the role "owner"
          Ids,          \* attachment ids, as numbers in their sorting order
          Pools,        \* address ranges a subnet can be created with
          DefaultPools, \* those newSubnet gives the default subnet of a network
          Wishes,       \* texts the owner may ask for as an address
          Requests,     \* requests in progress at once
          MaxFailures,  \* bound on requests that stop halfway
          Nil

\* An address is stored and compared as a text: the one the server writes for
\* an address, or another one that means it, with blanks around.
Text == [addr : Nat, padded : BOOLEAN]
Plain(a) == [addr |-> a, padded |-> FALSE]

\* base is the address of the network, start .. end the range to allocate.
Pool == [base : Nat, start : Nat, end : Nat]

ASSUME DevicesAssumption == Owners \subseteq Devices
ASSUME IdsAssumption == Ids \subseteq Nat /\ IsFiniteSet(Ids)
ASSUME PoolsAssumption == Pools \subseteq Pool /\ DefaultPools \subseteq Pools
ASSUME WishesAssumption == Wishes \subseteq Text

VARIABLES att,        \* subnet_attachments: attachment id -> row, or Nil
          issued,     \* attachment ids handed out so far
          pool,       \* the subnet's stored range
          req,        \* request -> what its handler knows
          failures,   \* failures so far
          disturbed   \* history: an address was set by hand, or a change of
                      \* the range stopped halfway or overlapped an attachment

vars == <<att, issued, pool, req, failures, disturbed>>

Row == [dev : Devices, ip : Text]
ASSUME NilAssumption == Nil \notin Row \cup Nat

\* plan: the addresses a change of the range has still to write, or Nil.
Request == [stage : {"idle"}]
             \cup [stage : {"subnet"}, dev : Devices, pool : Pools]
             \cup [stage : {"owner"}, dev : Devices, ip : Nat, pool : Pools]
             \cup [stage : {"create"}, dev : Devices, ip : Nat]
             \cup [stage : {"set"}, id : Ids, ip : Text]
             \cup [stage : {"moving"}, plan : [Ids -> Nat \cup {Nil}], pool : DefaultPools]

Idle == [stage |-> "idle"]
Rows == {i \in Ids : att[i] # Nil}
Taken(a) == \E i \in Rows : att[i].ip = Plain(a)
Addresses(p) == p.start .. p.end
Attaching == {"subnet", "owner", "create"}
Moving == \E r \in Requests : req[r].stage = "moving"

\* The unique indexes idx_subnet_device and idx_subnet_ip refuse row i: they
\* compare texts, so that two rows may mean the same address.
Conflicts(i, d, ip) == \E j \in Rows \ {i} : att[j].dev = d \/ att[j].ip = ip
-----------------------------------------------------------------------------
Init ==
    /\ att = [i \in Ids |-> Nil]
    /\ issued = {}
    /\ pool \in Pools
    /\ req = [r \in Requests |-> Idle]
    /\ failures = 0
    /\ disturbed = FALSE

\* ensureAttachment, the lookup: a device that has a row keeps it; otherwise
\* the subnet is read.  (Only as many attachments are begun as there are ids.)
LookUp(r, d) ==
    /\ req[r].stage = "idle"
    /\ Cardinality(issued) + Cardinality({q \in Requests : req[q].stage \in Attaching})
         < Cardinality(Ids)
    /\ \A i \in Rows : att[i].dev # d
    /\ req' = [req EXCEPT ![r] = [stage |-> "subnet", dev |-> d, pool |-> pool]]
    /\ disturbed' = (disturbed \/ Moving)
    /\ UNCHANGED <<att, issued, pool, failures>>

\* The addresses the loop of allocateIP tries.
Candidates(p) == Addresses(p)

\* allocateIP: the lowest free address; a full range ends the request.  Only
\* an owner's device asks further.
Allocate(r) ==
    /\ req[r].stage = "subnet"
    /\ LET p == req[r].pool
           d == req[r].dev
           free == {ip \in Candidates(p) : ~Taken(ip)} IN
         \/ free = {} /\ req' = [req EXCEPT ![r] = Idle]
         \/ \E ip \in free :
              /\ \A a \in free : ip <= a
              /\ req' = [req EXCEPT ![r] =
                   IF d \in Owners THEN [stage |-> "owner", dev |-> d, ip |-> ip, pool |-> p]
                   ELSE [stage |-> "create", dev |-> d, ip |-> ip]]
    /\ UNCHANGED <<att, issued, pool, failures, disturbed>>

\* preferredOwnerIP: base + 2 if it is in the range and free.
Preferred(p) == p.base + 2
IsPreferredFree(p) == Preferred(p) \in Addresses(p) /\ ~Taken(Preferred(p))

\* The owner's device gets the preferred address, from a second reading.
Prefer(r) ==
    /\ req[r].stage = "owner"
    /\ LET p == req[r].pool IN
         req' = [req EXCEPT ![r] =
           [stage |-> "create", dev |-> req[r].dev,
            ip |-> IF IsPreferredFree(p) THEN Preferred(p) ELSE req[r].ip]]
    /\ UNCHANGED <<att, issued, pool, failures, disturbed>>

\* CreateAttachment, under a new random id.
Create(r, i) ==
    /\ req[r].stage = "create"
    /\ i \in Ids \ issued
    /\ att' = IF Conflicts(i, req[r].dev, Plain(req[r].ip)) THEN att
              ELSE [att EXCEPT ![i] = [dev |-> req[r].dev, ip |-> Plain(req[r].ip)]]
    /\ issued' = issued \cup {i}
    /\ req' = [req EXCEPT ![r] = Idle]
    /\ UNCHANGED <<pool, failures, disturbed>>

\* Mutant: only the address is cleared.
DeactivateClears(d) ==
    /\ \E i \in Rows : att[i].dev = d
    /\ att' = [i \in Ids |-> IF i \in Rows /\ att[i].dev = d
                             THEN [att[i] EXCEPT !.ip = Nil] ELSE att[i]]
    /\ UNCHANGED <<issued, pool, req, failures, disturbed>>
\* Deactivate, or the device joins another network: its row is deleted.
Deactivate(d) ==
    /\ \E i \in Rows : att[i].dev = d
    /\ att' = [i \in Ids |-> IF i \in Rows /\ att[i].dev = d THEN Nil ELSE att[i]]
    /\ UNCHANGED <<issued, pool, req, failures, disturbed>>

\* The only address UpdateAttachmentIP accepts for an owner's device.
OwnerAddress == IF IsPreferredFree(pool) THEN Preferred(pool) ELSE pool.start

\* UpdateAttachmentIP up to Reserve, its readings as one step: nobody else has
\* the same text.  Only the comparison for an owner's device trims it.
CheckIP(r, i, ip) ==
    /\ req[r].stage = "idle"
    /\ i \in Rows
    /\ att[i].dev \in Owners => ip.addr = OwnerAddress
    /\ \A j \in Rows \ {i} : att[j].ip # ip
    /\ req' = [req EXCEPT ![r] = [stage |-> "set", id |-> i, ip |-> ip]]
    /\ UNCHANGED <<att, issued, pool, failures, disturbed>>

\* UpdateAttachmentVirtualIP, by attachment id: no row, no error.
WriteIP(i, ip) ==
    att' = IF i \in Rows /\ ~Conflicts(i, att[i].dev, ip)
           THEN [att EXCEPT ![i] = [dev |-> att[i].dev, ip |-> ip]] ELSE att

SetIP(r) ==
    /\ req[r].stage = "set"
    /\ WriteIP(req[r].id, req[r].ip)
    /\ req' = [req EXCEPT ![r] = Idle]
    /\ disturbed' = TRUE
    /\ UNCHANGED <<issued, pool, failures>>

\* Mutant: the order of the rows does not go on to their ids.
BeforeByRole(i, j) == att[i].dev \in Owners /\ att[j].dev \notin Owners
\* Rows are sorted by owners first, then by id.
Before(i, j) ==
    LET o(k) == att[k].dev \in Owners IN
    (o(i) /\ ~o(j)) \/ (o(i) = o(j) /\ i < j)

\* Mutant: the addresses are counted from that of the network.
PlanFromBase(p) == [j \in Ids |->
    IF j \in Rows THEN p.base + Cardinality({i \in Rows : Before(i, j)}) ELSE Nil]
\* Row number k of the sorted rows gets the address start + k.
Plan(p) == [j \in Ids |->
    IF j \in Rows THEN p.start + Cardinality({i \in Rows : Before(i, j)}) ELSE Nil]
Planned(r) == {j \in Ids : req[r].plan[j] # Nil}

\* Update and reassignDefaultSubnetLeasePool: the rows of the default subnet
\* are read and must fit.
ReadLeases(r, p) ==
    /\ req[r].stage = "idle"
    /\ pool \in DefaultPools
    /\ p.start + Cardinality(Rows) <= p.end + 1
    /\ req' = [req EXCEPT ![r] = [stage |-> "moving", plan |-> Plan(p), pool |-> p]]
    /\ disturbed' = (disturbed \/ \E q \in Requests : req[q].stage # "idle")
    /\ UNCHANGED <<att, issued, pool, failures>>

\* The rows are updated one by one, in the order of their new addresses; an
\* update the index refuses ends the request.
MoveLease(r, i) ==
    /\ req[r].stage = "moving"
    /\ LET plan == req[r].plan IN
         /\ i \in Planned(r)
         /\ \A j \in Planned(r) : plan[i] <= plan[j]
         /\ WriteIP(i, Plain(plan[i]))
         /\ IF i \in Rows /\ Conflicts(i, att[i].dev, Plain(plan[i]))
            THEN /\ req' = [req EXCEPT ![r] = Idle]
                 /\ disturbed' = TRUE
            ELSE /\ req' = [req EXCEPT ![r] =
                      [stage |-> "moving", plan |-> [plan EXCEPT ![i] = Nil], pool |-> req[r].pool]]
                 /\ UNCHANGED disturbed
    /\ UNCHANGED <<issued, pool, failures>>

\* UpdateSubnetRange, the last statement.
StoreRange(r) ==
    /\ req[r].stage = "moving" /\ Planned(r) = {}
    /\ pool' = req[r].pool
    /\ req' = [req EXCEPT ![r] = Idle]
    /\ UNCHANGED <<att, issued, failures, disturbed>>

\* The process or the database fails between two statements of a request.
Fails(r) ==
    /\ req[r].stage # "idle"
    /\ failures < MaxFailures
    /\ failures' = failures + 1
    /\ req' = [req EXCEPT ![r] = Idle]
    /\ disturbed' = (disturbed \/ req[r].stage = "moving")
    /\ UNCHANGED <<att, issued, pool>>

Next ==
    \/ \E r \in Requests : \/ \E d \in Devices : LookUp(r, d)
                           \/ \E i \in Ids : Create(r, i) \/ MoveLease(r, i)
                           \/ \E i \in Ids, ip \in Wishes : CheckIP(r, i, ip)
                           \/ \E p \in DefaultPools : ReadLeases(r, p)
                           \/ Allocate(r) \/ Prefer(r) \/ SetIP(r) \/ StoreRange(r) \/ Fails(r)
    \/ \E d \in Devices : Deactivate(d)

Spec == Init /\ [][Next]_vars
-----------------------------------------------------------------------------
TypeOK ==
    /\ att \in [Ids -> Row \cup {Nil}]
    /\ issued \subseteq Ids
    /\ pool \in Pools
    /\ req \in [Requests -> Request]
    /\ failures \in Nat
    /\ disturbed \in BOOLEAN

\* reassignDefaultSubnetLeasePool writes row after row under the unique index:
\* a change to a range apart from the present one, undisturbed, is never
\* refused halfway, that is, each row's new address is free when its turn comes.
MovesAreAccepted ==
    \A r \in Requests :
      /\ ~disturbed /\ req[r].stage = "moving"
      /\ Addresses(req[r].pool) \cap Addresses(pool) = {}
      => \A i \in Rows \cap Planned(r) :
           (\A j \in Planned(r) : req[r].plan[i] <= req[r].plan[j])
             => ~Conflicts(i, att[i].dev, Plain(req[r].plan[i]))

\* Attaching and changing the range keep every address in the subnet's range,
\* however rows come and go, unless an address was set by hand or a change of
\* the range overlapped another request or stopped halfway.
LeasesInRange ==
    ~disturbed /\ ~Moving => \A i \in Rows : att[i].ip.addr \in Addresses(pool)
=============================================================================
