------------------------- MODULE AddressLeaseProofs -------------------------
(***************************************************************************)
(* AddressLease for any sets of devices, attachment ids, ranges and         *)
(* concurrent requests: types, leases inside the range, and changes of the   *)
(* range that the unique index never refuses.                               *)
(***************************************************************************)
EXTENDS AddressLease, FiniteSetTheorems, TLAPS

\* Why leases stay in range while nothing disturbs the subnet: attachments in
\* progress know the stored range, and a change of the range runs alone, has
\* addresses of the new range planned, and all other rows are moved.
InRange ==
    ~disturbed =>
      /\ \A r \in Requests :
           /\ req[r].stage \in {"subnet", "owner"} => req[r].pool = pool
           /\ req[r].stage \in {"owner", "create"} => req[r].ip \in Addresses(pool)
      /\ ~Moving => \A i \in Rows : att[i].ip.addr \in Addresses(pool)
      /\ \A r \in Requests : req[r].stage = "moving" =>
           /\ \A q \in Requests : q # r => req[q].stage \notin Attaching \cup {"moving"}
           /\ \A i \in Planned(r) : req[r].plan[i] \in Addresses(req[r].pool)
           /\ \A i \in Rows \ Planned(r) : att[i].ip.addr \in Addresses(req[r].pool)

\* A change of the range plans an address of the range for every row and
\* nothing else, if the rows fit.
LEMMA PlanFits ==
  ASSUME TypeOK, NEW p \in DefaultPools
  PROVE  /\ Plan(p) \in [Ids -> Nat \cup {Nil}]
         /\ \A j \in Ids : Plan(p)[j] # Nil <=> j \in Rows
         /\ p.start + Cardinality(Rows) <= p.end + 1 =>
              \A j \in Rows : Plan(p)[j] \in Addresses(p)
  <1>1. p \in Pool
    BY PoolsAssumption
  <1>2. IsFiniteSet(Rows)
    BY IdsAssumption, FS_Subset DEF Rows
  <1> DEFINE Earlier(j) == {i \in Rows : Before(i, j)}
  <1>3. ASSUME NEW j \in Rows
        PROVE  /\ Cardinality(Earlier(j)) \in Nat
               /\ Cardinality(Earlier(j)) + 1 <= Cardinality(Rows)
    <2> DEFINE B == Earlier(j)
    <2>1. B \subseteq Rows \ {j}
      BY IdsAssumption DEF Before, Rows
    <2>2. IsFiniteSet(Rows \ {j}) /\ Cardinality(Rows \ {j}) = Cardinality(Rows) - 1
      BY <1>2, FS_RemoveElement
    <2>3. Cardinality(B) <= Cardinality(Rows \ {j}) /\ IsFiniteSet(B)
      BY <2>1, <2>2, FS_Subset
    <2>4. Cardinality(B) \in Nat /\ Cardinality(Rows) \in Nat
      BY <1>2, <2>3, FS_CardinalityType
    <2>5. QED BY <2>2, <2>3, <2>4
  <1>4. Cardinality(Rows) \in Nat
    BY <1>2, FS_CardinalityType
  <1>5. Plan(p) = [j \in Ids |-> IF j \in Rows THEN p.start + Cardinality(Earlier(j)) ELSE Nil]
    BY DEF Plan
  <1>6. Rows \subseteq Ids /\ p.start \in Nat /\ p.end \in Nat
    BY <1>1 DEF Rows, Pool
  <1> HIDE DEF Earlier
  <1>7. \A j \in Rows : Plan(p)[j] = p.start + Cardinality(Earlier(j))
    BY <1>5, <1>6
  <1>8. \A j \in Rows : Plan(p)[j] \in Nat
    BY <1>3, <1>6, <1>7
  <1>9. \A j \in Ids \ Rows : Plan(p)[j] = Nil
    BY <1>5
  <1>10. Plan(p) \in [Ids -> Nat \cup {Nil}]
    BY <1>5, <1>8, <1>9
  <1>11. ASSUME p.start + Cardinality(Rows) <= p.end + 1, NEW j \in Rows
         PROVE  Plan(p)[j] \in Addresses(p)
    BY <1>3, <1>4, <1>6, <1>7, <1>11 DEF Addresses
  <1>12. QED
    BY <1>8, <1>9, <1>10, <1>11, NilAssumption

\* The table, the stored range and the requests in progress keep their types.
THEOREM TypeCorrect == Spec => []TypeOK
  <1>1. Init => TypeOK
    <2>1. Idle \in Request
      BY DEF Idle, Request
    <2> SUFFICES ASSUME Init PROVE TypeOK
      OBVIOUS
    <2>2. att \in [Ids -> Row \cup {Nil}] /\ req \in [Requests -> Request]
      BY <2>1 DEF Init
    <2>3. QED BY <2>1, <2>2 DEF Init, TypeOK
  <1>2. TypeOK /\ [Next]_vars => TypeOK'
    <2> SUFFICES ASSUME TypeOK, [Next]_vars
                 PROVE  TypeOK'
      OBVIOUS
    <2> USE DEF TypeOK
    <2>1. ASSUME NEW r \in Requests, NEW d \in Devices, LookUp(r, d)
          PROVE  TypeOK'
      BY <2>1 DEF LookUp, Request
    <2>2. ASSUME NEW r \in Requests, Allocate(r)
          PROVE  TypeOK'
      <3>1. /\ req[r].pool \in Pool /\ req[r].pool \in Pools /\ req[r].dev \in Devices
            /\ Candidates(req[r].pool) \subseteq Nat
        BY <2>2, PoolsAssumption DEF Allocate, Request, Candidates, Addresses, Pool
      <3>2. QED BY <2>2, <3>1 DEF Allocate, Request, Idle
    <2>3. ASSUME NEW r \in Requests, Prefer(r)
          PROVE  TypeOK'
      <3>1. req[r] \in [stage : {"owner"}, dev : Devices, ip : Nat, pool : Pools]
        BY <2>3 DEF Prefer, Request
      <3>2. Preferred(req[r].pool) \in Nat
        BY <3>1, PoolsAssumption DEF Preferred, Pool
      <3>3. QED BY <2>3, <3>1, <3>2 DEF Prefer, Request
    <2>4. ASSUME NEW r \in Requests, NEW i \in Ids, Create(r, i)
          PROVE  TypeOK'
      BY <2>4 DEF Create, Row, Request, Idle, Plain, Text
    <2>5. ASSUME NEW r \in Requests, NEW i \in Ids, NEW ip \in Wishes, CheckIP(r, i, ip)
          PROVE  TypeOK'
      BY <2>5, WishesAssumption DEF CheckIP, Request
    <2>6. ASSUME NEW r \in Requests, SetIP(r)
          PROVE  TypeOK'
      BY <2>6 DEF SetIP, WriteIP, Row, Rows, Request, Idle
    <2>7. ASSUME NEW r \in Requests, NEW p \in DefaultPools, ReadLeases(r, p)
          PROVE  TypeOK'
      BY <2>7, PlanFits DEF ReadLeases, Request
    <2>8. ASSUME NEW r \in Requests, NEW i \in Ids, MoveLease(r, i)
          PROVE  TypeOK'
      <3>1. req[r] \in [stage : {"moving"}, plan : [Ids -> Nat \cup {Nil}], pool : DefaultPools]
        BY <2>8 DEF MoveLease, Request
      <3>2. req[r].plan[i] \in Nat
        BY <2>8, <3>1 DEF MoveLease, Planned
      <3>3. att' \in [Ids -> Row \cup {Nil}]
        BY <2>8, <3>2 DEF MoveLease, WriteIP, Row, Rows, Plain, Text
      <3>4. [req[r].plan EXCEPT ![i] = Nil] \in [Ids -> Nat \cup {Nil}]
        BY <3>1
      <3>5. req' \in [Requests -> Request]
        BY <2>8, <3>1, <3>4 DEF MoveLease, Request, Idle
      <3>6. QED BY <2>8, <3>3, <3>5 DEF MoveLease
    <2>9. ASSUME NEW r \in Requests, StoreRange(r)
          PROVE  TypeOK'
      BY <2>9, PoolsAssumption DEF StoreRange, Request, Idle
    <2>10. ASSUME NEW r \in Requests, Fails(r)
          PROVE  TypeOK'
      BY <2>10 DEF Fails, Request, Idle
    <2>11. ASSUME NEW d \in Devices, Deactivate(d)
          PROVE  TypeOK'
      BY <2>11 DEF Deactivate, Row, Rows
    <2>12. CASE UNCHANGED vars
      BY <2>12 DEF vars
    <2> HIDE DEF TypeOK
    <2>13. QED
      BY <2>1, <2>2, <2>3, <2>4, <2>5, <2>6, <2>7, <2>8, <2>9, <2>10, <2>11, <2>12 DEF Next
  <1>3. QED
    BY <1>1, <1>2, PTL DEF Spec

\* InRange is inductive.
LEMMA InRangeKept == Spec => []InRange
  <1>1. Init => InRange
    BY DEF Init, InRange, Rows, Idle
  <1>2. TypeOK /\ InRange /\ [Next]_vars => InRange'
    <2> SUFFICES ASSUME TypeOK, InRange, [Next]_vars
                 PROVE  InRange'
      OBVIOUS
    <2> USE NilAssumption DEF TypeOK, InRange, Rows, Moving, Planned, Attaching
    <2>1. ASSUME NEW r \in Requests, NEW d \in Devices, LookUp(r, d)
          PROVE  InRange'
      BY <2>1 DEF LookUp, Addresses
    <2>2. ASSUME NEW r \in Requests, Allocate(r)
          PROVE  InRange'
      BY <2>2 DEF Allocate, Candidates, Idle
    <2>3. ASSUME NEW r \in Requests, Prefer(r)
          PROVE  InRange'
      BY <2>3 DEF Prefer, IsPreferredFree
    <2>4. ASSUME NEW r \in Requests, NEW i \in Ids, Create(r, i)
          PROVE  InRange'
      BY <2>4 DEF Create, Idle, Row, Plain
    <2>5. ASSUME NEW r \in Requests, NEW i \in Ids, NEW ip \in Wishes, CheckIP(r, i, ip)
          PROVE  InRange'
      BY <2>5 DEF CheckIP
    <2>6. ASSUME NEW r \in Requests, SetIP(r)
          PROVE  InRange'
      BY <2>6 DEF SetIP
    <2>7. ASSUME NEW r \in Requests, NEW p \in DefaultPools, ReadLeases(r, p)
          PROVE  InRange'
      BY <2>7, PlanFits DEF ReadLeases
    <2>8. ASSUME NEW r \in Requests, NEW i \in Ids, MoveLease(r, i)
          PROVE  InRange'
      <3> SUFFICES ASSUME ~disturbed'
                   PROVE  InRange'
        OBVIOUS
      <3> DEFINE plan == req[r].plan
      <3>1. req[r] \in [stage : {"moving"}, plan : [Ids -> Nat \cup {Nil}], pool : DefaultPools]
        BY <2>8 DEF MoveLease, Request
      <3>2. /\ ~disturbed /\ pool' = pool
            /\ req' = [req EXCEPT ![r] = [stage |-> "moving",
                         plan |-> [plan EXCEPT ![i] = Nil], pool |-> req[r].pool]]
            /\ att' = IF i \in Rows THEN [att EXCEPT ![i] = [dev |-> att[i].dev, ip |-> Plain(plan[i])]]
                      ELSE att
        BY <2>8 DEF MoveLease, WriteIP
      <3>3. Planned(r)' = Planned(r) \ {i} /\ Rows' = Rows
        <4>1. req'[r].plan = [plan EXCEPT ![i] = Nil]
          BY <3>1, <3>2
        <4>2. Planned(r)' = Planned(r) \ {i}
          BY <3>1, <4>1
        <4>3. plan[i] \in Nat
          BY <2>8, <3>1 DEF MoveLease
        <4>4. i \in Rows => [dev |-> att[i].dev, ip |-> Plain(plan[i])] \in Row
          BY <4>3 DEF Row, Plain, Text
        <4>5. \A j \in Ids : att'[j] # Nil <=> att[j] # Nil
          BY <3>2, <4>4
        <4>6. QED BY <4>2, <4>5
      <3>4. plan[i] \in Addresses(req[r].pool)
        BY <2>8, <3>2 DEF MoveLease
      <3>5. \A q \in Requests : q # r =>
              req'[q] = req[q] /\ req[q].stage \notin Attaching \cup {"moving"}
        BY <3>1, <3>2
      <3>6. /\ req'[r].stage = "moving" /\ req'[r].pool = req[r].pool
            /\ \A j \in Planned(r)' : req'[r].plan[j] \in Addresses(req[r].pool)
            /\ \A j \in Rows' \ Planned(r)' : att'[j].ip.addr \in Addresses(req[r].pool)
        BY <3>1, <3>2, <3>3, <3>4 DEF Plain
      <3>7. QED BY <3>2, <3>5, <3>6
    <2>9. ASSUME NEW r \in Requests, StoreRange(r)
          PROVE  InRange'
      BY <2>9 DEF StoreRange, Idle
    <2>10. ASSUME NEW r \in Requests, Fails(r)
          PROVE  InRange'
      BY <2>10 DEF Fails, Idle
    <2>11. ASSUME NEW d \in Devices, Deactivate(d)
          PROVE  InRange'
      BY <2>11 DEF Deactivate
    <2>12. CASE UNCHANGED vars
      BY <2>12 DEF vars
    <2> HIDE DEF TypeOK, InRange, Rows, Moving, Planned, Attaching
    <2>13. QED
      BY <2>1, <2>2, <2>3, <2>4, <2>5, <2>6, <2>7, <2>8, <2>9, <2>10, <2>11, <2>12 DEF Next
  <1>3. QED
    BY <1>1, <1>2, TypeCorrect, PTL DEF Spec

\* Attaching devices and changing the range keep every address in the range.
THEOREM InRangeAlways == Spec => []LeasesInRange
  <1>1. InRange => LeasesInRange
    BY DEF InRange, LeasesInRange
  <1>2. QED
    BY <1>1, InRangeKept, PTL

\* Rows get different addresses: of two rows one is before the other in the
\* sorted order, with fewer rows before it.
LEMMA PlanDiffers ==
  ASSUME TypeOK, NEW p \in DefaultPools, NEW i \in Rows, NEW j \in Rows, i # j
  PROVE  Plan(p)[i] # Plan(p)[j]
  <1>1. p \in Pool /\ p.start \in Nat
    BY PoolsAssumption DEF Pool
  <1>2. IsFiniteSet(Rows)
    BY IdsAssumption, FS_Subset DEF Rows
  <1> DEFINE Earlier(k) == {h \in Rows : Before(h, k)}
  <1>3. \A k \in Rows : IsFiniteSet(Earlier(k)) /\ Cardinality(Earlier(k)) \in Nat
    BY <1>2, FS_Subset, FS_CardinalityType
  <1>4. ASSUME NEW k \in Rows, NEW m \in Rows, Before(k, m)
        PROVE  Cardinality(Earlier(k)) < Cardinality(Earlier(m))
    <2>1. Earlier(k) \subseteq Earlier(m)
      <3> SUFFICES ASSUME NEW h \in Rows, Before(h, k)
                   PROVE  Before(h, m)
        OBVIOUS
      <3>1. h \in Nat /\ k \in Nat /\ m \in Nat
        BY IdsAssumption DEF Rows
      <3>2. QED BY <1>4, <3>1 DEF Before
    <2>2. k \in Earlier(m) /\ k \notin Earlier(k)
      <3>1. k \in Nat
        BY IdsAssumption DEF Rows
      <3>2. ~Before(k, k)
        BY <3>1 DEF Before
      <3>3. QED BY <1>4, <3>2
    <2>3. QED
      BY <1>3, <2>1, <2>2, FS_Subset
  <1>5. Before(i, j) \/ Before(j, i)
    BY IdsAssumption DEF Before, Rows
  <1>6. Cardinality(Earlier(i)) # Cardinality(Earlier(j))
    <2> HIDE DEF Earlier
    <2>1. QED BY <1>3, <1>4, <1>5
  <1>7. \A k \in Rows : Plan(p)[k] = p.start + Cardinality(Earlier(k))
    BY DEF Plan, Rows
  <1> HIDE DEF Earlier
  <1>8. QED
    BY <1>1, <1>3, <1>6, <1>7

\* Why no address of a change is taken when its turn comes: devices have one
\* row each, the addresses still planned differ from each other and are above
\* all those written, and the rows not yet moved are in the stored range.
MoveOK ==
    /\ \A i, j \in Rows : i # j => att[i].dev # att[j].dev
    /\ ~disturbed => \A r \in Requests : req[r].stage = "moving" =>
         /\ \A i, j \in Planned(r) : i # j => req[r].plan[i] # req[r].plan[j]
         /\ \A i \in Planned(r), j \in Rows \ Planned(r) : att[j].ip.addr < req[r].plan[i]
         /\ \A j \in Rows \cap Planned(r) : att[j].ip.addr \in Addresses(pool)

\* A change of the range to other addresses is never refused halfway.
THEOREM MovesAlwaysAccepted == Spec => []MovesAreAccepted
  <1>1. Init => MoveOK
    BY DEF Init, MoveOK, Rows, Idle
  <1>2. TypeOK /\ InRange /\ MoveOK /\ [Next]_vars => MoveOK'
    <2> SUFFICES ASSUME TypeOK, InRange, MoveOK, [Next]_vars
                 PROVE  MoveOK'
      OBVIOUS
    <2> USE NilAssumption DEF TypeOK, MoveOK, Rows, Planned
    <2>1. ASSUME NEW r \in Requests, NEW d \in Devices, LookUp(r, d)
          PROVE  MoveOK'
      BY <2>1 DEF LookUp
    <2>2. ASSUME NEW r \in Requests, Allocate(r)
          PROVE  MoveOK'
      BY <2>2 DEF Allocate, Idle
    <2>3. ASSUME NEW r \in Requests, Prefer(r)
          PROVE  MoveOK'
      BY <2>3 DEF Prefer
    <2>4. ASSUME NEW r \in Requests, NEW i \in Ids, Create(r, i)
          PROVE  MoveOK'
      <3>1. ~disturbed => \A q \in Requests : req[q].stage # "moving"
        BY <2>4 DEF Create, InRange, Attaching
      <3>2. QED
        BY <2>4, <3>1 DEF Create, Conflicts, Row, Idle, Plain
    <2>5. ASSUME NEW r \in Requests, NEW i \in Ids, NEW ip \in Wishes, CheckIP(r, i, ip)
          PROVE  MoveOK'
      BY <2>5 DEF CheckIP
    <2>6. ASSUME NEW r \in Requests, SetIP(r)
          PROVE  MoveOK'
      BY <2>6 DEF SetIP, WriteIP, Row
    <2>7. ASSUME NEW r \in Requests, NEW p \in DefaultPools, ReadLeases(r, p)
          PROVE  MoveOK'
      <3>1. ~disturbed' => \A i \in Rows : att[i].ip.addr \in Addresses(pool)
        BY <2>7 DEF ReadLeases, InRange, Moving
      <3>2. \A q \in Requests : ~disturbed' /\ q # r => req'[q].stage = "idle"
        BY <2>7 DEF ReadLeases
      <3>3. /\ req'[r].stage = "moving" /\ req'[r].plan = Plan(p)
            /\ Planned(r)' = Rows /\ UNCHANGED <<att, pool>>
        BY <2>7, PlanFits DEF ReadLeases
      <3>4. QED
        BY <3>1, <3>2, <3>3, PlanDiffers
    <2>8. ASSUME NEW r \in Requests, NEW i \in Ids, MoveLease(r, i)
          PROVE  MoveOK'
      <3> DEFINE plan == req[r].plan
      <3>1. /\ req[r] \in [stage : {"moving"}, plan : [Ids -> Nat \cup {Nil}], pool : DefaultPools]
            /\ plan[i] \in Nat /\ Plain(plan[i]) \in Text
        BY <2>8 DEF MoveLease, Request, Plain, Text
      <3>2. \A j \in Rows' : j \in Rows /\ att'[j].dev = att[j].dev
        BY <2>8, <3>1 DEF MoveLease, WriteIP, Row
      <3>3. SUFFICES ASSUME ~disturbed', NEW q \in Requests, req'[q].stage = "moving"
                     PROVE  /\ \A k, j \in Planned(q)' : k # j => req'[q].plan[k] # req'[q].plan[j]
                            /\ \A k \in Planned(q)', j \in Rows' \ Planned(q)' :
                                 att'[j].ip.addr < req'[q].plan[k]
                            /\ \A j \in Rows' \cap Planned(q)' : att'[j].ip.addr \in Addresses(pool)'
        BY <3>2
      <3>4. /\ ~disturbed /\ pool' = pool
            /\ req' = [req EXCEPT ![r] = [stage |-> "moving",
                         plan |-> [plan EXCEPT ![i] = Nil], pool |-> req[r].pool]]
            /\ att' = IF i \in Rows THEN [att EXCEPT ![i] = [dev |-> att[i].dev, ip |-> Plain(plan[i])]]
                      ELSE att
        BY <2>8, <3>3 DEF MoveLease, WriteIP
      <3>5. q = r
        BY <3>1, <3>3, <3>4 DEF InRange
      <3>6. req'[r].plan = [plan EXCEPT ![i] = Nil] /\ Planned(r)' = Planned(r) \ {i}
        BY <3>1, <3>4
      <3>7. \A k \in Planned(r)' : k \in Planned(r) /\ req'[r].plan[k] = plan[k] /\ plan[k] \in Nat
        BY <3>1, <3>6
      <3>8. \A j \in Rows' : j # i => att'[j].ip = att[j].ip
        BY <3>4
      <3>9. \A k \in Planned(r)' : plan[i] < plan[k]
        <4>1. i \in Planned(r) /\ \A k \in Planned(r) : plan[i] <= plan[k]
          BY <2>8 DEF MoveLease
        <4>2. \A k \in Planned(r) : k # i => plan[k] # plan[i]
          BY <3>1, <3>4, <4>1
        <4>3. QED BY <3>1, <3>6, <3>7, <4>1, <4>2
      <3>10. i \in Rows' => att'[i].ip.addr = plan[i]
        BY <3>2, <3>4 DEF Plain
      <3>11. \A k \in Planned(r)', j \in Rows' \ Planned(r)' : att'[j].ip.addr < req'[r].plan[k]
        <4> SUFFICES ASSUME NEW k \in Planned(r)', NEW j \in Rows', j \notin Planned(r)'
                     PROVE  att'[j].ip.addr < req'[r].plan[k]
          OBVIOUS
        <4>1. CASE j = i
          BY <4>1, <3>7, <3>9, <3>10
        <4>2. CASE j # i
          BY <4>2, <3>1, <3>2, <3>4, <3>6, <3>7, <3>8
        <4>3. QED BY <4>1, <4>2
      <3>12. QED
        BY <3>1, <3>2, <3>4, <3>5, <3>6, <3>7, <3>8, <3>11 DEF Addresses
    <2>9. ASSUME NEW r \in Requests, StoreRange(r)
          PROVE  MoveOK'
      BY <2>9 DEF StoreRange, Idle, InRange
    <2>10. ASSUME NEW r \in Requests, Fails(r)
          PROVE  MoveOK'
      BY <2>10 DEF Fails, Idle
    <2>11. ASSUME NEW d \in Devices, Deactivate(d)
          PROVE  MoveOK'
      BY <2>11 DEF Deactivate
    <2>12. CASE UNCHANGED vars
      BY <2>12 DEF vars
    <2> HIDE DEF TypeOK, MoveOK, Rows, Planned
    <2>13. QED
      BY <2>1, <2>2, <2>3, <2>4, <2>5, <2>6, <2>7, <2>8, <2>9, <2>10, <2>11, <2>12 DEF Next
  <1>3. TypeOK /\ InRange /\ MoveOK => MovesAreAccepted
    <2> SUFFICES ASSUME TypeOK, InRange, MoveOK, NEW r \in Requests,
                        ~disturbed, req[r].stage = "moving",
                        Addresses(req[r].pool) \cap Addresses(pool) = {},
                        NEW i \in Rows \cap Planned(r), NEW j \in Rows \ {i},
                        att[j].dev = att[i].dev \/ att[j].ip = Plain(req[r].plan[i])
                 PROVE  FALSE
      BY DEF MovesAreAccepted, Conflicts
    <2>1. req[r].plan[i] \in Addresses(req[r].pool) /\ att[j].ip.addr = req[r].plan[i]
      BY DEF InRange, MoveOK, Plain
    <2>2. CASE j \in Planned(r)
      BY <2>1, <2>2 DEF MoveOK
    <2>3. CASE j \notin Planned(r)
      <3>1. att[j].ip.addr < req[r].plan[i]
        BY <2>3 DEF MoveOK
      <3>2. req[r].plan[i] \in Nat
        BY DEF TypeOK, Request, Planned
      <3>3. QED BY <2>1, <3>1, <3>2
    <2>4. QED BY <2>2, <2>3
  <1>4. QED
    BY <1>1, <1>2, <1>3, TypeCorrect, InRangeKept, PTL DEF Spec
=============================================================================
