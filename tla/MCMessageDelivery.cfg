CONSTANTS
    u1 = u1
    u2 = u2
    Messages = {m1}
    Users = {u1, u2}
    Instances = {i1, i2}
    Requests = {r1, r2}
    MaxAttempts = 3
    Limit = 1
    MaxFailures = 2
    Nil = Nil
    Owner <- MCOwner
SPECIFICATION FairSpec
INVARIANTS
    TypeOK
    RowsMove
    AttemptsBounded
    DeliveredToOwner
PROPERTY RetriesEnd
