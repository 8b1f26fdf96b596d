----------------------- MODULE MessageDeliveryProofs -----------------------
(***************************************************************************)
(* Theorems about MessageDelivery for any messages, users, server           *)
(* instances, concurrent requests, limit of attempts and size of a pass.    *)
(***************************************************************************)
EXTENDS MessageDelivery, TLAPS

\* Every table, loop and request handler keeps its type.
THEOREM TypeCorrect == Spec => []TypeOK
  <1>1. Init => TypeOK
    BY DEF Init, TypeOK, Handler
  <1>2. TypeOK /\ [Next]_vars => TypeOK'
    <2> SUFFICES ASSUME TypeOK, [Next]_vars
                 PROVE  TypeOK'
      OBVIOUS
    <2> USE DEF TypeOK
    <2>1. ASSUME NEW m \in Messages, NEW stored \in BOOLEAN, NEW written \in BOOLEAN,
                 SendTracked(m, stored, written)
          PROVE  TypeOK'
      BY <2>1 DEF SendTracked, Row
    <2>2. ASSUME NEW m \in Messages, Ripen(m)
          PROVE  TypeOK'
      BY <2>2 DEF Ripen
    <2>3. ASSUME NEW i \in Instances, ListRetryable(i)
          PROVE  TypeOK'
      <3>1. ASSUME NEW m \in Messages, IsPending(m)
            PROVE  [msg |-> m, attempts |-> outbox[m].attempts] \in Copy
        BY <3>1 DEF IsPending, Row, Copy
      <3>2. batch' \in [Instances -> SUBSET Copy]
        BY <2>3, <3>1 DEF ListRetryable
      <3>3. QED BY <2>3, <3>2 DEF ListRetryable
    <2>4. ASSUME NEW c \in Copy, NEW final \in {"delivered", "undelivered"},
                 Archive(c, final)
          PROVE  /\ outbox' \in [Messages -> Row \cup {Nil}]
                 /\ history' \in [Messages -> SUBSET HistoryRow]
                 /\ ripe' \subseteq Messages
      BY <2>4 DEF Archive, Copy, HistoryRow
    <2>5. ASSUME NEW i \in Instances, NEW c \in batch[i], RetryGivesUp(i, c)
          PROVE  TypeOK'
      <3>1. c \in Copy
        OBVIOUS
      <3>2. QED BY <2>4, <2>5, <3>1 DEF RetryGivesUp
    <2>6. ASSUME NEW i \in Instances, NEW c \in batch[i], RetryResends(i, c)
          PROVE  TypeOK'
      BY <2>6 DEF RetryResends, Copy
    <2>7. ASSUME NEW i \in Instances, RecordAttempt(i)
          PROVE  TypeOK'
      <3>1. sending[i] \in Copy
        BY <2>7 DEF RecordAttempt
      <3>2. QED BY <2>7, <3>1 DEF RecordAttempt, Copy, Row
    <2>8. ASSUME NEW m \in Messages, NEW r \in Requests, NEW u \in Users,
                 ClientReads(m, r, u)
          PROVE  TypeOK'
      BY <2>8 DEF ClientReads, Handler
    <2>9. ASSUME NEW r \in Requests, AckReads(r)
          PROVE  TypeOK'
      <3>1. request[r] \in [stage : {"asked"}, msg : Messages, user : Users]
        BY <2>9 DEF AckReads, Handler
      <3>2. CASE AckFinds(request[r].msg, request[r].user)
        <4>1. [msg |-> request[r].msg, attempts |-> outbox[request[r].msg].attempts] \in Copy
          BY <3>1, <3>2 DEF AckFinds, IsPending, Row, Copy
        <4>2. QED BY <2>9, <3>2, <4>1 DEF AckReads, Handler
      <3>3. CASE ~AckFinds(request[r].msg, request[r].user)
        BY <2>9, <3>3 DEF AckReads, Handler
      <3>4. QED BY <3>2, <3>3
    <2>10. ASSUME NEW r \in Requests, AckUpdates(r)
           PROVE  TypeOK'
      <3>1. request[r] \in [stage : {"read", "acked"}, copy : Copy]
        BY <2>10 DEF AckUpdates, Handler
      <3>2. request' \in [Requests -> Handler]
        BY <2>10, <3>1 DEF AckUpdates, Handler
      <3>3. request[r].copy.msg \in Messages
        BY <3>1 DEF Copy
      <3>4. outbox' \in [Messages -> Row \cup {Nil}]
        <4>1. CASE IsPending(request[r].copy.msg)
          <5>1. outbox[request[r].copy.msg] \in Row
            BY <3>3, <4>1 DEF IsPending
          <5>2. [outbox[request[r].copy.msg] EXCEPT !.status = "acked"] \in Row
            BY <5>1 DEF Row
          <5>3. outbox' = [outbox EXCEPT ![request[r].copy.msg] =
                              [outbox[request[r].copy.msg] EXCEPT !.status = "acked"]]
            BY <2>10, <3>3, <4>1 DEF AckUpdates
          <5>4. QED BY <3>3, <5>2, <5>3
        <4>2. CASE ~IsPending(request[r].copy.msg)
          BY <2>10, <4>2 DEF AckUpdates
        <4>3. QED BY <4>1, <4>2
      <3>5. QED BY <2>10, <3>2, <3>4 DEF AckUpdates
    <2>11. ASSUME NEW r \in Requests, AckArchives(r)
           PROVE  TypeOK'
      <3>1. request[r] \in [stage : {"read", "acked"}, copy : Copy]
        BY <2>11 DEF AckArchives, Handler
      <3>2. QED BY <2>4, <2>11, <3>1 DEF AckArchives, Handler
    <2>12. ASSUME NEW r \in Requests, AckLost(r) \/ AckStops(r)
           PROVE  TypeOK'
      BY <2>12 DEF AckLost, AckStops, Handler
    <2>13. ASSUME NEW i \in Instances, LoopRestarts(i) \/ Connect(i)
           PROVE  TypeOK'
      BY <2>13 DEF LoopRestarts, Connect
    <2>14. CASE Disconnect
      BY <2>14 DEF Disconnect
    <2>15. CASE UNCHANGED vars
      BY <2>15 DEF vars
    <2>16. QED
      BY <2>1, <2>2, <2>3, <2>5, <2>6, <2>7, <2>8, <2>9, <2>10, <2>11, <2>12, <2>13,
         <2>14, <2>15 DEF Next, Loop, AckHandler
  <1>3. QED
    BY <1>1, <1>2, PTL DEF Spec

\* Archiving moves rows: no message is both in the outbox and in the history,
\* and none that a loop or a handler has a copy of is in neither.  RowsMove is
\* inductive given the types: only sendTracked creates a row, for a message
\* without history, and every other step that deletes one adds history.
THEOREM RowsOnlyMove == Spec => []RowsMove
  <1>1. Init => RowsMove
    BY DEF Init, RowsMove
  <1>2. TypeOK /\ RowsMove /\ [Next]_vars => RowsMove'
    <2> SUFFICES ASSUME TypeOK, RowsMove, [Next]_vars
                 PROVE  RowsMove'
      OBVIOUS
    <2>1. ASSUME NEW m \in Messages, NEW stored \in BOOLEAN, NEW written \in BOOLEAN,
                 SendTracked(m, stored, written)
          PROVE  RowsMove'
      <3>1. /\ \A x \in Messages : outbox'[x] # Nil => x = m \/ outbox'[x] = outbox[x]
            /\ \A x \in Messages : outbox[x] # Nil => outbox'[x] # Nil
            /\ history[m] = {}
        BY <2>1 DEF SendTracked, TypeOK
      <3>2. UNCHANGED <<history, batch, sending, request>>
        BY <2>1 DEF SendTracked
      <3>3. QED BY <3>1, <3>2 DEF RowsMove, TypeOK, Copy, Handler
    <2>2. ASSUME NEW c \in Copy, NEW final, Archive(c, final)
          PROVE  /\ \A m \in Messages : outbox'[m] = Nil \/ history'[m] = {}
                 /\ \A m \in Messages : outbox[m] # Nil \/ history[m] # {} =>
                                        outbox'[m] # Nil \/ history'[m] # {}
      BY <2>2 DEF Archive, RowsMove, TypeOK, Copy
    <2>3. ASSUME NEW i \in Instances, ListRetryable(i)
          PROVE  RowsMove'
      <3>1. \A c \in batch'[i] : outbox[c.msg] # Nil
        BY <2>3 DEF ListRetryable, IsPending, TypeOK
      <3>2. /\ \A j \in Instances \ {i} : batch'[j] = batch[j]
            /\ UNCHANGED <<outbox, history, sending, request>>
        BY <2>3 DEF ListRetryable, TypeOK
      <3>3. QED BY <3>1, <3>2 DEF RowsMove
    <2>4. ASSUME NEW i \in Instances, NEW c \in batch[i], RetryGivesUp(i, c)
          PROVE  RowsMove'
      <3>1. c \in Copy
        BY DEF TypeOK
      <3>2. /\ \A j \in Instances : batch'[j] \subseteq batch[j]
            /\ UNCHANGED <<sending, request>>
        BY <2>4 DEF RetryGivesUp, TypeOK
      <3>3. QED BY <2>2, <2>4, <3>1, <3>2 DEF RetryGivesUp, RowsMove, TypeOK, Copy, Handler
    <2>5. ASSUME NEW i \in Instances, NEW c \in batch[i], RetryResends(i, c)
          PROVE  RowsMove'
      <3>1. /\ \A j \in Instances : batch'[j] \subseteq batch[j]
            /\ sending'[i] = c
            /\ \A j \in Instances \ {i} : sending'[j] = sending[j]
            /\ UNCHANGED <<outbox, history, request>>
        BY <2>5 DEF RetryResends, TypeOK
      <3>2. QED BY <3>1 DEF RowsMove
    <2>6. ASSUME NEW i \in Instances, RecordAttempt(i)
          PROVE  RowsMove'
      <3>1. sending[i] \in Copy
        BY <2>6 DEF RecordAttempt, TypeOK
      <3>2. \A m \in Messages : (outbox'[m] = Nil) <=> (outbox[m] = Nil)
        BY <2>6, <3>1, NilAssumption DEF RecordAttempt, IsPending, TypeOK, Copy, Row
      <3>3. /\ \A j \in Instances : sending'[j] = sending[j] \/ sending'[j] = Nil
            /\ UNCHANGED <<history, batch, request>>
        BY <2>6 DEF RecordAttempt, TypeOK
      <3>4. QED BY <3>2, <3>3 DEF RowsMove, TypeOK, Copy, Handler
    <2>7. ASSUME NEW m \in Messages, NEW r \in Requests, NEW u \in Users,
                 ClientReads(m, r, u)
          PROVE  RowsMove'
      BY <2>7 DEF ClientReads, RowsMove, TypeOK
    <2>8. ASSUME NEW r \in Requests, AckReads(r)
          PROVE  RowsMove'
      <3>1. /\ request'[r].stage = "read" => outbox[request'[r].copy.msg] # Nil
            /\ request'[r].stage \in {"read", "idle"}
        BY <2>8 DEF AckReads, AckFinds, IsPending, TypeOK
      <3>2. /\ \A q \in Requests \ {r} : request'[q] = request[q]
            /\ UNCHANGED <<outbox, history, batch, sending>>
        BY <2>8 DEF AckReads, TypeOK
      <3>3. QED BY <3>1, <3>2 DEF RowsMove
    <2>9. ASSUME NEW r \in Requests, AckUpdates(r)
          PROVE  RowsMove'
      <3>1. \A m \in Messages : (outbox'[m] = Nil) <=> (outbox[m] = Nil)
        <4> DEFINE k == request[r].copy.msg
        <4>1. CASE IsPending(k)
          <5>1. outbox' = [outbox EXCEPT ![k] = [outbox[k] EXCEPT !.status = "acked"]]
            BY <2>9, <4>1 DEF AckUpdates
          <5>2. ASSUME k \in Messages
                PROVE  outbox[k] # Nil /\ [outbox[k] EXCEPT !.status = "acked"] \in Row
            BY <4>1, <5>2 DEF IsPending, TypeOK, Row
          <5>3. QED BY <5>1, <5>2, NilAssumption DEF TypeOK
        <4>2. CASE ~IsPending(k)
          BY <2>9, <4>2 DEF AckUpdates
        <4>3. QED BY <4>1, <4>2
      <3>2. /\ \A q \in Requests : request'[q] # request[q] =>
                     request[q].stage = "read" /\ request'[q].copy = request[q].copy
            /\ UNCHANGED <<history, batch, sending>>
        BY <2>9 DEF AckUpdates, TypeOK, Handler
      <3>3. QED BY <3>1, <3>2 DEF RowsMove, TypeOK, Copy, Handler
    <2>10. ASSUME NEW r \in Requests, AckArchives(r)
           PROVE  RowsMove'
      <3>1. request[r].copy \in Copy
        BY <2>10 DEF AckArchives, TypeOK, Handler
      <3>2. /\ \A q \in Requests : request'[q] = request[q] \/ request'[q].stage = "idle"
            /\ UNCHANGED <<batch, sending>>
        BY <2>10 DEF AckArchives, TypeOK
      <3>3. QED BY <2>2, <2>10, <3>1, <3>2 DEF AckArchives, RowsMove, TypeOK, Copy, Handler
    <2>11. ASSUME NEW r \in Requests, AckLost(r) \/ AckStops(r)
           PROVE  RowsMove'
      BY <2>11 DEF AckLost, AckStops, RowsMove, TypeOK
    <2>12. ASSUME NEW i \in Instances, LoopRestarts(i)
           PROVE  RowsMove'
      BY <2>12 DEF LoopRestarts, RowsMove, TypeOK
    <2>13. CASE \/ \E m \in Messages : Ripen(m)
                \/ \E i \in Instances : Connect(i)
                \/ Disconnect
                \/ UNCHANGED vars
      BY <2>13 DEF Ripen, Connect, Disconnect, vars, RowsMove
    <2>14. QED
      BY <2>1, <2>3, <2>4, <2>5, <2>6, <2>7, <2>8, <2>9, <2>10, <2>11, <2>12, <2>13
         DEF Next, Loop, AckHandler
  <1>3. QED
    BY <1>1, <1>2, TypeCorrect, PTL DEF Spec

\* What makes AttemptsBounded inductive: a loop holds only counts it read from
\* rows, and what it has sent again it had not given up.
CopiesCounted ==
    /\ \A i \in Instances : \A c \in batch[i] : c.attempts \in 1 .. MaxAttempts
    /\ \A i \in Instances :
          sending[i] # Nil => sending[i].attempts \in 1 .. (MaxAttempts - 1)

\* The count of attempts never passes the limit, and rows are given up exactly
\* at it, whatever stale counts concurrent retry loops write back.
THEOREM AttemptsStayBounded == Spec => []AttemptsBounded
  <1> DEFINE Inv == AttemptsBounded /\ CopiesCounted
  <1>1. Init => Inv
    BY DEF Init, AttemptsBounded, CopiesCounted
  <1>2. TypeOK /\ Inv /\ [Next]_vars => Inv'
    <2> SUFFICES ASSUME TypeOK, AttemptsBounded, CopiesCounted, [Next]_vars
                 PROVE  AttemptsBounded' /\ CopiesCounted'
      OBVIOUS
    <2>1. ASSUME NEW m \in Messages, NEW stored \in BOOLEAN, NEW written \in BOOLEAN,
                 SendTracked(m, stored, written)
          PROVE  Inv'
      BY <2>1, MaxAttemptsAssumption
         DEF SendTracked, AttemptsBounded, CopiesCounted, TypeOK
    <2>2. ASSUME NEW i \in Instances, ListRetryable(i)
          PROVE  Inv'
      <3>1. \A c \in batch'[i] : c.attempts \in 1 .. MaxAttempts
        <4> SUFFICES ASSUME NEW c \in batch'[i]
                     PROVE  c.attempts \in 1 .. MaxAttempts
          OBVIOUS
        <4>1. PICK S \in SUBSET {m \in ripe : IsPending(m)} :
                batch'[i] = {[msg |-> m, attempts |-> outbox[m].attempts] : m \in S}
          BY <2>2 DEF ListRetryable, TypeOK
        <4>2. PICK m \in S : c = [msg |-> m, attempts |-> outbox[m].attempts]
          BY <4>1
        <4>3. m \in Messages /\ outbox[m] # Nil
          BY <4>1, <4>2 DEF TypeOK, IsPending
        <4>4. QED BY <4>2, <4>3 DEF AttemptsBounded
      <3>2. /\ \A j \in Instances \ {i} : batch'[j] = batch[j]
            /\ UNCHANGED <<outbox, history, sending>>
        BY <2>2 DEF ListRetryable, TypeOK
      <3>3. QED BY <3>1, <3>2 DEF AttemptsBounded, CopiesCounted
    <2>3. ASSUME NEW i \in Instances, NEW c \in batch[i], RetryGivesUp(i, c)
          PROVE  Inv'
      <3>1. c \in Copy /\ c.attempts = MaxAttempts
        BY <2>3, MaxAttemptsAssumption
           DEF RetryGivesUp, GivesUp, CopiesCounted, TypeOK, Copy
      <3>2. AttemptsBounded'
        BY <2>3, <3>1 DEF RetryGivesUp, Archive, AttemptsBounded, TypeOK, Copy
      <3>3. CopiesCounted'
        BY <2>3 DEF RetryGivesUp, CopiesCounted, TypeOK
      <3>4. QED BY <3>2, <3>3
    <2>4. ASSUME NEW i \in Instances, NEW c \in batch[i], RetryResends(i, c)
          PROVE  Inv'
      <3>1. c.attempts \in 1 .. (MaxAttempts - 1)
        BY <2>4, MaxAttemptsAssumption DEF RetryResends, GivesUp, CopiesCounted
      <3>2. QED BY <2>4, <3>1 DEF RetryResends, AttemptsBounded, CopiesCounted, TypeOK
    <2>5. ASSUME NEW i \in Instances, RecordAttempt(i)
          PROVE  Inv'
      <3>1. sending[i].attempts + 1 \in 1 .. MaxAttempts
        BY <2>5, MaxAttemptsAssumption DEF RecordAttempt, CopiesCounted
      <3>2. AttemptsBounded'
        BY <2>5, <3>1 DEF RecordAttempt, AttemptsBounded, TypeOK
      <3>3. CopiesCounted'
        BY <2>5 DEF RecordAttempt, CopiesCounted, TypeOK
      <3>4. QED BY <3>2, <3>3
    <2>6. ASSUME NEW r \in Requests, AckUpdates(r)
          PROVE  Inv'
      <3>1. \A m \in Messages : outbox'[m] # Nil =>
               outbox[m] # Nil /\ outbox'[m].attempts = outbox[m].attempts
        BY <2>6 DEF AckUpdates, IsPending, TypeOK, Row
      <3>2. UNCHANGED <<history, batch, sending>>
        BY <2>6 DEF AckUpdates
      <3>3. QED BY <3>1, <3>2 DEF AttemptsBounded, CopiesCounted
    <2>7. ASSUME NEW r \in Requests, AckArchives(r)
          PROVE  Inv'
      <3>1. request[r].copy \in Copy
        BY <2>7 DEF AckArchives, TypeOK, Handler
      <3>2. AttemptsBounded'
        BY <2>7, <3>1 DEF AckArchives, Archive, AttemptsBounded, TypeOK, Copy
      <3>3. QED BY <2>7, <3>2 DEF AckArchives, CopiesCounted
    <2>8. ASSUME NEW i \in Instances, LoopRestarts(i)
          PROVE  Inv'
      BY <2>8 DEF LoopRestarts, AttemptsBounded, CopiesCounted, TypeOK
    <2>9. ASSUME UNCHANGED <<outbox, history, batch, sending>>
          PROVE  Inv'
      BY <2>9 DEF AttemptsBounded, CopiesCounted
    <2>10. QED
      BY <2>1, <2>2, <2>3, <2>4, <2>5, <2>6, <2>7, <2>8, <2>9
         DEF Next, Loop, AckHandler, Ripen, ClientReads, AckReads, AckLost, AckStops,
             Connect, Disconnect, vars
  <1>3. QED
    BY <1>1, <1>2, TypeCorrect, PTL DEF Spec

\* What makes DeliveredToOwner inductive: a request in progress was sent by a
\* client that had read the message, and from the second step on by the one
\* of its addressee.
AskedAfterReading ==
    \A r \in Requests :
        /\ request[r].stage = "asked" => <<request[r].msg, request[r].user>> \in received
        /\ request[r].stage \in {"read", "acked"} =>
              <<request[r].copy.msg, Owner[request[r].copy.msg]>> \in received

\* A message is archived as delivered only after its addressee has read it.
THEOREM DeliveryIsReal == Spec => []DeliveredToOwner
  <1> DEFINE Inv == DeliveredToOwner /\ AskedAfterReading
  <1>1. Init => Inv
    BY DEF Init, DeliveredToOwner, AskedAfterReading
  <1>2. TypeOK /\ Inv /\ [Next]_vars => Inv'
    <2> SUFFICES ASSUME TypeOK, DeliveredToOwner, AskedAfterReading, [Next]_vars
                 PROVE  DeliveredToOwner' /\ AskedAfterReading'
      OBVIOUS
    <2>1. ASSUME NEW i \in Instances, NEW c \in batch[i], RetryGivesUp(i, c)
          PROVE  Inv'
      <3>1. c \in Copy
        BY DEF TypeOK
      <3>2. DeliveredToOwner'
        BY <2>1, <3>1 DEF RetryGivesUp, Archive, DeliveredToOwner, TypeOK, Copy
      <3>3. QED BY <2>1, <3>2 DEF RetryGivesUp, AskedAfterReading
    <2>2. ASSUME NEW m \in Messages, NEW r \in Requests, NEW u \in Users,
                 ClientReads(m, r, u)
          PROVE  Inv'
      BY <2>2 DEF ClientReads, DeliveredToOwner, AskedAfterReading, TypeOK
    <2>3. ASSUME NEW r \in Requests, AckReads(r)
          PROVE  Inv'
      <3>1. request[r].stage = "asked"
        BY <2>3 DEF AckReads
      <3>2. request'[r].stage = "read" =>
               <<request'[r].copy.msg, Owner[request'[r].copy.msg]>> \in received
        BY <2>3, <3>1 DEF AckReads, AckFinds, AskedAfterReading, TypeOK
      <3>3. /\ request'[r].stage \in {"read", "idle"}
            /\ \A q \in Requests \ {r} : request'[q] = request[q]
            /\ UNCHANGED <<history, received>>
        BY <2>3 DEF AckReads, TypeOK
      <3>4. QED BY <3>2, <3>3 DEF DeliveredToOwner, AskedAfterReading
    <2>4. ASSUME NEW r \in Requests, AckUpdates(r)
          PROVE  Inv'
      <3>1. /\ \A q \in Requests : request'[q] # request[q] =>
                    /\ request[q].stage = "read"
                    /\ request'[q].stage = "acked"
                    /\ request'[q].copy = request[q].copy
            /\ UNCHANGED <<history, received>>
        BY <2>4 DEF AckUpdates, TypeOK, Handler
      <3>2. QED BY <3>1 DEF DeliveredToOwner, AskedAfterReading
    <2>5. ASSUME NEW r \in Requests, AckArchives(r)
          PROVE  Inv'
      <3>1. request[r].copy \in Copy
        BY <2>5 DEF AckArchives, TypeOK, Handler
      <3>2. <<request[r].copy.msg, Owner[request[r].copy.msg]>> \in received
        BY <2>5 DEF AckArchives, AskedAfterReading
      <3>3. DeliveredToOwner'
        BY <2>5, <3>1, <3>2 DEF AckArchives, Archive, DeliveredToOwner, TypeOK, Copy
      <3>4. AskedAfterReading'
        BY <2>5 DEF AckArchives, AskedAfterReading, TypeOK
      <3>5. QED BY <3>3, <3>4
    <2>6. ASSUME NEW r \in Requests, AckLost(r) \/ AckStops(r)
          PROVE  Inv'
      BY <2>6 DEF AckLost, AckStops, DeliveredToOwner, AskedAfterReading, TypeOK
    <2>7. ASSUME UNCHANGED <<history, request, received>>
          PROVE  Inv'
      BY <2>7 DEF DeliveredToOwner, AskedAfterReading
    <2>8. QED
      BY <2>1, <2>2, <2>3, <2>4, <2>5, <2>6, <2>7
         DEF Next, Loop, AckHandler, SendTracked, Ripen, ListRetryable, RetryResends,
             RecordAttempt, LoopRestarts, Connect, Disconnect, vars
  <1>3. QED
    BY <1>1, <1>2, TypeCorrect, PTL DEF Spec
=============================================================================
