-------------------------- MODULE MessageDelivery --------------------------
(***************************************************************************)
(* server/server-biz: delivery of control messages to a client.  A message  *)
(* sent over the control WebSocket is first stored in the outbox table.     *)
(* The client confirms it by an HTTP request; until then the retry loop of  *)
(* every server instance sends it again, and after MaxAttempts moves it to  *)
(* the history as undelivered.  Requests and loops run concurrently, and    *)
(* each SQL statement or transaction is one step.                           *)
(***************************************************************************)
EXTENDS Naturals, FiniteSets

CONSTANTS Messages,    \* message ids
          Users,       \* users
          Owner,       \* Owner[m]: the user the message was sent to
          Instances,   \* server-biz processes, each with a retry loop
          Requests,    \* HTTP ack requests that can be in progress at once
          MaxAttempts, \* attempts before a message is given up (5)
          Limit,       \* rows a pass of the retry loop takes (64)
          MaxFailures, \* bound on the failures of the environment
          Nil

ASSUME OwnerAssumption == Owner \in [Messages -> Users]
ASSUME MaxAttemptsAssumption == MaxAttempts \in Nat \ {0}

VARIABLES outbox,   \* control_outbound_messages: message -> row, or Nil
          history,  \* control_message_history: message -> set of rows
          ripe,     \* pending rows whose last attempt is 3 seconds old
          batch,    \* instance -> rows its retry loop has read and not handled
          sending,  \* instance -> row sent again and not yet recorded, or Nil
          request,  \* ack request -> what its handler has done so far
          link,     \* the instance the client is connected to, or Nil
          wire,     \* messages on the way to the client
          received, \* history: <<message, user>> of every envelope read, with the
                    \* user whose token the reader holds
          failures  \* failures so far

vars == <<outbox, history, ripe, batch, sending, request, link, wire, received, failures>>

Row == [status : {"pending", "acked"}, attempts : Nat]
\* A row as the retry loop or an ack handler read it.
Copy == [msg : Messages, attempts : Nat]
ASSUME NilAssumption == Nil \notin Row \cup Copy
HistoryRow == [final : {"delivered", "undelivered"}, attempts : Nat]
Handler == [stage : {"idle"}] \cup [stage : {"asked"}, msg : Messages, user : Users]
             \cup [stage : {"read", "acked"}, copy : Copy]

IsPending(m) == outbox[m] # Nil /\ outbox[m].status = "pending"
-----------------------------------------------------------------------------
Init ==
    /\ outbox = [m \in Messages |-> Nil]
    /\ history = [m \in Messages |-> {}]
    /\ ripe = {}
    /\ batch = [i \in Instances |-> {}]
    /\ sending = [i \in Instances |-> Nil]
    /\ request = [r \in Requests |-> [stage |-> "idle"]]
    /\ link = Nil
    /\ wire = {}
    /\ received = {}
    /\ failures = 0

\* sendTracked: the row is stored with one attempt, then the envelope is
\* written to the connection found in the hub.  Errors of both are ignored.
SendTracked(m, stored, written) ==
    /\ link # Nil
    /\ outbox[m] = Nil /\ history[m] = {} /\ m \notin wire
    /\ \A u \in Users : <<m, u>> \notin received
    /\ ~stored \/ ~written => failures < MaxFailures
    /\ outbox' = IF stored THEN [outbox EXCEPT ![m] = [status |-> "pending", attempts |-> 1]]
                 ELSE outbox
    /\ wire' = IF written THEN wire \cup {m} ELSE wire
    /\ failures' = IF stored /\ written THEN failures ELSE failures + 1
    /\ UNCHANGED <<history, ripe, batch, sending, request, link, received>>

\* Three seconds have passed since the last attempt at m.
Ripen(m) ==
    /\ IsPending(m) /\ m \notin ripe
    /\ ripe' = ripe \cup {m}
    /\ UNCHANGED <<outbox, history, batch, sending, request, link, wire, received, failures>>

\* ListRetryable: at most Limit of the pending rows not tried for 3 seconds.
\* The order of the query only says which; here any of them may come first.
ListRetryable(i) ==
    /\ batch[i] = {} /\ sending[i] = Nil
    /\ \E S \in SUBSET {m \in ripe : IsPending(m)} :
          /\ S # {}
          /\ Cardinality(S) <= Limit
          /\ S = {m \in ripe : IsPending(m)} \/ Cardinality(S) = Limit
          /\ batch' = [batch EXCEPT ![i] =
                          {[msg |-> m, attempts |-> outbox[m].attempts] : m \in S}]
    /\ UNCHANGED <<outbox, history, ripe, sending, request, link, wire, received, failures>>

\* Mutant: the row's own status is stored as the final one.
ArchiveRowStatus(c, final) ==
    /\ history' = [history EXCEPT ![c.msg] =
                     @ \cup {[final |-> "acked", attempts |-> c.attempts]}]
    /\ outbox' = [outbox EXCEPT ![c.msg] = Nil]
    /\ ripe' = ripe \ {c.msg}
\* Mutant: the row stays in the outbox.
ArchiveKeepsRow(c, final) ==
    /\ history' = [history EXCEPT ![c.msg] =
                     @ \cup {[final |-> final, attempts |-> c.attempts]}]
    /\ UNCHANGED <<outbox, ripe>>
\* ArchiveControlOutboundMessage: one transaction, on the row as it was read.
Archive(c, final) ==
    /\ history' = [history EXCEPT ![c.msg] =
                     @ \cup {[final |-> final, attempts |-> c.attempts]}]
    /\ outbox' = [outbox EXCEPT ![c.msg] = Nil]
    /\ ripe' = ripe \ {c.msg}

\* Mutant: the limit is compared with > instead of >=.
GivesUpLate(c) == c.attempts > MaxAttempts
GivesUp(c) == c.attempts >= MaxAttempts

\* The retry loop gives a row up.
RetryGivesUp(i, c) ==
    /\ c \in batch[i] /\ sending[i] = Nil
    /\ GivesUp(c)
    /\ Archive(c, "undelivered")
    /\ batch' = [batch EXCEPT ![i] = @ \ {c}]
    /\ UNCHANGED <<sending, request, link, wire, received, failures>>

\* The retry loop writes the row to the connection, if this instance has it.
RetryResends(i, c) ==
    /\ c \in batch[i] /\ sending[i] = Nil
    /\ ~GivesUp(c)
    /\ sending' = [sending EXCEPT ![i] = c]
    /\ batch' = [batch EXCEPT ![i] = @ \ {c}]
    /\ wire' = IF link = i THEN wire \cup {c.msg} ELSE wire
    /\ UNCHANGED <<outbox, history, ripe, request, link, received, failures>>

\* Mutant: the attempt is recorded without counting it.
RecordAttemptNoCount(i) ==
    /\ sending[i] # Nil
    /\ ripe' = IF IsPending(sending[i].msg) THEN ripe \ {sending[i].msg} ELSE ripe
    /\ sending' = [sending EXCEPT ![i] = Nil]
    /\ UNCHANGED <<outbox, history, batch, request, link, wire, received, failures>>
\* RecordAttempt: the count that was read, plus one, if the row is pending.
RecordAttempt(i) ==
    /\ sending[i] # Nil
    /\ LET m == sending[i].msg IN
         IF IsPending(m)
         THEN /\ outbox' = [outbox EXCEPT ![m] =
                              [status |-> "pending", attempts |-> sending[i].attempts + 1]]
              /\ ripe' = ripe \ {m}
         ELSE UNCHANGED <<outbox, ripe>>
    /\ sending' = [sending EXCEPT ![i] = Nil]
    /\ UNCHANGED <<history, batch, request, link, wire, received, failures>>

\* A client reads an envelope and confirms it at once, with the access token it
\* connected with.  The model lets the token be any user's: the server does not
\* rely on it being the addressee's.  When the request is lost, r is idle.
ClientReads(m, r, u) ==
    /\ m \in wire
    /\ request[r].stage = "idle"
    /\ wire' = wire \ {m}
    /\ received' = received \cup {<<m, u>>}
    /\ request' = [request EXCEPT ![r] = [stage |-> "asked", msg |-> m, user |-> u]]
    /\ UNCHANGED <<outbox, history, ripe, batch, sending, link, failures>>

AckLost(r) ==
    /\ request[r].stage = "asked"
    /\ failures < MaxFailures
    /\ failures' = failures + 1
    /\ request' = [request EXCEPT ![r] = [stage |-> "idle"]]
    /\ UNCHANGED <<outbox, history, ripe, batch, sending, link, wire, received>>

\* Mutant: the user who confirms is not compared with the addressee.
AckFindsAnyUser(m, u) == IsPending(m)
\* The record an ack finds: pending, and sent to the user who confirms it.  (The
\* code lets an empty user id pass; both ids come from tokens and are not empty.)
AckFinds(m, u) == IsPending(m) /\ Owner[m] = u

\* AckControlOutboundMessage, the read: the pending row of this user's message.
AckReads(r) ==
    /\ request[r].stage = "asked"
    /\ LET m == request[r].msg IN
         request' = [request EXCEPT ![r] =
             IF AckFinds(m, request[r].user)
             THEN [stage |-> "read", copy |-> [msg |-> m, attempts |-> outbox[m].attempts]]
             ELSE [stage |-> "idle"]]
    /\ UNCHANGED <<outbox, history, ripe, batch, sending, link, wire, received, failures>>

\* AckControlOutboundMessage, the update and the commit.  The update of a row
\* that is no longer pending changes nothing and is no error.
AckUpdates(r) ==
    /\ request[r].stage = "read"
    /\ LET m == request[r].copy.msg IN
         /\ outbox' = IF IsPending(m) THEN [outbox EXCEPT ![m].status = "acked"] ELSE outbox
         /\ ripe' = ripe \ {m}
    /\ request' = [request EXCEPT ![r].stage = "acked"]
    /\ UNCHANGED <<history, batch, sending, link, wire, received, failures>>

\* Ack, the second transaction.
AckArchives(r) ==
    /\ request[r].stage = "acked"
    /\ Archive(request[r].copy, "delivered")
    /\ request' = [request EXCEPT ![r] = [stage |-> "idle"]]
    /\ UNCHANGED <<batch, sending, link, wire, received, failures>>

\* The process or the database fails between the two transactions of Ack.
AckStops(r) ==
    /\ request[r].stage = "acked"
    /\ failures < MaxFailures
    /\ failures' = failures + 1
    /\ request' = [request EXCEPT ![r] = [stage |-> "idle"]]
    /\ UNCHANGED <<outbox, history, ripe, batch, sending, link, wire, received>>

\* The retry loop of i loses what it had read: the process restarts.
LoopRestarts(i) ==
    /\ failures < MaxFailures
    /\ batch[i] # {} \/ sending[i] # Nil
    /\ failures' = failures + 1
    /\ batch' = [batch EXCEPT ![i] = {}]
    /\ sending' = [sending EXCEPT ![i] = Nil]
    /\ link' = IF link = i THEN Nil ELSE link
    /\ wire' = IF link = i THEN {} ELSE wire
    /\ UNCHANGED <<outbox, history, ripe, request, received>>

\* The client connects to an instance, or loses its connection and with it
\* what was on the way.
Connect(i) ==
    /\ link = Nil
    /\ link' = i
    /\ UNCHANGED <<outbox, history, ripe, batch, sending, request, wire, received, failures>>

Disconnect ==
    /\ link # Nil
    /\ link' = Nil
    /\ wire' = {}
    /\ UNCHANGED <<outbox, history, ripe, batch, sending, request, received, failures>>

Loop(i) ==
    \/ ListRetryable(i)
    \/ \E c \in batch[i] : RetryGivesUp(i, c) \/ RetryResends(i, c)
    \/ RecordAttempt(i)

AckHandler(r) == AckReads(r) \/ AckUpdates(r) \/ AckArchives(r)

Next ==
    \/ \E m \in Messages, stored, written \in BOOLEAN : SendTracked(m, stored, written)
    \/ \E m \in Messages : Ripen(m)
    \/ \E i \in Instances : Loop(i) \/ LoopRestarts(i) \/ Connect(i)
    \/ \E m \in Messages, r \in Requests, u \in Users : ClientReads(m, r, u)
    \/ \E r \in Requests : AckHandler(r) \/ AckLost(r) \/ AckStops(r)
    \/ Disconnect

Spec == Init /\ [][Next]_vars

\* Time passes, the loops are driven by a ticker and an HTTP handler runs to
\* its end.  Nothing is assumed of the client or of its connection.
FairSpec ==
    /\ Spec
    /\ \A m \in Messages : WF_vars(Ripen(m))
    /\ \A i \in Instances : WF_vars(Loop(i))
    /\ \A r \in Requests : WF_vars(AckHandler(r))
-----------------------------------------------------------------------------
TypeOK ==
    /\ outbox \in [Messages -> Row \cup {Nil}]
    /\ history \in [Messages -> SUBSET HistoryRow]
    /\ ripe \subseteq Messages
    /\ batch \in [Instances -> SUBSET Copy]
    /\ sending \in [Instances -> Copy \cup {Nil}]
    /\ request \in [Requests -> Handler]
    /\ link \in Instances \cup {Nil}
    /\ wire \subseteq Messages
    /\ received \subseteq Messages \X Users
    /\ failures \in Nat

\* Archiving moves a row and never copies or recreates it: a message that an
\* instance or a handler still holds a copy of is in the outbox or in the
\* history, and no message is in both, so one that was given up or confirmed
\* is never sent again from the table.
RowsMove ==
    /\ \A m \in Messages : outbox[m] = Nil \/ history[m] = {}
    /\ \A i \in Instances :
          /\ \A c \in batch[i] : outbox[c.msg] # Nil \/ history[c.msg] # {}
          /\ sending[i] # Nil =>
               outbox[sending[i].msg] # Nil \/ history[sending[i].msg] # {}
    /\ \A r \in Requests : request[r].stage \in {"read", "acked"} =>
          outbox[request[r].copy.msg] # Nil \/ history[request[r].copy.msg] # {}

\* However stale the counts that concurrent loops write back, no row passes
\* MaxAttempts, and a row is given up only with MaxAttempts recorded.
AttemptsBounded ==
    /\ \A m \in Messages : outbox[m] # Nil => outbox[m].attempts \in 1 .. MaxAttempts
    /\ \A m \in Messages : \A h \in history[m] :
          h.final = "undelivered" => h.attempts = MaxAttempts

\* Through retries, duplicates, lost acks and acks with another user's token, a
\* message counts as delivered only if its addressee has read it.
DeliveredToOwner ==
    \A m \in Messages : \A h \in history[m] :
        h.final = "delivered" => <<m, Owner[m]>> \in received

\* Whatever is lost and whichever loops and acks race or restart, a message is
\* not retried forever: it is given up or confirmed.
RetriesEnd == \A m \in Messages : IsPending(m) ~> ~IsPending(m)
=============================================================================
