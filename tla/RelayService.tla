---------------------------- MODULE RelayService ----------------------------
(***************************************************************************)
(* What server-relay promises its clients, without its tables: under each  *)
(* session id there is either nobody, or a pact between two nodes of one    *)
(* network and the addresses of those of the two that are present.  A       *)
(* payload passes only between the present parties of one pact, and a pact  *)
(* ends when its last party leaves or when the relay forgets everything.    *)
(***************************************************************************)
CONSTANTS Nodes, Sids, Networks, Addrs, Payloads, NoPact, NoAddr

Pacts == [net : Networks, src : Nodes, dst : Nodes]

VARIABLES pact,      \* session id -> the pact, or NoPact
          present,   \* session id -> node -> address, or NoAddr
          delivery   \* the payloads handed over by the last step

vars == <<pact, present, delivery>>

Nobody == [p \in Nodes |-> NoAddr]

Init ==
    /\ pact = [sid \in Sids |-> NoPact]
    /\ present = [sid \in Sids |-> Nobody]
    /\ delivery = {}

\* A party of pact k arrives, or returns from another address.
Join(sid, k, p, a) ==
    /\ pact[sid] \in {NoPact, k}
    /\ p \in {k.src, k.dst}
    /\ pact' = [pact EXCEPT ![sid] = k]
    /\ present' = [present EXCEPT ![sid][p] = a]
    /\ delivery' = {}

\* A present party leaves; the last one ends the pact.
Leave(sid, p) ==
    /\ present[sid][p] # NoAddr
    /\ present' = [present EXCEPT ![sid][p] = NoAddr]
    /\ pact' = IF present'[sid] = Nobody THEN [pact EXCEPT ![sid] = NoPact] ELSE pact
    /\ delivery' = {}

\* What a present party p says reaches the other party q where q is present.
Exchange(sid, p, q, payload) ==
    /\ pact[sid] # NoPact
    /\ <<p, q>> \in {<<pact[sid].src, pact[sid].dst>>, <<pact[sid].dst, pact[sid].src>>}
    /\ present[sid][p] # NoAddr
    /\ present[sid][q] # NoAddr
    /\ delivery' = {[to |-> present[sid][q], sid |-> sid, from |-> p, payload |-> payload]}

\* The relay fails: every pact is forgotten, possibly just after a delivery.
Forget ==
    /\ pact' = [sid \in Sids |-> NoPact]
    /\ present' = [sid \in Sids |-> Nobody]

Quiet == delivery' = {} /\ UNCHANGED <<pact, present>>

Handover ==
    \E sid \in Sids, p, q \in Nodes, b \in Payloads : Exchange(sid, p, q, b)

Next ==
    \/ \E sid \in Sids, k \in Pacts, p \in Nodes, a \in Addrs : Join(sid, k, p, a)
    \/ \E sid \in Sids, p \in Nodes : Leave(sid, p)
    \/ Handover /\ UNCHANGED <<pact, present>>
    \/ Handover /\ Forget
    \/ delivery' = {} /\ Forget
    \/ Quiet

Spec == Init /\ [][Next]_vars
=============================================================================
