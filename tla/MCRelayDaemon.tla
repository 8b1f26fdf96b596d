--------------------------- MODULE MCRelayDaemon ---------------------------
(* Small instances of RelayDaemon: two sessions, three nodes, one session id *)
(* that two different pairs claim, and tickets that fail each check.         *)
EXTENDS RelayDaemon

CONSTANTS n1, n2, n3, s1, s2, net1, net2

Good(sid, net, src, dst, exp) ==
    [sid |-> sid, net |-> net, src |-> src, dst |-> dst, exp |-> exp,
     filled |-> TRUE, here |-> TRUE, dated |-> TRUE, genuine |-> TRUE]

MCTickets ==
    LET base == Good(s1, net1, n1, n2, 1) IN
    { base,
      Good(s1, net2, n1, n3, 2),               \* the same id, other parties
      Good(s2, net1, n2, n2, 2),               \* a node paired with itself
      [base EXCEPT !.filled = FALSE], [base EXCEPT !.here = FALSE],
      [base EXCEPT !.dated = FALSE], [base EXCEPT !.genuine = FALSE] }
=============================================================================
