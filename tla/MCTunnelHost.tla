---------------------------- MODULE MCTunnelHost ----------------------------
(* Small instances of TunnelHost: a peer with two addresses, as after a      *)
(* reassignment, one of which this device may have had itself, and a device  *)
(* without an address.                                                       *)
EXTENDS TunnelHost, TLC
CONSTANTS a1, a2, ka, me
MCConfigs == {[ip |-> a1, key |-> ka, local |-> me], [ip |-> a2, key |-> ka, local |-> me],
              [ip |-> a1, key |-> ka, local |-> a1], NoConfig}
MCHosts == {[kind |-> "cli", backend |-> "linux"]}
           \cup {[kind |-> "helper", backend |-> b] : b \in {"memory", "windows", "dedicated"}}
\* Exchanging the processes is sound although one is the helper's: on a host
\* with the helper the other never runs, and on the others Main is not used.
Symmetric == Permutations(Secrets) \cup Permutations(Nodes) \cup Permutations(Procs)
=============================================================================
