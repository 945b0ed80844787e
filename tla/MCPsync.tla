------------------------------ MODULE MCPsync ------------------------------
(* Psync for TLC: situations of two and three instances.                    *)
EXTENDS Psync, TLC

CONSTANTS n1, n2, n3

OneReplica == (n1 :> None) @@ (n2 :> n1)
Chain == (n1 :> None) @@ (n2 :> n1) @@ (n3 :> n2)

\* Two instances swap roles; one crashes and restarts; three in a chain.
SwapRoles == [replicaof |-> OneReplica, diskless |-> TRUE,
              writes |-> 2, reconf |-> 2, faults |-> 1, saves |-> 0, crashes |-> 0]
Restarts == [replicaof |-> OneReplica, diskless |-> FALSE,
             writes |-> 2, reconf |-> 1, faults |-> 0, saves |-> 1, crashes |-> 1]
InAChain == [replicaof |-> Chain, diskless |-> TRUE,
             writes |-> 1, reconf |-> 1, faults |-> 0, saves |-> 0, crashes |-> 0]

Situations == {SwapRoles, Restarts, InAChain}
=============================================================================
