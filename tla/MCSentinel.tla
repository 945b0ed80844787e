----------------------------- MODULE MCSentinel -----------------------------
(* Sentinel for TLC: two Sentinels with two epochs; three Sentinels, one of  *)
(* them in TILT, which votes and does nothing else; two replicas.            *)
EXTENDS Sentinel, TLC
CONSTANTS s1, s2, s3, m, r1, r2
MCPriority == [r \in Instances |-> 1]
MCSetups ==
  {[group |-> {s1, s2}, redis |-> {m, r1}, tilted |-> {}, epochs |-> 1, trouble |-> 3],
   [group |-> {s1, s2}, redis |-> {m, r1}, tilted |-> {}, epochs |-> 2, trouble |-> 1],
   [group |-> {s1, s2, s3}, redis |-> {m, r1}, tilted |-> {s3}, epochs |-> 1, trouble |-> 1],
   [group |-> {s1, s2}, redis |-> {m, r1, r2}, tilted |-> {s2}, epochs |-> 1, trouble |-> 2]}
=============================================================================
