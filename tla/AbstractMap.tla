----------------------------- MODULE AbstractMap ----------------------------
(***************************************************************************)
(* What dict.c and rax.c promise to their callers: a map from keys to      *)
(* values and, for every kind of call, what it does to the map.            *)
(***************************************************************************)
CONSTANTS Keys, Absent

VARIABLE map

Init == map = [k \in Keys |-> Absent]

\* Insert with and without overwriting, delete, empty, and every other call.
Put(k, v) == map' = [map EXCEPT ![k] = v]
PutNew(k, v) == map' = IF map[k] = Absent THEN [map EXCEPT ![k] = v] ELSE map
Remove(k) == map' = [map EXCEPT ![k] = Absent]
Clear == map' = [k \in Keys |-> Absent]
Keep == map' = map
=============================================================================
