----------------------------- MODULE MCServices -----------------------------
(***************************************************************************)
(* Serving clients, commands blocked by modules, moving a slot between two  *)
(* nodes, and the cluster manager of redis-cli, each on an instance of its  *)
(* own: "part" says which a behaviour is about.                             *)
(***************************************************************************)
EXTENDS Integers, Sequences, FiniteSets

VARIABLES part, impl, ref, aux

vars == <<part, impl, ref, aux>>

(* Clients: publish and kill; block, pause and push; unblock and kill; fsync  *)
(* always with CLIENT REPLY; a script that runs too long.                    *)

Cmd(op, arg) == [op |-> op, arg |-> arg]
NoLimits == [hard |-> 0, soft |-> 0, secs |-> 0]
Sessions == {
  [wire |-> << <<Cmd("sub", "a"), Cmd("psub", {"a"}), Cmd("unsub", 0)>>,
               <<Cmd("pub", "a"), Cmd("pub", "a"), Cmd("kill", {1, 2})>> >>,
   channels |-> {"a"}, always |-> FALSE, limits |-> [hard |-> 3, soft |-> 1, secs |-> 0],
   budget |-> 2, away |-> {}],
  [wire |-> << <<Cmd("block", 0), Cmd("write", 0)>>,
               <<Cmd("pause", 0), Cmd("push", 0), Cmd("quit", 0)>>, <<Cmd("unblock", 1)>> >>,
   channels |-> {}, always |-> FALSE, limits |-> NoLimits, budget |-> 1, away |-> {3}],
  [wire |-> << <<Cmd("block", 0), Cmd("write", 0)>>, <<Cmd("unblock", 1), Cmd("kill", {1})>> >>,
   channels |-> {}, always |-> FALSE, limits |-> NoLimits, budget |-> 1, away |-> {}],
  [wire |-> << <<Cmd("write", 0), Cmd("write", 0), Cmd("write", 0)>>,
               <<Cmd("reply_skip", 0), Cmd("write", 0), Cmd("reply_off", 0), Cmd("reply_on", 0)>> >>,
   channels |-> {}, always |-> TRUE, limits |-> NoLimits, budget |-> 1, away |-> {}]} \cup
 {[wire |-> << <<Cmd("write", 0), Cmd("script", 0), Cmd("write", 0)>>,
               <<Cmd("write", 0), Cmd("block", 0)>> >>,
   channels |-> {}, always |-> b, limits |-> NoLimits, budget |-> 1, away |-> {}] : b \in BOOLEAN}

C == INSTANCE Clients WITH Setups <- Sessions, BufMax <- 1, MaxClients <- 2

(* Modules: two clients, two blocking commands. *)

M == INSTANCE ModuleBlock WITH Clients <- {1, 2}, MaxHandles <- 2

(* A slot with two keys: a fault; two clients; a key that expires; REPLACE. *)

Entry(v, x) == [v |-> v, exp |-> x]
Gone == [v |-> 0, exp |-> FALSE]
Moves == {
  [db |-> [k \in {"a", "b"} |-> Entry(-1, FALSE)], clients |-> {1}, left |-> 2, faults |-> 1,
   replace |-> FALSE, orders |-> {<<"a", "b">>}],
  [db |-> [k \in {"a", "b"} |-> IF k = "a" THEN Entry(-1, FALSE) ELSE Gone], clients |-> {1, 2},
   left |-> 1, faults |-> 0, replace |-> FALSE, orders |-> {<<"a", "b">>}],
  [db |-> [k \in {"a", "b"} |-> Entry(-1, k = "a")], clients |-> {1}, left |-> 1, faults |-> 0,
   replace |-> FALSE, orders |-> {<<"a", "b">>}],
  [db |-> [k \in {"a", "b"} |-> Entry(-1, FALSE)], clients |-> {1}, left |-> 2, faults |-> 1,
   replace |-> TRUE, orders |-> {<<"a", "b">>}]}

V == INSTANCE Migration WITH Keys <- {"a", "b"}, MaxWrites <- 2, Setups <- Moves

(* A slot that reshards, interrupted, leave open. *)

Quiet == [owner |-> 1, keys |-> <<{"a", "b"}, {}, {}>>, mig |-> <<0, 0, 0>>, imp |-> <<0, 0, 0>>,
          reshards |-> 1, fixes |-> 2, interrupts |-> 2, chatty |-> FALSE, owners |-> TRUE]
First == [Quiet EXCEPT !.reshards = 2]
Second == [First EXCEPT !.owner = 2, !.keys = <<{}, {"a", "b"}, {}>>]
\* Keys of a slot nobody owns.
Uncovered == {[Quiet EXCEPT !.owner = 0, !.keys = k] :
                k \in {<<{}, {"a", "b"}, {}>>, <<{"a"}, {"b"}, {}>>, <<{"a"}, {"a", "b"}, {"b"}>>}}
\* Keys a master found of a slot it does not own when it restarted.
Stray == {[Quiet EXCEPT !.owners = FALSE, !.keys = k,
                        !.imp = [n \in 1 .. 3 |-> IF n # 1 /\ k[n] # {} THEN 1 ELSE 0]] :
                k \in {<<{"a"}, {"b"}, {}>>, <<{"a", "b"}, {"b"}, {"a"}>>, <<{}, {"a", "b"}, {}>>}}
\* Slots opened by hand.
Opened == {[Quiet EXCEPT !.mig = m, !.imp = i] :
                m \in {<<2, 0, 0>>, <<3, 0, 0>>, <<0, 0, 0>>}, i \in {<<0, 0, 0>>, <<0, 1, 0>>, <<0, 1, 1>>}}
\* The nodes exchange heartbeats meanwhile.
Chatty == {[u EXCEPT !.chatty = TRUE, !.interrupts = 1] :
                u \in {Second, [Quiet EXCEPT !.owner = 0, !.keys = <<{"a"}, {"b"}, {}>>],
                       [Quiet EXCEPT !.mig = <<2, 0, 0>>, !.imp = <<0, 1, 1>>]}}

Troubles == {First, Second} \cup Uncovered \cup Stray \cup Opened \cup Chatty

(* Layouts: nodes on two and three hosts; reshard and rebalance with weights, *)
(* add and remove a node; empty a master and remove it.                       *)

Layout(h, r) == [host |-> h, replicas |-> r, spare |-> 0, ops |-> 0, weights |-> {}, threshold |-> 2]
Weights == {[n \in 1 .. 4 |-> 1], [n \in 1 .. 4 |-> IF n = 1 THEN 0 ELSE 1],
            [n \in 1 .. 4 |-> IF n = 2 THEN 2 ELSE 1], [n \in 1 .. 4 |-> IF n = 2 THEN 3 ELSE 0]}
Emptied == {[n \in 1 .. 6 |-> IF n = k THEN 0 ELSE 1] : k \in {1, 3}}
Layouts == {Layout(<<"x", "x", "y", "y", "z", "z">>, 1),
            Layout(<<"x", "x", "x", "y", "y", "y", "z">>, 1),
            Layout(<<"x", "x", "x", "x", "y", "z">>, 1),
            Layout(<<"x", "y", "x", "x", "y", "x", "y", "y", "x">>, 2),
            [Layout(<<"x", "y", "z", "x">>, 0) EXCEPT !.spare = 1, !.ops = 2, !.weights = Weights],
            [Layout(<<"x", "y", "z", "x", "y", "z">>, 1) EXCEPT !.ops = 2, !.weights = Emptied]}

X == INSTANCE ClusterManager WITH Keys <- {"a", "b"}, SlotCount <- 7, MaxSwaps <- 3

-----------------------------------------------------------------------------
Init ==
  \/ part = "clients" /\ C!Init /\ ref = {}
  \/ part = "modules" /\ M!Init /\ ref = {}
  \/ part = "migrate" /\ V!Init
  \/ part = "fix"     /\ X!FixInit /\ ref = {}
  \/ part = "plan"    /\ X!PlanInit /\ ref = {}

Next ==
  /\ UNCHANGED part
  /\ \/ part = "clients" /\ C!Next /\ UNCHANGED ref
     \/ part = "modules" /\ M!Next /\ UNCHANGED ref
     \/ part = "migrate" /\ V!Next
     \/ part = "fix"     /\ X!FixNext /\ UNCHANGED ref
     \/ part = "plan"    /\ X!PlanNext /\ UNCHANGED ref

Spec == Init /\ [][Next]_vars

-----------------------------------------------------------------------------
\* Clients (networking.c, pubsub.c, blocked.c, ae.c): queues, flags and the index of
\* subscribers agree, replies reach the client in order and none is stranded in a
\* buffer, no command is stranded in a query buffer, and with appendfsync always
\* no reply overtakes the flush (see the module's properties).
ClientsServed ==
  part = "clients" => /\ C!ListsSound /\ C!NoStrandedOutput /\ C!NoStrandedCommand
                      /\ C!RepliesInOrder /\ C!SyncBeforeReply

\* Commands blocked by modules (module.c): see ModuleBlock!BlockedSound.
BlockedSound == part = "modules" => M!BlockedSound

\* Moving a slot (cluster.c: MIGRATE, RESTORE, SETSLOT, redirections): no key is
\* lost or served from two nodes, a read sees the last write, a payload belongs to
\* its key, and a finished move leaves nothing open; where a failed MIGRATE left a
\* second copy of a key that a client then changed, only as far as the properties
\* say (Migration!NeverLost, OneServes, ReadsLatest, PayloadMatchesKey, MoveClosed).
MoveKeepsKeys ==
  part = "migrate" => /\ V!NeverLost /\ V!OneServes /\ V!ReadsLatest
                      /\ V!PayloadMatchesKey /\ V!MoveClosed

\* redis-cli --cluster reshard and fix, stopped anywhere and run again: a slot that a
\* fix reports as fixed has one owner, no key is lost but in the two ways KeysKept
\* names, and the tool gives up only on what FixSucceeds names
\* (ClusterManager!FixHeals, KeysKept, FixSucceeds).
FixRepairs == part = "fix" => X!FixHeals /\ X!KeysKept /\ X!FixSucceeds

\* redis-cli --cluster create, reshard, rebalance, add-node and del-node: the slots
\* are partitioned, the cluster created is the one planned, the score of a layout
\* tells whether hosts are shared, and reshard and rebalance move what was asked
\* (ClusterManager's properties of a plan).
PlanExact ==
  part = "plan" => /\ X!SlotsPartitioned /\ X!CreateComplete /\ X!ScoreTellsHosts
                   /\ X!ReshardClose /\ X!RebalanceEven
=============================================================================
