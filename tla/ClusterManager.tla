---------------------------- MODULE ClusterManager --------------------------
(***************************************************************************)
(* redis-cli --cluster (redis-cli.c), the cluster manager.  Two state      *)
(* machines over the same variables: FixSpec is the repair of one slot,    *)
(* command by command; PlanSpec is what the tool computes for a whole      *)
(* cluster, where moving a slot is one step.                               *)
(***************************************************************************)
EXTENDS Integers, Sequences, FiniteSets, SequencesExt, FiniteSetsExt

CONSTANTS
    Keys,        \* the keys of the slot under repair
    Troubles,    \* what may happen to that slot: see FixInit
    SlotCount,   \* CLUSTER_MANAGER_SLOTS
    MaxSwaps,    \* a bound on the swaps of the optimizer
    Layouts      \* the clusters to create: see PlanInit

VARIABLES impl, aux

vars == <<impl, aux>>

-----------------------------------------------------------------------------
(***************************************************************************)
(* redis-cli --cluster reshard, check and fix (redis-cli.c) on one hash    *)
(* slot: the commands the tool sends to the masters one by one, what each  *)
(* does there (cluster.c), and the gossip that goes on meanwhile.  The     *)
(* tool works from the view it loaded when it started and can be stopped   *)
(* between any two commands.                                               *)
(*                                                                         *)
(* A master n is what it believes of the slot: owner[n], mig[n] (the node  *)
(* it migrates the slot to), imp[n] (the node it imports it from), the     *)
(* keys it holds, its table epoch[n] of config epochs and its cur[n], the  *)
(* currentEpoch.  None stands for a NULL node.  Every master owns other    *)
(* slots too and the cluster is in the OK state.                           *)
(***************************************************************************)

Nodes == 1 .. 3
None == 0
InOrder == <<1, 2, 3>>      \* cluster_manager.nodes

Command(c, n, m) == [cmd |-> c, n |-> n, m |-> m]

-----------------------------------------------------------------------------
(* What the commands do at a master.  s is the state of the masters; each  *)
(* operator gives [ok, s].                                                 *)

Ok(s) == [ok |-> TRUE, s |-> s]
Refuse(s) == [ok |-> FALSE, s |-> s]

MaxEpoch(s, n) == CHOOSE e \in {s.epoch[n][m] : m \in Nodes} \cup {s.cur[n]} :
                      \A m \in Nodes : s.epoch[n][m] <= e /\ s.cur[n] <= e

clusterBumpConfigEpochWithoutConsensus(s, n) ==
    LET max == MaxEpoch(s, n)
    IN IF s.epoch[n][n] # 0 /\ s.epoch[n][n] = max THEN s
       ELSE [s EXCEPT !.cur[n] = max + 1, !.epoch[n][n] = max + 1]

SetslotMigrating(s, n, m) ==
    IF s.owner[n] # n THEN Refuse(s) ELSE Ok([s EXCEPT !.mig[n] = m])

SetslotImporting(s, n, m) ==
    IF s.owner[n] = n THEN Refuse(s) ELSE Ok([s EXCEPT !.imp[n] = m])

SetslotStable(s, n) == Ok([s EXCEPT !.imp[n] = None, !.mig[n] = None])

SetslotNode(s, n, m) ==
    IF s.owner[n] = n /\ m # n /\ s.keys[n] # {} THEN Refuse(s)
    ELSE LET closed == [s EXCEPT !.mig[n] = IF s.keys[n] = {} THEN None ELSE @]
             bumped == IF m = n /\ s.imp[n] # None
                       THEN [clusterBumpConfigEpochWithoutConsensus(closed, n) EXCEPT !.imp[n] = None]
                       ELSE closed
         IN Ok([bumped EXCEPT !.owner[n] = m])

(* DELSLOTS.  The error of an unassigned slot is ignored.                  *)
clusterManagerDelSlot(s, n) ==
    Ok(IF s.owner[n] = None THEN s ELSE [s EXCEPT !.owner[n] = None, !.imp[n] = None])

(* MULTI, DELSLOTS, ADDSLOTS, STABLE if do_clear, BUMPEPOCH, EXEC.         *)
clusterManagerSetSlotOwner(s, n, do_clear) ==
    LET owned == [s EXCEPT !.owner[n] = n, !.imp[n] = None, !.mig[n] = IF do_clear THEN None ELSE @]
    IN Ok(clusterBumpConfigEpochWithoutConsensus(owned, n))

(* What getNodeByQuery says of MIGRATE at the source and RESTORE-ASKING at *)
(* the target.                                                             *)
Migrates(s, n) == s.owner[n] # None /\ (s.owner[n] = n \/ s.imp[n] # None)

Restores(s, m, k) ==
    \/ s.owner[m] = m /\ (s.mig[m] = None \/ k \in s.keys[m])
    \/ s.owner[m] \notin {m, None} /\ s.imp[m] # None

NotServed(s, n, m) == s.owner[n] = None \/ (Migrates(s, n) /\ s.owner[m] = None)

Moved(s, n, m, k) == [s EXCEPT !.keys[n] = @ \ {k}, !.keys[m] = @ \cup {k}]

(* One round of the loop of clusterManagerMigrateKeysInSlot, with one key. *)
MigrateKey(s, n, m, k, fix) ==
    LET allowed(t) == Migrates(t, n) /\ Restores(t, m, k)
        told == SetslotNode(s, n, m).s
    IN CASE allowed(s) /\ (k \notin s.keys[m] \/ fix) -> Ok(Moved(s, n, m, k))
         [] NotServed(s, n, m) /\ fix ->
              IF allowed(told) /\ k \notin told.keys[m] THEN Ok(Moved(told, n, m, k)) ELSE Refuse(told)
         [] OTHER -> Refuse(s)

Run(s, c) ==
    CASE c.cmd = "migrating" -> SetslotMigrating(s, c.n, c.m)
      [] c.cmd = "importing" -> SetslotImporting(s, c.n, c.m)
      [] c.cmd = "stable" -> SetslotStable(s, c.n)
      [] c.cmd = "node" -> SetslotNode(s, c.n, c.m)
      [] c.cmd = "del" -> clusterManagerDelSlot(s, c.n)
      [] c.cmd = "own" -> clusterManagerSetSlotOwner(s, c.n, FALSE)
      [] c.cmd = "ownclear" -> clusterManagerSetSlotOwner(s, c.n, TRUE)
      [] c.cmd = "bump" -> Ok(clusterBumpConfigEpochWithoutConsensus(s, c.n))

-----------------------------------------------------------------------------
(* Gossip.                                                                 *)

(* clusterUpdateSlotsConfigWith at n for a claim of m under epoch e: a     *)
(* master that loses the slot drops the keys it still has.                 *)
clusterUpdateSlotsConfigWith(s, n, m, e) ==
    IF /\ s.owner[n] # m /\ s.imp[n] = None
       /\ (IF s.owner[n] = None THEN TRUE ELSE s.epoch[n][s.owner[n]] < e)
    THEN [s EXCEPT !.owner[n] = m, !.keys[n] = IF s.owner[n] = n THEN {} ELSE @]
    ELSE s

clusterHandleConfigEpochCollision(s, n, m) ==
    IF s.epoch[n][m] # s.epoch[n][n] \/ m <= n THEN s
    ELSE [s EXCEPT !.cur[n] = @ + 1, !.epoch[n][n] = s.cur[n] + 1]

(* A ping of m reaches n.                                                  *)
Heard(s, n, m) ==
    LET known == [s EXCEPT !.epoch[n][m] = s.epoch[m][m],
                           !.cur[n] = IF s.cur[m] > @ THEN s.cur[m] ELSE @]
        bound == IF s.owner[m] = m THEN clusterUpdateSlotsConfigWith(known, n, m, s.epoch[m][m])
                 ELSE known
    IN clusterHandleConfigEpochCollision(bound, n, m)

(* m claims the slot in a ping to n, and n knows a newer owner: the UPDATE *)
(* message n answers with.                                                 *)
Corrected(s, n, m) ==
    LET x == s.owner[n]
    IN IF /\ s.owner[m] = m /\ x \notin {None, m, n}
          /\ s.epoch[n][x] > s.epoch[m][m] /\ s.epoch[n][x] > s.epoch[m][x]
       THEN clusterUpdateSlotsConfigWith([s EXCEPT !.epoch[m][x] = s.epoch[n][x]], m, x, s.epoch[n][x])
       ELSE s

Held(s) == UNION {s.keys[n] : n \in Nodes}

Settled(s) == \A n, m \in Nodes : n # m => Heard(s, n, m) = s /\ Corrected(s, n, m) = s

Agreed(s) == Settled(s) /\ \A n, m \in Nodes : s.owner[n] = s.owner[m]

Gossip(n, m) ==
    /\ n # m
    /\ impl.tool.phase = "idle" \/ aux.setup.chatty
    /\ \E t \in {Heard(impl.srv, n, m), Corrected(impl.srv, n, m)} \ {impl.srv} :
           /\ impl' = [impl EXCEPT !.srv = t]
           /\ aux' = IF aux.midway \/ aux.hasty
                      THEN [aux EXCEPT !.dropped = @ \cup (Held(impl.srv) \ Held(t))] ELSE aux

-----------------------------------------------------------------------------
(* The tool.  queue holds the commands it is committed to; phase says what *)
(* it computes once they are all done, result what it will return.         *)

srv == impl.srv
tool == impl.tool

Seen(n) == [claims |-> srv.owner[n] = n, mig |-> srv.mig[n],
            imp |-> IF srv.mig[n] = None THEN srv.imp[n] ELSE None]

clusterManagerIsConfigConsistent == \A n, m \in Nodes : srv.owner[n] = srv.owner[m]

Listed(P(_)) == SelectSeq(InOrder, P)
Without(seq, n) == SelectSeq(seq, LAMBDA x : x # n)
ForEach(seq, F(_)) == FlattenSeq([i \in 1 .. Len(seq) |-> F(seq[i])])

(* The first node of a list with the most keys.                            *)
clusterManagerGetNodeWithMostKeysInSlot(seq) ==
    seq[CHOOSE i \in 1 .. Len(seq) :
            /\ \A j \in 1 .. Len(seq) : Cardinality(srv.keys[seq[j]]) <= Cardinality(srv.keys[seq[i]])
            /\ \A j \in 1 .. i - 1 : Cardinality(srv.keys[seq[j]]) < Cardinality(srv.keys[seq[i]])]

(* clusterManagerMoveSlot, cold or not.                                    *)
MoveCold(src, dst) == <<Command("keys", src, dst)>>

clusterManagerMoveSlot(src, dst) ==
    <<Command("importing", dst, src), Command("migrating", src, dst), Command("keys", src, dst)>>
        \o [i \in 1 .. 3 |-> Command("node", InOrder[i], dst)]

Open(see) == \E n \in Nodes : see[n].mig # None \/ see[n].imp # None

Idle == [phase |-> "idle", queue |-> <<>>, see |-> [n \in Nodes |-> [claims |-> FALSE, mig |-> None, imp |-> None]],
         migrating |-> <<>>, importing |-> <<>>, owner |-> None, fix |-> FALSE, result |-> TRUE]

(* clusterManagerCommandReshard, of this slot: it refuses a cluster that   *)
(* does not pass the check.                                                *)
clusterManagerCommandReshard ==
    LET see == [n \in Nodes |-> Seen(n)]
    IN /\ tool.phase = "idle" /\ aux.reshards > 0
       /\ clusterManagerIsConfigConsistent /\ ~Open(see)
       /\ \E src, dst \in Nodes :
              /\ src # dst /\ see[src].claims
              /\ impl' = [impl EXCEPT !.tool = [Idle EXCEPT !.phase = "done", !.see = see,
                                                            !.queue = clusterManagerMoveSlot(src, dst)]]
       /\ aux' = [aux EXCEPT !.reshards = @ - 1, !.last = "reshard", !.hasty = ~Agreed(srv),
                             !.midway = @ /\ ~Agreed(srv)]

(* clusterManagerCommandFix: load the nodes, then clusterManagerCheckCluster. *)
clusterManagerCommandFix ==
    LET see == [n \in Nodes |-> Seen(n)]
    IN /\ tool.phase = "idle" /\ aux.fixes > 0
       /\ impl' = [impl EXCEPT !.tool = [Idle EXCEPT !.phase = IF Open(see) THEN "open" ELSE "cover",
                                                     !.see = see, !.fix = TRUE,
                                                     !.result = clusterManagerIsConfigConsistent]]
       /\ aux' = [aux EXCEPT !.fixes = @ - 1, !.last = "running",
                             !.hasty = ~Agreed(srv), !.midway = @ /\ ~Agreed(srv),
                             !.looked = Open(see) \/ aux.setup.owners,
                             !.astray = \E n \in Nodes : /\ srv.owner[n] \notin {None, n}
                                                        /\ srv.imp[n] = None /\ srv.keys[n] # {}]

(* Another owner gives the slot up and is set as importing, so that it     *)
(* accepts MIGRATE.                                                        *)
Demote(n, owner) ==
    <<Command("del", n, None), Command("node", n, owner), Command("importing", n, owner)>>

(* clusterManagerFixOpenSlot up to its cases: who owns the slot, who is    *)
(* migrating and importing, and how one owner is made of several or none.  *)
FixOpenSlot ==
    LET see == tool.see
        owners == Listed(LAMBDA n : see[n].claims \/ srv.keys[n] # {})
        sole == IF Len(owners) = 1 THEN owners[1] ELSE None
        migrating == Listed(LAMBDA n : see[n].mig # None)
        importing == Listed(LAMBDA n : /\ see[n].mig = None
                                       /\ see[n].imp # None \/ (n # sole /\ srv.keys[n] # {}))
        owner == IF sole # None THEN sole ELSE clusterManagerGetNodeWithMostKeysInSlot(InOrder)
        others == IF Len(owners) > 1 THEN Without(owners, owner) ELSE <<>>
        chosen == IF sole # None THEN <<>>
                  ELSE <<Command("stable", owner, None), Command("own", owner, None),
                         Command("bump", owner, None)>>
        isOther(n) == \E i \in 1 .. Len(others) : others[i] = n
        drop(seq) == SelectSeq(IF sole = None THEN Without(seq, owner) ELSE seq, LAMBDA n : ~isOther(n))
    IN /\ tool.phase = "open" /\ tool.queue = <<>>
       /\ impl' = [impl EXCEPT !.tool =
              [@ EXCEPT !.phase = "case", !.owner = owner, !.result = TRUE,
                        !.queue = chosen \o ForEach(others, LAMBDA n : Demote(n, owner)),
                        !.migrating = drop(migrating),
                        !.importing = drop(importing) \o others,
                        !.see = [n \in Nodes |-> [see[n] EXCEPT !.claims =
                                    IF sole = None /\ n = owner THEN TRUE ELSE @ /\ ~isOther(n)]]]]
       /\ UNCHANGED aux

(* The four cases of clusterManagerFixOpenSlot.  Each is the commands it   *)
(* sends; a slot none of them fits cannot be fixed.                        *)
Case1 ==
    LET src == tool.migrating[1]
        dst == tool.importing[1]
    IN clusterManagerMoveSlot(src, dst) \o <<Command("update", src, dst)>>

Case2Open ==
    LET away == Without(tool.importing, tool.owner)
    IN ForEach(away, LAMBDA n : MoveCold(n, tool.owner))
           \o ForEach(Without(InOrder, tool.owner), LAMBDA n : <<Command("node", n, tool.owner)>>)

Case2 ==
    LET away == Without(tool.importing, tool.owner)
    IN ForEach(away, LAMBDA n : MoveCold(n, tool.owner) \o <<Command("stable", n, None)>>)
           \o ForEach(Without(InOrder, tool.owner), LAMBDA n : <<Command("node", n, tool.owner)>>)

Case3 ==
    LET src == tool.migrating[1]
        dst == tool.see[src].mig
        close(seq) == ForEach(seq, LAMBDA n : <<Command("stable", n, None)>>)
    IN IF \E i \in 1 .. Len(tool.importing) : tool.importing[i] = dst
       THEN clusterManagerMoveSlot(src, dst) \o close(Without(tool.importing, dst))
       ELSE close(<<src>> \o tool.importing)

Case4 == <<Command("stable", tool.migrating[1], None)>>

FixCases ==
    LET mig == Len(tool.migrating)
        imp == Len(tool.importing)
        send(queue) == [tool EXCEPT !.phase = "cover", !.queue = queue]
    IN /\ tool.phase = "case" /\ tool.queue = <<>>
       /\ impl' = [impl EXCEPT !.tool =
              CASE mig = 1 /\ imp = 1 -> send(Case1)
                [] mig = 0 /\ imp > 0 -> send(Case2)
                [] mig = 1 /\ imp > 1 /\ (\A i \in 1 .. imp : srv.keys[tool.importing[i]] = {}) -> send(Case3)
                [] mig = 1 /\ imp = 0 /\ (tool.owner = tool.migrating[1] \/ srv.keys[tool.migrating[1]] = {}) ->
                     send(Case4)
                [] OTHER -> [send(<<>>) EXCEPT !.result = FALSE]]
       /\ UNCHANGED aux

(* clusterManagerFixSlotsCoverage, when no node of the view claims the     *)
(* slot: by the number of nodes that have keys of it.                      *)
FixSlotsCoverage ==
    LET holders == Listed(LAMBDA n : srv.keys[n] # {})
        covered == \E n \in Nodes : tool.see[n].claims
        gather(target) == <<Command("ownclear", target, None)>>
            \o ForEach(Without(holders, target), LAMBDA src :
                   <<Command("node", src, target), Command("importing", src, target)>>
                       \o MoveCold(src, target) \o <<Command("stable", src, None)>>)
        cover(n, queue) == [tool EXCEPT !.phase = "multi", !.queue = queue, !.result = TRUE,
                                        !.see[n].claims = TRUE]
    IN /\ tool.phase = "cover" /\ tool.queue = <<>>
       /\ \/ covered /\ impl' = [impl EXCEPT !.tool.phase = "multi"]
          \/ /\ ~covered /\ holders = <<>>       \* clusterManagerNodeMasterRandom
             /\ \E n \in Nodes : impl' = [impl EXCEPT !.tool = cover(n, <<Command("own", n, None)>>)]
          \/ /\ ~covered /\ Len(holders) = 1
             /\ impl' = [impl EXCEPT !.tool = cover(holders[1], <<Command("own", holders[1], None)>>)]
          \/ /\ ~covered /\ Len(holders) > 1
             /\ LET target == clusterManagerGetNodeWithMostKeysInSlot(holders)
                IN impl' = [impl EXCEPT !.tool = cover(target, gather(target))]
       /\ UNCHANGED aux

(* clusterManagerFixMultipleSlotOwners, with --cluster-search-multiple-owners. *)
FixMultipleSlotOwners ==
    LET owners == Listed(LAMBDA n : tool.see[n].claims \/ srv.keys[n] # {})
        owner == clusterManagerGetNodeWithMostKeysInSlot(owners)
        queue == <<Command("own", owner, None)>>
            \o ForEach(Without(InOrder, owner), LAMBDA n :
                   <<Command("del", n, None), Command("node", n, owner)>> \o MoveCold(n, owner))
    IN /\ tool.phase = "multi" /\ tool.queue = <<>>
       /\ impl' = [impl EXCEPT !.tool =
              IF aux.setup.owners /\ Len(owners) > 1
              THEN [@ EXCEPT !.phase = "done", !.queue = queue, !.result = TRUE]
              ELSE [@ EXCEPT !.phase = "done"]]
       /\ UNCHANGED aux

(* The next command of the queue.  The first one that fails ends the phase.*)
Send ==
    LET c == Head(tool.queue)
        keys == srv.keys[c.n]
        after(r, rest) == [impl EXCEPT !.srv = r.s,
                                       !.tool = IF r.ok THEN [@ EXCEPT !.queue = rest]
                                                ELSE [@ EXCEPT !.queue = <<>>, !.result = FALSE,
                                                               !.phase = IF @ = "case" THEN "cover" ELSE @]]
    IN /\ tool.queue # <<>>
       /\ \/ /\ c.cmd = "keys" /\ keys = {}
             /\ impl' = [impl EXCEPT !.tool.queue = Tail(@)]
          \/ /\ c.cmd = "keys"
             /\ \E k \in keys : impl' = after(MigrateKey(srv, c.n, c.m, k, tool.fix), tool.queue)
          \/ /\ c.cmd = "update"
             /\ impl' = [impl EXCEPT !.tool.queue = Tail(@), !.tool.see[c.n].claims = FALSE,
                                     !.tool.see[c.m].claims = TRUE]
          \/ /\ c.cmd \notin {"keys", "update"}
             /\ impl' = after(Run(srv, c), Tail(tool.queue))
       /\ aux' = IF c.cmd \in {"own", "ownclear"} THEN [aux EXCEPT !.midway = TRUE] ELSE aux

Done ==
    /\ tool.phase = "done" /\ tool.queue = <<>>
    /\ impl' = [impl EXCEPT !.tool = Idle]
    /\ aux' = IF tool.fix THEN [aux EXCEPT !.last = IF tool.result THEN "fixed" ELSE "unfixed",
                                            !.midway = @ /\ ~tool.result]
              ELSE aux

(* The operator stops the tool, or its connection breaks.                  *)
Interrupt ==
    /\ tool.phase # "idle" /\ aux.interrupts > 0
    /\ impl' = [impl EXCEPT !.tool = Idle]
    /\ aux' = [aux EXCEPT !.interrupts = @ - 1, !.last = "interrupted"]

FixInit ==
    \E u \in Troubles :
        /\ impl = [tool |-> Idle,
                   srv |-> [owner |-> [n \in Nodes |-> u.owner], keys |-> u.keys,
                            mig |-> u.mig, imp |-> u.imp,
                            epoch |-> [n \in Nodes |-> [m \in Nodes |-> m]], cur |-> [n \in Nodes |-> 3]]]
        /\ aux = [setup |-> u, reshards |-> u.reshards, fixes |-> u.fixes,
                  interrupts |-> u.interrupts, last |-> "none", hasty |-> FALSE, astray |-> FALSE,
                  midway |-> FALSE, looked |-> FALSE, dropped |-> {}]

FixNext ==
    \/ clusterManagerCommandReshard
    \/ clusterManagerCommandFix
    \/ FixOpenSlot
    \/ FixCases
    \/ FixSlotsCoverage
    \/ FixMultipleSlotOwners
    \/ Send
    \/ Done
    \/ Interrupt
    \/ \E n, m \in Nodes : Gossip(n, m)

FixSpec == FixInit /\ [][FixNext]_vars

-----------------------------------------------------------------------------
Healed(s) ==
    \E o \in Nodes :
        /\ \A n \in Nodes : s.owner[n] = o /\ s.mig[n] = None /\ s.imp[n] = None
        /\ aux.looked => \A n \in Nodes \ {o} : s.keys[n] = {}

(* A fix that was started when the masters agreed about the slot, ran to   *)
(* its end and reported success leaves, once the nodes have talked, one    *)
(* owner all masters agree on and a closed slot.  The keys are at the      *)
(* owner only, if the fix looked for them: it does so for an open slot,    *)
(* and for every slot under --cluster-search-multiple-owners.              *)
FixHeals ==
    aux.last = "fixed" /\ ~aux.hasty /\ tool.phase = "idle" /\ Settled(srv) => Healed(srv)

(* Reshards and fixes, stopped anywhere and run again, lose no key of the  *)
(* slot, but those a master drops when a heartbeat takes the slot from it: *)
(* between the steps of a fix that has made a new owner and has not yet    *)
(* demoted the old one, or in a run that started while the masters still   *)
(* disagreed about the owner.  A run by itself never loses a key.          *)
KeysKept == Held(srv) \cup aux.dropped = Keys

(* A fix that runs to its end fixes whatever an interrupted reshard or fix *)
(* left behind, unless it started while the masters disagreed, or a master *)
(* that neither owns nor imports the slot holds keys of it: that master    *)
(* redirects the MIGRATE the fix sends it.                                 *)
FixSucceeds == aux.last = "unfixed" => aux.hasty \/ aux.astray

-----------------------------------------------------------------------------
(***************************************************************************)
(* The plans of redis-cli --cluster (redis-cli.c): how create hands out    *)
(* slots and replicas and improves their anti-affinity, how it makes the   *)
(* nodes take the configuration, what reshard and rebalance move, and how  *)
(* nodes are added and removed.                                            *)
(*                                                                         *)
(* Nodes are numbered in the order of the command line; host[n] is the IP  *)
(* of n.  slots[n] and replicate[n] are what the nodes are configured with *)
(* (0: a master), plan what the tool has computed and not sent yet, and    *)
(* knows[n] the nodes n has heard of.  A move of a slot is atomic here:    *)
(* FixSpec is about its steps.                                             *)
(***************************************************************************)

Slots == 0 .. SlotCount - 1
host == aux.setup.host
All == 1 .. Len(host) - aux.setup.spare    \* the nodes create is given
Ids == 1 .. Len(host)                      \* and those add-node may add
Replicas == aux.setup.replicas
MastersCount == Cardinality(All) \div (Replicas + 1)

-----------------------------------------------------------------------------
(* clusterManagerCommandCreate: who gets what.                             *)

Hosts == LET first(i) == \A j \in 1 .. i - 1 : host[j] # host[i]
         IN [k \in 1 .. Cardinality({i \in All : first(i)}) |->
                host[SetToSortSeq({i \in All : first(i)}, <)[k]]]

OnHost(h) == SelectSeq([i \in All |-> i], LAMBDA n : host[n] = h)

(* The nodes, one of each host in turn.                                    *)
Interleaved ==
    FlattenSeq([r \in All |->
        FlattenSeq([i \in 1 .. Len(Hosts) |->
            IF r <= Len(OnHost(Hosts[i])) THEN <<OnHost(Hosts[i])[r]>> ELSE <<>>])])

Masters == SubSeq(Interleaved, 1, MastersCount)

(* The last slot of the i-th master: lround(cursor + slots_per_node - 1).  *)
LastSlot(i) ==
    IF i = MastersCount THEN SlotCount - 1
    ELSE (2 * i * SlotCount - MastersCount) \div (2 * MastersCount)

FirstSlotShared(i) == IF i = 1 THEN 0 ELSE LastSlot(i - 1)

FirstSlot(i) == IF i = 1 THEN 0 ELSE LastSlot(i - 1) + 1

SlotsOf(n) ==
    UNION {FirstSlot(i) .. LastSlot(i) : i \in {j \in 1 .. MastersCount : Masters[j] = n}}

(* A replica for master m: the first node left on another host, else the   *)
(* first node left.                                                        *)
AssignOne(acc, m) ==
    IF acc.left = <<>> THEN acc
    ELSE LET other == SelectSeq(acc.left, LAMBDA n : host[n] # host[m])
             slave == IF other # <<>> THEN other[1] ELSE acc.left[1]
         IN [left |-> SelectSeq(acc.left, LAMBDA n : n # slave),
             replicate |-> [acc.replicate EXCEPT ![slave] = m]]

Rotated(seq) == IF seq = <<>> THEN seq ELSE Append(Tail(seq), Head(seq))

(* Replicas for each master, then one more pass over the masters for the   *)
(* nodes that are left.                                                    *)
AssignReplicas ==
    LET rest == SubSeq(Interleaved, MastersCount + 1, Len(Interleaved))
        turns == FlattenSeq([i \in 1 .. MastersCount |-> [j \in 1 .. Replicas |-> Masters[i]]])
    IN FoldLeft(AssignOne, [left |-> Rotated(rest), replicate |-> [n \in All |-> 0]],
                turns \o Masters).replicate

-----------------------------------------------------------------------------
(* The anti-affinity of a layout rep.                                      *)

(* The string of types of master m on host h.  A master is written after   *)
(* the types found before it, together with a copy of them.                *)
Types(rep, h, m) ==
    FoldLeft(LAMBDA types, n : IF rep[n] = 0 THEN types \o <<"m">> \o types ELSE Append(types, "s"),
             <<>>, SelectSeq(OnHost(h), LAMBDA n : rep[n] = m \/ (rep[n] = 0 /\ n = m)))

TypesScore(types) ==
    IF Len(types) < 2 THEN 0 ELSE IF types[1] = "m" THEN 10000 * (Len(types) - 1) ELSE Len(types)

clusterManagerGetAntiAffinityScore(rep) ==
    MapThenSumSet(LAMBDA p : TypesScore(Types(rep, p[1], p[2])), ToSet(Hosts) \X All)

(* For each crowded pair of a host and a master, the first such replica.   *)
Offenders(rep) ==
    {n \in All : /\ rep[n] # 0
                 /\ Len(Types(rep, host[n], rep[n])) >= 2
                 /\ \A k \in 1 .. n - 1 : ~(rep[k] = rep[n] /\ host[k] = host[n])}

Swapped(rep, a, b) == [rep EXCEPT ![a] = rep[b], ![b] = rep[a]]

SwapUnlessWorse(rep, a, b) ==
    LET new == Swapped(rep, a, b)
    IN IF clusterManagerGetAntiAffinityScore(new) > clusterManagerGetAntiAffinityScore(rep)
       THEN rep ELSE new

(* One round of clusterManagerOptimizeAntiAffinity.                        *)
OptimizeAntiAffinity ==
    /\ impl.phase = "optimize" /\ impl.swaps < MaxSwaps
    /\ clusterManagerGetAntiAffinityScore(impl.plan) > 0
    /\ \E a \in Offenders(impl.plan), b \in {n \in All : impl.plan[n] # 0} :
           /\ a # b
           /\ impl' = [impl EXCEPT !.plan = SwapUnlessWorse(@, a, b), !.swaps = @ + 1]
    /\ UNCHANGED aux

-----------------------------------------------------------------------------
(* create, continued: the nodes take their configuration.                  *)

(* The masters take their slots; a replica does not know its master yet,   *)
(* and stays dirty.  Then all nodes meet the first.  The news of all but   *)
(* one, the last master to join, has spread already.                       *)
FlushNodeConfig ==
    /\ impl.phase = "optimize"
    /\ \/ clusterManagerGetAntiAffinityScore(impl.plan) = 0
       \/ impl.swaps = MaxSwaps
       \/ Cardinality({n \in All : impl.plan[n] # 0}) < 2
    /\ \E late \in {n \in All : impl.plan[n] = 0} :
           impl' = [impl EXCEPT !.phase = "join", !.swaps = 0,
                                !.slots = [n \in Ids |-> IF n \in All THEN SlotsOf(n) ELSE {}],
                                !.knows = [n \in All |-> IF n \in {1, late} THEN All ELSE All \ {late}]]
    /\ UNCHANGED aux

(* A node hears of another one from a node it knows, or from itself.       *)
Hears(n, m) ==
    /\ impl.phase = "join" /\ m \notin impl.knows[n]
    /\ \E x \in impl.knows[n] \cup {m} : m \in impl.knows[x] /\ (x = m => n \in impl.knows[m])
    /\ impl' = [impl EXCEPT !.knows[n] = @ \cup {m}]
    /\ UNCHANGED aux

(* Every node knows the same owners of slots.                              *)
IsConfigConsistent ==
    LET signature(n) == {m \in impl.knows[n] : impl.slots[m] # {}}
    IN \A n \in All : signature(n) = signature(1)

(* clusterManagerWaitForClusterJoin, then CLUSTER REPLICATE at the nodes   *)
(* that are still dirty: it fails where the master is unknown.             *)
FlushReplicas ==
    /\ impl.phase = "join" /\ IsConfigConsistent
    /\ impl' = [impl EXCEPT !.phase = "up",
                            !.replicate = [n \in Ids |-> IF n \in All /\ impl.plan[n] \in impl.knows[n]
                                                         THEN impl.plan[n] ELSE 0],
                            !.knows = [n \in All |-> All],
                            !.members = All]
    /\ UNCHANGED aux

-----------------------------------------------------------------------------
(* reshard and rebalance.                                                  *)

MasterSeq == SelectSeq([i \in Ids |-> i], LAMBDA n : n \in impl.members /\ impl.replicate[n] = 0)

Lowest(S, k) == {x \in S : Cardinality({y \in S : y < x}) < k}

(* a / b * c in float: when b divides a * c and not a, the result may lie  *)
(* a little above or below the integer.                                    *)
Inexact(a, b, c) == c > 0 /\ (a * c) % b = 0 /\ a % b # 0

(* clusterManagerComputeReshardTable: the slots each source gives, the     *)
(* largest source first.  Its share is rounded up, the others' down; the   *)
(* quotient of a source in off lies on the other side of an integer.  No   *)
(* more than numslots are taken.                                           *)
Share(n, first, numslots, tot, off) ==
    LET part == numslots * Cardinality(impl.slots[n])
        e == IF n \in off THEN 1 ELSE 0
    IN IF first THEN (part + tot - 1) \div tot + e ELSE part \div tot - e

TableSize(table) == FoldLeft(LAMBDA acc, item : acc + Cardinality(item.slots), 0, table)

ReshardTable(sources, numslots, off) ==
    LET size(n) == Cardinality(impl.slots[n])
        tot == MapThenSumSet(size, sources)
        sorted == SetToSortSeq(sources, LAMBDA a, b : size(a) > size(b) \/ (size(a) = size(b) /\ a < b))
        give(table, n) == Min({Share(n, table = <<>>, numslots, tot, off), numslots - TableSize(table)})
    IN FoldLeft(LAMBDA table, n : Append(table, [src |-> n, slots |-> Lowest(impl.slots[n], give(table, n))]),
                <<>>, sorted)

SlotsMoved(slots, src, dst, S) == [slots EXCEPT ![src] = @ \ S, ![dst] = @ \cup S]

ReshardByPlan ==
    /\ impl.phase = "up" /\ aux.ops > 0
    /\ \E dst \in ToSet(MasterSeq), numslots \in 1 .. SlotCount :
          \E sources \in SUBSET (ToSet(MasterSeq) \ {dst}) :
              LET tot == MapThenSumSet(LAMBDA n : Cardinality(impl.slots[n]), sources)
              IN /\ tot > 0
                 /\ \E off \in SUBSET {n \in sources : Inexact(numslots, tot, Cardinality(impl.slots[n]))} :
                       LET table == ReshardTable(sources, numslots, off)
                       IN /\ impl' = [impl EXCEPT !.slots =
                                 FoldLeft(LAMBDA acc, item : SlotsMoved(acc, item.src, dst, item.slots), @, table)]
                          /\ aux' = [aux EXCEPT !.ops = @ - 1,
                                                !.last = [op |-> "reshard", asked |-> numslots, of |-> tot,
                                                          sources |-> Len(table), moved |-> TableSize(table)]]

RECURSIVE Evened(_, _, _)
(* The nodes that receive slots receive what the rounding left over.       *)
Evened(bal, total, seq) ==
    LET round == FoldLeft(LAMBDA acc, n : IF acc.b[n] <= 0 /\ acc.t > 0
                                          THEN [b |-> [acc.b EXCEPT ![n] = @ - 1], t |-> acc.t - 1] ELSE acc,
                          [b |-> bal, t |-> total], seq)
    IN IF total <= 0 THEN bal ELSE Evened(round.b, round.t, seq)

RECURSIVE Matched(_, _, _, _)
(* The node with the least balance receives from the one with the most.    *)
Matched(slots, bal, seq, stop) ==
    IF Len(seq) < 2 \/ stop THEN [slots |-> slots, failed |-> stop]
    ELSE LET dst == seq[1]
             src == seq[Len(seq)]
             abs(x) == IF x < 0 THEN -x ELSE x
             k == IF abs(bal[dst]) < abs(bal[src]) THEN abs(bal[dst]) ELSE abs(bal[src])
             give == Lowest(slots[src], k)
             b == [bal EXCEPT ![dst] = @ + k, ![src] = @ - k]
         IN Matched(IF k > 0 THEN SlotsMoved(slots, src, dst, give) ELSE slots, b,
                    SubSeq(seq, IF b[dst] = 0 THEN 2 ELSE 1, IF b[src] = 0 THEN Len(seq) - 1 ELSE Len(seq)),
                    Cardinality(give) # k)

Expected(weight, total_weight) == (SlotCount * weight) \div total_weight

(* The rounding makes up for the balances that do not add up to zero by    *)
(* those that are not positive: with none of them the loop does not end.   *)
clusterManagerCommandRebalance ==
    /\ impl.phase = "up" /\ aux.ops > 0 /\ aux.setup.threshold > 0
    /\ \E weight \in aux.setup.weights, use_empty \in BOOLEAN :
         LET size(n) == Cardinality(impl.slots[n])
             involved == SelectSeq(MasterSeq, LAMBDA n : use_empty \/ size(n) > 0)
             nodes == ToSet(involved)
             total_weight == MapThenSumSet(LAMBDA n : weight[n], nodes)
         IN /\ total_weight > 0
            /\ \E low \in SUBSET {n \in nodes : Inexact(SlotCount, total_weight, weight[n])} :
                 LET expected == [n \in nodes |-> Expected(weight[n], total_weight) - IF n \in low THEN 1 ELSE 0]
                     off(n) == IF size(n) > expected[n] THEN size(n) - expected[n] ELSE expected[n] - size(n)
                     over(n) == IF size(n) > 0 THEN 100 * off(n) > aux.setup.threshold * size(n) ELSE expected[n] > 1
                     balance == [n \in nodes |-> size(n) - expected[n]]
                     bal == Evened(balance, MapThenSumSet(LAMBDA n : balance[n], nodes), involved)
                     sorted == SetToSortSeq(nodes, LAMBDA a, b : bal[a] < bal[b] \/ (bal[a] = bal[b] /\ a < b))
                     done == Matched(impl.slots, bal, sorted, FALSE)
                 IN /\ \E n \in nodes : over(n)
                    /\ \E n \in nodes : balance[n] <= 0
                    /\ impl' = [impl EXCEPT !.slots = done.slots]
                    /\ aux' = [aux EXCEPT !.ops = @ - 1,
                                          !.last = [op |-> "rebalance", expected |-> expected,
                                                    failed |-> done.failed]]

-----------------------------------------------------------------------------
(* add-node and del-node.                                                  *)

(* The first master with the fewest replicas.                              *)
clusterManagerNodeWithLeastReplicas ==
    LET count(m) == Cardinality({n \in impl.members : impl.replicate[n] = m})
    IN CHOOSE m \in ToSet(MasterSeq) :
           \A x \in ToSet(MasterSeq) : count(m) < count(x) \/ (count(m) = count(x) /\ m <= x)

clusterManagerCommandAddNode ==
    /\ impl.phase = "up" /\ aux.ops > 0
    /\ \E n \in Ids \ (impl.members \cup impl.removed), master \in {0, clusterManagerNodeWithLeastReplicas} \cup ToSet(MasterSeq) :
           impl' = [impl EXCEPT !.members = @ \cup {n}, !.replicate[n] = master, !.slots[n] = {}]
    /\ aux' = [aux EXCEPT !.ops = @ - 1, !.last = [op |-> "add"]]

(* del-node: every other node is told to forget the node, its replicas     *)
(* after they are given another master.  A replica does not forget its     *)
(* master: the command then stops, and what the others forgot they hear of *)
(* again.                                                                  *)
clusterManagerCommandDeleteNode ==
    /\ impl.phase = "up" /\ aux.ops > 0
    /\ \E node \in impl.members :
          LET master == clusterManagerNodeWithLeastReplicas
              orphans == {n \in impl.members : impl.replicate[n] = node}
              fails == orphans # {} /\ master = node
          IN /\ impl.slots[node] = {} /\ impl.members # {node}
             /\ impl' = IF fails THEN impl
                        ELSE [impl EXCEPT !.members = @ \ {node}, !.removed = @ \cup {node},
                                          !.replicate = [n \in Ids |-> IF n \in orphans THEN master ELSE @[n]]]
             /\ aux' = [aux EXCEPT !.ops = @ - 1, !.last = [op |-> "delete", failed |-> fails]]

-----------------------------------------------------------------------------
PlanInit ==
    \E u \in Layouts :
        /\ aux = [setup |-> u, ops |-> u.ops, last |-> [op |-> "none"]]
        /\ impl = [phase |-> "optimize", plan |-> AssignReplicas, swaps |-> 0, knows |-> [n \in All |-> {n}],
                   slots |-> [n \in Ids |-> {}], replicate |-> [n \in Ids |-> 0], members |-> {}, removed |-> {}]

PlanNext ==
    \/ OptimizeAntiAffinity
    \/ FlushNodeConfig
    \/ \E n, m \in All : Hears(n, m)
    \/ FlushReplicas
    \/ ReshardByPlan
    \/ clusterManagerCommandRebalance
    \/ clusterManagerCommandAddNode
    \/ clusterManagerCommandDeleteNode

PlanSpec == PlanInit /\ [][PlanNext]_vars

-----------------------------------------------------------------------------
Up == impl.phase = "up"
Size(n) == Cardinality(impl.slots[n])
MasterSet == {n \in impl.members : impl.replicate[n] = 0}

(* Whatever create, reshard, rebalance and del-node do, every slot has     *)
(* exactly one owner, which is a master of the cluster, and a replica      *)
(* follows one of them, also when its master was removed; and create gives *)
(* the masters the same number of slots, up to one.                        *)
SlotsPartitioned ==
    Up => /\ \A s \in Slots : Cardinality({n \in MasterSet : s \in impl.slots[n]}) = 1
          /\ \A n \in Ids \ MasterSet : impl.slots[n] = {}
          /\ \A n \in impl.members \ MasterSet : impl.replicate[n] \in MasterSet
          /\ aux.last.op = "none" =>
                 \A n, m \in MasterSet : Size(n) > 0 /\ Size(m) > 0 => Size(n) <= Size(m) + 1

(* The cluster that create built has every node it was given: a master     *)
(* with slots, or a replica of one, and no master has fewer replicas than  *)
(* asked for.  It needs no more left over nodes than masters: each master  *)
(* gets one of them, and what then remains has neither slots nor a master. *)
CreateComplete ==
    Up /\ aux.last.op = "none" /\ Cardinality(All) <= MastersCount * (Replicas + 2) =>
        \A n \in All :
            IF impl.replicate[n] = 0
            THEN /\ impl.slots[n] # {}
                 /\ Cardinality({r \in All : impl.replicate[r] = n}) >= Replicas
            ELSE impl.slots[impl.replicate[n]] # {}

(* The score of a layout tells a replica on the host of its master from    *)
(* two replicas on one host, the master being always the first of its host *)
(* in the lists the score is computed from; and where the score is not     *)
(* zero there is a replica to swap.                                        *)
ScoreTellsHosts ==
    impl.phase = "optimize" =>
        LET score == clusterManagerGetAntiAffinityScore(impl.plan)
        IN /\ score >= 10000 <=> \E n \in All : impl.plan[n] # 0 /\ host[impl.plan[n]] = host[n]
           /\ score > 0 => Offenders(impl.plan) # {}

(* A reshard moves at most the slots it was asked for, and fewer only by   *)
(* the rounding of all sources but the first.                              *)
ReshardClose ==
    LET l == aux.last
    IN l.op = "reshard" => /\ l.moved <= l.asked
                           /\ l.asked <= l.of => l.asked - l.moved < l.sources

(* A rebalance finds the slots it counted, gives every node the share of   *)
(* its weight, and what the rounding leaves over is at most one slot per   *)
(* node.                                                                   *)
RebalanceEven ==
    LET l == aux.last
    IN l.op = "rebalance" =>
          /\ ~l.failed
          /\ \A n \in DOMAIN l.expected :
                 l.expected[n] <= Size(n) /\ Size(n) <= l.expected[n] + Cardinality(DOMAIN l.expected)
=============================================================================
