----------------------------- MODULE Migration ------------------------------
(***************************************************************************)
(* Moving a hash slot from one master to another while clients use it      *)
(* (cluster.c): the routing of commands (getNodeByQuery and its            *)
(* redirections), CLUSTER SETSLOT, MIGRATE with its retries and timeouts,  *)
(* RESTORE at the target, a restart (verifyClusterConfigWithData) and the  *)
(* redirection of blocked clients.                                         *)
(*                                                                         *)
(* There is one slot.  A node is what it believes of the slot and the keys *)
(* it holds; a key holds [v, exp], a value and whether it has a time to    *)
(* live, all of which run out together.  The source is blocked while       *)
(* MIGRATE runs; the target is not, and executes what it was sent even     *)
(* after the source gave up waiting.  ref is the value of each key after   *)
(* the commands executed so far.  None is the absent key.                  *)
(***************************************************************************)
EXTENDS Integers, Sequences, FiniteSets, SequencesExt

CONSTANTS
    Keys,       \* the keys of the slot
    MaxWrites,  \* a bound on the writes of clients
    Setups      \* what may happen: see Init

VARIABLES impl, ref, aux

vars == <<impl, ref, aux>>

Nodes == {"S", "T"}
None == [v |-> 0, exp |-> FALSE]
Idle == [phase |-> "idle"]

(* lookupKeyRead: an expired key is not found.                             *)
Lookup(n, k) ==
    IF impl.db[n][k].exp /\ aux.expired THEN None ELSE impl.db[n][k]

countKeysInSlot(n) == Cardinality({k \in Keys : impl.db[n][k] # None})

-----------------------------------------------------------------------------
(* Where a command is executed: the node itself, or a redirection.         *)

Me(n) == [to |-> n, why |-> "none"]

QueryMigrating(n) == impl.owner[n] = n /\ impl.migrating[n] # "no"
QueryImporting(n) == ~QueryMigrating(n) /\ impl.importing[n] # "no"

getNodeByQuery(n, ks, asking) ==
    LET missing == {k \in ks : Lookup(n, k) = None}
    IN IF QueryMigrating(n) /\ missing # {} THEN [to |-> impl.migrating[n], why |-> "ask"]
       ELSE IF QueryImporting(n) /\ asking
       THEN IF Cardinality(ks) > 1 /\ missing # {} THEN [to |-> n, why |-> "tryagain"] ELSE Me(n)
       ELSE IF impl.owner[n] = n THEN Me(n) ELSE [to |-> impl.owner[n], why |-> "moved"]

(* The source's thread is busy while it waits for the target.              *)
Runs(n) == n = "T" \/ impl.mg = Idle

-----------------------------------------------------------------------------
(* Clients.  One sends a command to a node and follows the redirections;   *)
(* it is asking after an ASK.  Commands read or write all of their keys.   *)

Start(c, op, ks) ==
    /\ impl.cl[c].op = "idle"
    /\ op # "get" => aux.writes < MaxWrites
    /\ impl' = [impl EXCEPT !.cl[c] = [op |-> op, ks |-> ks, at |-> @.at, asking |-> FALSE]]
    /\ aux' = IF op # "get" THEN [aux EXCEPT !.writes = @ + 1] ELSE aux
    /\ UNCHANGED ref

(* What executing the command does to the keys; a plain write drops a time *)
(* to live.                                                                *)
After(cl, n) ==
    LET new == IF cl.op = "set" THEN [v |-> aux.writes, exp |-> FALSE] ELSE None
    IN [k \in Keys |-> IF k \in cl.ks /\ cl.op # "get" THEN new ELSE impl.db[n][k]]

Execute(c) ==
    LET cl == impl.cl[c]
        n == cl.at
        route == getNodeByQuery(n, cl.ks, cl.asking)
        forks == {k \in cl.ks \cap aux.twice : n = "T" \/ cl.op = "del"}
        unsure == IF n = "T" /\ Cardinality(cl.ks) > 1 THEN aux.twice ELSE {}
        stale == \E k \in cl.ks \ (aux.forked \cup unsure) : Lookup(n, k).v # ref[k].v
    IN /\ cl.op \in {"get", "set", "del"} /\ Runs(n)
       /\ IF route.why # "none"
          THEN /\ impl' = [impl EXCEPT !.cl[c].at = route.to, !.cl[c].asking = (route.why \in {"ask", "tryagain"})]
               /\ UNCHANGED <<ref, aux>>
          ELSE /\ impl' = [impl EXCEPT !.db[n] = After(cl, n), !.cl[c].op = "idle"]
               /\ ref' = [k \in Keys |-> IF k \in cl.ks /\ cl.op # "get" THEN After(cl, n)[k] ELSE ref[k]]
               /\ aux' = IF cl.op = "get" THEN [aux EXCEPT !.stale = @ \/ stale]
                         ELSE [aux EXCEPT !.forked = @ \cup forks]

(* A client blocks on a missing key where the node serves it.              *)
Block(c) ==
    /\ impl.cl[c].op = "get" /\ Runs(impl.cl[c].at)
    /\ getNodeByQuery(impl.cl[c].at, impl.cl[c].ks, impl.cl[c].asking).why = "none"
    /\ \A k \in impl.cl[c].ks : Lookup(impl.cl[c].at, k) = None
    /\ impl' = [impl EXCEPT !.cl[c].op = "blocked"]
    /\ UNCHANGED <<ref, aux>>

(* clientsCron: a client blocked where the slot no longer is is told.      *)
clusterRedirectBlockedClientIfNeeded(c) ==
    LET n == impl.cl[c].at
    IN impl.owner[n] # n /\ impl.importing[n] = "no"

RedirectBlocked(c) ==
    /\ impl.cl[c].op = "blocked" /\ Runs(impl.cl[c].at)
    /\ clusterRedirectBlockedClientIfNeeded(c)
    /\ impl' = [impl EXCEPT !.cl[c] = [@ EXCEPT !.op = "get", !.at = impl.owner[@], !.asking = FALSE]]
    /\ UNCHANGED <<ref, aux>>

ServeBlocked(c) ==
    /\ impl.cl[c].op = "blocked" /\ Runs(impl.cl[c].at)
    /\ \E k \in impl.cl[c].ks : Lookup(impl.cl[c].at, k) # None
    /\ impl' = [impl EXCEPT !.cl[c].op = "idle"]
    /\ UNCHANGED <<ref, aux>>

-----------------------------------------------------------------------------
(* CLUSTER SETSLOT.  The operator closes the move only when the source has *)
(* no keys, and tells the target first, then the source (told); a move is  *)
(* cancelled, first at the target, only when nothing moved, and not begun  *)
(* again while an ASK may be outstanding.                                  *)

SetslotMigrating ==
    /\ Runs("S") /\ impl.owner["S"] = "S" /\ impl.migrating["S"] = "no" /\ ~aux.cancelled
    /\ impl' = [impl EXCEPT !.migrating["S"] = "T"]
    /\ UNCHANGED <<ref, aux>>

SetslotImporting ==
    /\ impl.owner["T"] # "T" /\ impl.importing["T"] = "no" /\ ~aux.cancelled
    /\ impl' = [impl EXCEPT !.importing["T"] = "S"]
    /\ UNCHANGED <<ref, aux>>

SetslotStable(n) ==
    /\ aux.left > 0 /\ impl.owner["T"] # "T" /\ Runs(n)
    /\ countKeysInSlot("T") = 0
    /\ n = "S" => impl.importing["T"] = "no"
    /\ impl.migrating[n] # "no" \/ impl.importing[n] # "no"
    /\ impl' = [impl EXCEPT !.importing[n] = "no", !.migrating[n] = "no"]
    /\ aux' = [aux EXCEPT !.left = @ - 1, !.cancelled = TRUE]
    /\ UNCHANGED ref

SetslotNode(n) ==
    /\ Runs(n) /\ n \notin aux.told
    /\ n = "T" => impl.importing["T"] = "S" /\ impl.migrating["S"] = "T" /\ countKeysInSlot("S") = 0
    /\ n = "S" => "T" \in aux.told
    /\ ~(impl.owner[n] = n /\ countKeysInSlot(n) # 0)
    /\ impl' = [impl EXCEPT !.owner[n] = "T",
                            !.migrating[n] = IF countKeysInSlot(n) = 0 THEN "no" ELSE @,
                            !.importing[n] = IF n = "T" THEN "no" ELSE @]
    /\ aux' = [aux EXCEPT !.told = @ \cup {n}]
    /\ UNCHANGED ref

(* The source hears of the new owner, with a greater epoch: it drops the   *)
(* keys it still has, and stays migrating.                                 *)
LearnOwner ==
    /\ impl.owner["T"] = "T" /\ impl.owner["S"] = "S" /\ Runs("S")
    /\ impl' = [impl EXCEPT !.owner["S"] = "T", !.db["S"] = [k \in Keys |-> None]]
    /\ UNCHANGED <<ref, aux>>

(* A node restarts with its keys and the configuration it saved.           *)
verifyClusterConfigWithData(n) ==
    /\ aux.left > 0 /\ impl.mg = Idle
    /\ impl' = [impl EXCEPT !.importing[n] = IF countKeysInSlot(n) # 0 /\ impl.owner[n] # n /\ @ = "no"
                                             THEN impl.owner[n] ELSE @,
                            !.line = IF n = "T" THEN <<>> ELSE @,
                            !.late = IF n = "T" THEN <<>> ELSE @,
                            !.cl = [c \in DOMAIN @ |-> IF @[c].at = n /\ @[c].op = "blocked"
                                                       THEN [@[c] EXCEPT !.op = "idle"] ELSE @[c]]]
    /\ aux' = [aux EXCEPT !.left = @ - 1]
    /\ UNCHANGED ref

ExpireKeys ==
    /\ ~aux.expired /\ \E n \in Nodes, k \in Keys : impl.db[n][k].exp
    /\ aux' = [aux EXCEPT !.expired = TRUE]
    /\ ref' = [k \in Keys |-> IF ref[k].exp THEN None ELSE ref[k]]
    /\ UNCHANGED impl

activeExpireCycle(n) ==
    /\ aux.expired /\ Runs(n) /\ \E k \in Keys : impl.db[n][k].exp
    /\ impl' = [impl EXCEPT !.db[n] = [k \in Keys |-> IF @[k].exp THEN None ELSE @[k]]]
    /\ UNCHANGED <<ref, aux>>

-----------------------------------------------------------------------------
(* MIGRATE.  kv and ov are the arrays of keys and of their values, found   *)
(* by the first lookup; a connection carries RESTORE commands, of which    *)
(* the target may execute some after the source closed it (late).  The     *)
(* operator moves keys after SETSLOT MIGRATING, and MIGRATE is then always *)
(* executed where it is sent.                                              *)

MigrateStart(ks) ==
    LET found == SelectSeq(ks, LAMBDA k : Lookup("S", k) # None)
    IN /\ impl.mg = Idle /\ aux.left > 0 /\ found # <<>>
       /\ QueryMigrating("S")
       /\ impl' = [impl EXCEPT !.mg = [phase |-> "try", kv |-> found, j |-> 0, retry |-> TRUE, failed |-> FALSE,
                                       ov |-> [i \in DOMAIN found |-> Lookup("S", found[i])]]]
       /\ aux' = [aux EXCEPT !.left = @ - 1]
       /\ UNCHANGED ref

(* The payloads.  Keys that expired meanwhile are skipped: the keys are    *)
(* relocated in kv, the values in ov are not.                              *)
Live(kv) == SelectSeq([i \in DOMAIN kv |-> i], LAMBDA i : ~(aux.expired /\ impl.db["S"][kv[i]].exp))

Payloads(mg) ==
    [i \in DOMAIN Live(mg.kv) |-> [k |-> mg.kv[Live(mg.kv)[i]], o |-> mg.ov[Live(mg.kv)[i]]]]

(* An attempt that is given up leaves copies of keys at the target: those  *)
(* restored, whose reply is not read any more, and those of the n commands *)
(* that still arrive.  A restored one that a client changed has forked.    *)
Unread(s) == {s.mg.kv[s.mg.j + i] : i \in {i \in DOMAIN s.replies : s.replies[i] = "ok"}}

GiveUp(s, n) ==
    [aux EXCEPT !.faults = @ - 1,
                !.twice = @ \cup Unread(s) \cup {s.line[i].k : i \in 1 .. n},
                !.forked = @ \cup {k \in Unread(s) : s.db["T"][k] # s.db["S"][k]}]

(* The socket is closed: of what was sent n commands still arrive.         *)
CloseSocket(s, n) == [s EXCEPT !.late = @ \o SubSeq(s.line, 1, n), !.line = <<>>, !.replies = <<>>]

(* socket_err: one retry, when nothing was read and it was not a timeout.  *)
SocketErr(s, n, timeout) ==
    IF s.mg.retry /\ ~timeout /\ s.mg.j = 0
    THEN [CloseSocket(s, n) EXCEPT !.mg.phase = "try", !.mg.retry = FALSE]
    ELSE [CloseSocket(s, n) EXCEPT !.mg = Idle]

MigrateWrite ==
    LET cmds == Payloads(impl.mg)
        keys == [i \in DOMAIN cmds |-> cmds[i].k]
        built == [impl EXCEPT !.mg.phase = "read", !.mg.kv = keys, !.line = cmds, !.replies = <<>>]
        wrong == \E i \in DOMAIN cmds : cmds[i].o # impl.db["S"][cmds[i].k]
    IN /\ impl.mg # Idle /\ impl.mg.phase = "try"
       /\ \/ /\ impl' = IF cmds = <<>> THEN [impl EXCEPT !.mg = Idle] ELSE built
             /\ aux' = [aux EXCEPT !.wrong = @ \/ wrong]
          \/ /\ aux.faults > 0 /\ cmds # <<>>
             /\ \E n \in 0 .. Len(cmds) - 1, timeout \in BOOLEAN :
                   /\ impl' = SocketErr(built, n, timeout)
                   /\ aux' = [GiveUp(built, n) EXCEPT !.wrong = @ \/ wrong]
       /\ UNCHANGED ref

(* A reply: the key is moved, or the target refused it.                    *)
MigrateReply ==
    LET k == impl.mg.kv[impl.mg.j + 1]
        ok == impl.replies[1] = "ok"
        late == \E i \in DOMAIN impl.late : impl.late[i].k = k
    IN /\ impl.mg # Idle /\ impl.replies # <<>>
       /\ impl' = [impl EXCEPT !.replies = Tail(@), !.db["S"][k] = IF ok THEN None ELSE @,
                               !.mg = IF @.j + 1 = Len(@.kv) THEN Idle
                                      ELSE [@ EXCEPT !.j = @ + 1, !.failed = @ \/ ~ok]]
       /\ aux' = [aux EXCEPT !.twice = IF ok /\ ~late THEN @ \ {k} ELSE @,
                             !.forked = IF ok /\ late /\ aux.replace THEN @ \cup {k} ELSE @]
       /\ UNCHANGED ref

MigrateNoReply ==
    /\ impl.mg # Idle /\ impl.mg.phase = "read" /\ aux.faults > 0
    /\ \E n \in 0 .. Len(impl.line), timeout \in BOOLEAN :
          /\ impl' = SocketErr(impl, n, timeout)
          /\ aux' = GiveUp(impl, n)
    /\ UNCHANGED ref

RestoredOver(cmd) == getNodeByQuery("T", {cmd.k}, TRUE).why = "none"

(* RESTORE-ASKING at the target, from the connection or a closed one.      *)
Restored(cmd) ==
    /\ getNodeByQuery("T", {cmd.k}, TRUE).why = "none"
    /\ aux.replace \/ Lookup("T", cmd.k) = None

restoreCommand ==
    /\ impl.line # <<>>
    /\ impl' = [impl EXCEPT !.line = Tail(@), !.replies = Append(@, IF Restored(impl.line[1]) THEN "ok" ELSE "err"),
                            !.db["T"][impl.line[1].k] = IF Restored(impl.line[1]) THEN impl.line[1].o ELSE @]
    /\ UNCHANGED <<ref, aux>>

LateRestore ==
    LET cmd == impl.late[1]
        over == Restored(cmd) /\ Lookup("T", cmd.k) \notin {None, cmd.o}
    IN /\ impl.late # <<>>
       /\ impl' = [impl EXCEPT !.late = Tail(@), !.db["T"][cmd.k] = IF Restored(cmd) THEN cmd.o ELSE @]
       /\ aux' = IF over THEN [aux EXCEPT !.forked = @ \cup {cmd.k}] ELSE aux
       /\ UNCHANGED ref

-----------------------------------------------------------------------------
Init ==
    \E setup \in Setups :
        /\ impl = [owner |-> [n \in Nodes |-> "S"], migrating |-> [n \in Nodes |-> "no"],
                   importing |-> [n \in Nodes |-> "no"],
                   db |-> [n \in Nodes |-> IF n = "S" THEN setup.db ELSE [k \in Keys |-> None]],
                   mg |-> Idle, line |-> <<>>, late |-> <<>>, replies |-> <<>>,
                   cl |-> [c \in setup.clients |-> [op |-> "idle", ks |-> {}, at |-> "S", asking |-> FALSE]]]
        /\ ref = setup.db
        /\ aux = [expired |-> FALSE, twice |-> {}, forked |-> {}, told |-> {}, stale |-> FALSE, wrong |-> FALSE,
                  cancelled |-> FALSE, writes |-> 0, left |-> setup.left, faults |-> setup.faults, replace |-> setup.replace, orders |-> setup.orders]

Next ==
    \/ \E c \in DOMAIN impl.cl :
          \/ \E op \in {"get", "set", "del"}, ks \in SUBSET Keys \ {{}} : Start(c, op, ks)
          \/ Execute(c) \/ Block(c) \/ RedirectBlocked(c) \/ ServeBlocked(c)
    \/ SetslotMigrating \/ SetslotImporting \/ LearnOwner \/ ExpireKeys
    \/ \E n \in Nodes : SetslotStable(n) \/ SetslotNode(n) \/ verifyClusterConfigWithData(n) \/ activeExpireCycle(n)
    \/ \E ks \in aux.orders : MigrateStart(ks)
    \/ MigrateWrite \/ MigrateReply \/ MigrateNoReply \/ restoreCommand \/ LateRestore

Spec == Init /\ [][Next]_vars

-----------------------------------------------------------------------------
(* Properties.  A MIGRATE that fails may leave a copy of a key at the      *)
(* target, now or when a command that is under way arrives (twice), until  *)
(* another MIGRATE of the key is confirmed.  The copies fork when a client *)
(* deletes the key at the source or writes it at the target meanwhile, or  *)
(* when an older RESTORE REPLACE arrives, or may still arrive, after a     *)
(* newer one (forked): the code cannot tell the copies apart, see the      *)
(* README.                                                                 *)

AtRisk == IF aux.replace THEN aux.forked ELSE {}

(* No key is lost by a move: whatever fails, is retried or arrives late,   *)
(* the value last written to a key is held by a node (migrateCommand       *)
(* deletes a key only when its RESTORE was confirmed, and without REPLACE  *)
(* a RESTORE replaces nothing), with REPLACE unless its copies forked.     *)
NeverLost ==
    \A k \in Keys \ AtRisk : ref[k] # None => \E n \in Nodes : impl.db[n][k].v = ref[k].v

(* A client that follows redirections reads the last value written, before,*)
(* during and after the move, of every key whose copies did not fork; a    *)
(* command on several keys, of those that are not there twice (it is       *)
(* served by the target as soon as the source misses one of them).         *)
ReadsLatest == ~aux.stale

(* At most one node serves a key to clients that are not asking, also      *)
(* while the two nodes disagree on the owner (getNodeByQuery).             *)
OneServes ==
    \A k \in Keys : \E n \in Nodes : \A m \in Nodes \ {n} : getNodeByQuery(m, {k}, FALSE).why # "none"

(* RESTORE is sent with the value of its own key.                          *)
PayloadMatchesKey == ~aux.wrong

(* Once the target owns the slot it has the value of every key: no command *)
(* that was on its way to the source, to the target or back created a key  *)
(* at the source after the operator saw it empty.  Once both were told,    *)
(* they agree on the owner and neither has the slot open.                  *)
MoveClosed ==
    /\ impl.owner["T"] = "T" =>
           \A k \in Keys \ AtRisk : ref[k] # None => impl.db["T"][k].v = ref[k].v
    /\ aux.told = Nodes =>
           \A n \in Nodes : /\ impl.owner[n] = "T"
                            /\ impl.migrating[n] = "no" /\ impl.importing[n] = "no"
=============================================================================
