----------------------------- MODULE FullSync ------------------------------
(***************************************************************************)
(* A master that serves full resynchronisations (replication.c, rdb.c): the *)
(* states of its replica connections, the RDB child with a disk or a socket *)
(* target, attaching to a BGSAVE in progress, the transfer, and the output  *)
(* buffers that hold the writes made meanwhile; with BGSAVE, SAVE, FLUSHALL  *)
(* and the count of unsaved changes (server.dirty), all of which share the   *)
(* child and the file dump.rdb.                                             *)
(*                                                                         *)
(* A client here is one connection of a replica; a replica that comes back  *)
(* is another client.  An item of the replication stream is a SELECT, a     *)
(* write or a FLUSHALL, and offsets count items.                            *)
(***************************************************************************)
EXTENDS Integers, Sequences, FiniteSets, Functions

CONSTANTS Clients,      \* connections of replicas
          Dbs,          \* the databases; 0 is one of them
          Setups        \* the situations to start from, see Setup

\* The connections that are made, those of them that send REPLCONF capa eof, and
\* bounds: write commands, FLUSHALL commands, changes of repl-diskless-sync, and
\* SAVE, BGSAVE and AOF rewrites.
Setup == [clients : SUBSET Clients, eof : SUBSET Clients,
          writes : Nat, flushes : Nat, configs : Nat, saves : Nat]

ASSUME FullSyncAssumption ==
    /\ 0 \in Dbs /\ Dbs \subseteq Nat
    /\ Setups \subseteq Setup

VARIABLES
    data,               \* the dataset: a sequence of writes <<db, number>>
    dirty,              \* server.dirty
    dirty_before_bgsave,
    file,               \* dump.rdb
    child,              \* the RDB child: server.rdb_child_pid, rdb_child_type
    aof_child,          \* server.aof_child_pid # -1
    repl_diskless_sync,
    repl_backlog,       \* server.repl_backlog # NULL
    slaveseldb,         \* the database last selected in the stream, or -1
    master_repl_offset,
    slaves,             \* server.slaves, in the order of arrival
    replstate,          \* of each client
    put_online_on_ack,  \* of each client
    out,                \* the output buffer of each client
    bulk,               \* the file a client is being sent (repldbfd)
    replica,            \* what the replica behind a client holds
    reploff,            \* the offset the replica behind a client is at
    setup,              \* the situation this behaviour started from
    nwrites, nflush, nconfig, nsaves

repVars == <<slaves, replstate, put_online_on_ack, out, bulk, replica, reploff>>
bounds == <<setup, nwrites, nflush, nconfig, nsaves>>
vars == <<data, dirty, dirty_before_bgsave, file, child, aof_child,
          repl_diskless_sync, repl_backlog, slaveseldb, master_repl_offset,
          repVars, bounds>>

NoChild == [type |-> "none"]
NoRdb == [data |-> <<>>, db |-> -1]

\* An RDB file: the dataset, and the database repl_stream_db selects.
Rdb(d) == [data |-> d, db |-> IF slaveseldb = -1 THEN 0 ELSE slaveseldb]

\* What replica state s becomes when it executes an item of the stream.
Execute(s, item) ==
    CASE item.t = "select" -> [s EXCEPT !.db = item.db]
      [] item.t = "write"  -> [s EXCEPT !.data = Append(@, <<s.db, item.w>>)]
      [] item.t = "flush"  -> [s EXCEPT !.data = <<>>]

Init ==
    /\ data = <<>> /\ dirty = 0 /\ dirty_before_bgsave = 0
    /\ file = [data |-> <<>>, db |-> 0]
    /\ child = NoChild /\ aof_child = FALSE
    /\ repl_diskless_sync \in BOOLEAN
    /\ repl_backlog = FALSE /\ slaveseldb = -1 /\ master_repl_offset = 0
    /\ slaves = <<>>
    /\ replstate = [c \in Clients |-> "none"]
    /\ put_online_on_ack = [c \in Clients |-> FALSE]
    /\ out = [c \in Clients |-> <<>>]
    /\ bulk = [c \in Clients |-> NoRdb]
    /\ replica = [c \in Clients |-> NoRdb]
    /\ reploff = [c \in Clients |-> 0]
    /\ setup \in Setups
    /\ nwrites = 0 /\ nflush = 0 /\ nconfig = 0 /\ nsaves = 0

-----------------------------------------------------------------------------
(* The stream.                                                             *)

Fed(c) == replstate[c] \in {"wait_bgsave_end", "send_bulk", "online"}

\* replicationFeedSlaves: a SELECT when the database differs, then the command,
\* to every replica but those that wait for a BGSAVE to start.
FeedSlaves(db, item) ==
    LET items == IF slaveseldb = db THEN <<item>>
                 ELSE <<[t |-> "select", db |-> db], item>>
    IN  IF repl_backlog
          THEN /\ slaveseldb' = db
               /\ master_repl_offset' = master_repl_offset + Len(items)
               /\ out' = [c \in Clients |-> IF Fed(c) THEN out[c] \o items ELSE out[c]]
          ELSE UNCHANGED <<slaveseldb, master_repl_offset, out>>

Write(db) ==
    /\ nwrites < setup.writes /\ nwrites' = nwrites + 1
    /\ data' = Append(data, <<db, nwrites + 1>>)
    /\ dirty' = dirty + 1
    /\ FeedSlaves(db, [t |-> "write", w |-> nwrites + 1])
    /\ UNCHANGED <<dirty_before_bgsave, file, child, aof_child, repl_diskless_sync,
                   repl_backlog, slaves, replstate, put_online_on_ack, bulk, replica,
                   reploff, nflush, nconfig, nsaves, setup>>

\* flushallCommand: empty, kill the RDB child, save if there are save points, and
\* propagate.  A child that has exited already is not affected by the signal, and
\* one that is hit by it may have renamed its file, but will not do so any more.
Flushall(db) ==
    /\ nflush < setup.flushes /\ nflush' = nflush + 1
    /\ data' = <<>>
    /\ child' = IF child.type # "none" /\ child.status = "run"
                  THEN [child EXCEPT !.status = "signal"] ELSE child
    /\ \/ file' = Rdb(<<>>)
       \/ file' = file
       \/ child.type = "disk" /\ child.status = "run" /\ file' = child.snap
    /\ dirty' = dirty + Len(data) + 1
    /\ FeedSlaves(db, [t |-> "flush"])
    /\ UNCHANGED <<dirty_before_bgsave, aof_child, repl_diskless_sync, repl_backlog,
                   slaves, replstate, put_online_on_ack, bulk, replica, reploff,
                   nwrites, nconfig, nsaves, setup>>

-----------------------------------------------------------------------------
(* Starting a BGSAVE for replication, with replica states rs and dirty = d. *)

\* listDelNode for every element of list s outside K.
Filter(s, K) ==
    LET f[i \in 0 .. Len(s)] ==
            IF i = 0 THEN <<>>
            ELSE IF s[i] \in K THEN Append(f[i - 1], s[i]) ELSE f[i - 1]
    IN  f[Len(s)]

\* The clients of sl that are still connected after the step.
Attached(sl) == Filter(sl, {c \in Clients : replstate'[c] # "closed"})

Waiting(rs) == {c \in Clients : rs[c] = "wait_bgsave_start"}

\* replicationSetupSlaveForFullResync: the next command is preceded by SELECT.
SeldbForNewReplica == -1

SocketTarget(capa) == repl_diskless_sync /\ capa

\* startBgsaveForReplication: the target is the sockets only if all who wait can
\* take it.  The offset of the fork is announced and the replicas start to be fed.
\* If the fork fails, those who wait are dropped.
StartBgsave(rs, capa, d) ==
    LET W == Waiting(rs)
        socket == SocketTarget(capa)
    IN  \/ /\ ~ aof_child
           /\ child' = [type |-> IF socket THEN "socket" ELSE "disk",
                        snap |-> Rdb(data), status |-> "run",
                        targets |-> IF socket THEN W ELSE {}, good |-> {}]
           /\ replstate' = [c \in Clients |-> IF c \in W THEN "wait_bgsave_end" ELSE rs[c]]
           /\ reploff' = [c \in Clients |-> IF c \in W THEN master_repl_offset
                                                       ELSE reploff[c]]
           /\ slaveseldb' = SeldbForNewReplica
           /\ dirty_before_bgsave' = IF socket THEN dirty_before_bgsave ELSE d
        \/ /\ child' = NoChild
           /\ replstate' = [c \in Clients |-> IF c \in W THEN "closed" ELSE rs[c]]
           /\ slaveseldb' = IF socket /\ ~ aof_child THEN -1 ELSE slaveseldb
           /\ dirty_before_bgsave' = IF socket \/ aof_child THEN dirty_before_bgsave
                                                           ELSE d
           /\ UNCHANGED reploff

-----------------------------------------------------------------------------
(* The commands and events of the master.                                  *)

\* s is the first replica that waits for the end of the BGSAVE in progress.  If c
\* has all its capabilities, c attaches to that BGSAVE, with a copy of the output
\* buffer and the same offset.
FirstWaitingEnd(s) ==
    \E i \in DOMAIN slaves :
        /\ s = slaves[i] /\ replstate[s] = "wait_bgsave_end"
        /\ \A j \in 1 .. i - 1 : replstate[slaves[j]] # "wait_bgsave_end"
CanAttach(c, s) == FirstWaitingEnd(s) /\ (s \in setup.eof => c \in setup.eof)

AttachBuffer(c, s) == out' = [out EXCEPT ![c] = out[s]]

AttachOffset(s) == reploff[s]

\* syncCommand, full resynchronisation.
SyncAttach(c, s) ==
    /\ child.type = "disk" /\ CanAttach(c, s)
    /\ AttachBuffer(c, s)
    /\ reploff' = [reploff EXCEPT ![c] = AttachOffset(s)]
    /\ replstate' = [replstate EXCEPT ![c] = "wait_bgsave_end"]
    /\ slaveseldb' = SeldbForNewReplica
    /\ UNCHANGED <<child, dirty_before_bgsave>>

\* Wait for the next BGSAVE: the one in progress is not for replicas, or it is
\* for sockets, or one for sockets is to start later, or an AOF is rewritten.
SyncWait(c) ==
    /\ \/ child.type = "disk" /\ ~ \E s \in Clients : CanAttach(c, s)
       \/ child.type = "socket"
       \/ child.type = "none" /\ (aof_child \/ (repl_diskless_sync /\ c \in setup.eof))
    /\ replstate' = [replstate EXCEPT ![c] = "wait_bgsave_start"]
    /\ UNCHANGED <<child, dirty_before_bgsave, slaveseldb, reploff, out>>

SyncStart(c) ==
    /\ child.type = "none" /\ ~ aof_child
    /\ ~ (repl_diskless_sync /\ c \in setup.eof)
    /\ StartBgsave([replstate EXCEPT ![c] = "wait_bgsave_start"], c \in setup.eof, dirty)
    /\ UNCHANGED out

SyncCommand(c) ==
    /\ replstate[c] = "none"
    /\ (\E s \in Clients : SyncAttach(c, s)) \/ SyncWait(c) \/ SyncStart(c)
    /\ slaves' = Attached(Append(slaves, c))
    /\ repl_backlog' = TRUE
    /\ UNCHANGED <<data, dirty, file, aof_child, repl_diskless_sync,
                   master_repl_offset, put_online_on_ack, bulk, replica, bounds>>

\* replicationCron: start what waits, for sockets after a delay.
CronStartBgsave ==
    /\ child.type = "none" /\ ~ aof_child
    /\ Waiting(replstate) # {}
    /\ StartBgsave(replstate, Waiting(replstate) \subseteq setup.eof, dirty)
    /\ slaves' = Attached(slaves)
    /\ UNCHANGED <<data, dirty, file, aof_child, repl_diskless_sync, repl_backlog,
                   master_repl_offset, put_online_on_ack, out, bulk, replica, bounds>>

\* BGSAVE, or a save point of serverCron.
BgsaveCommand ==
    /\ nsaves < setup.saves /\ nsaves' = nsaves + 1
    /\ child.type = "none" /\ ~ aof_child
    /\ child' = [type |-> "disk", snap |-> Rdb(data), status |-> "run",
                 targets |-> {}, good |-> {}]
    /\ dirty_before_bgsave' = dirty
    /\ UNCHANGED <<data, dirty, file, aof_child, repl_diskless_sync, repl_backlog,
                   slaveseldb, master_repl_offset, repVars, nwrites, nflush, nconfig, setup>>

SaveCommand ==
    /\ nsaves < setup.saves /\ nsaves' = nsaves + 1
    /\ child.type = "none"
    /\ file' = Rdb(data)
    /\ dirty' = 0
    /\ UNCHANGED <<data, dirty_before_bgsave, child, aof_child, repl_diskless_sync,
                   repl_backlog, slaveseldb, master_repl_offset, repVars,
                   nwrites, nflush, nconfig, setup>>

\* An AOF rewrite child starts and ends.
AofRewriteStart ==
    /\ nsaves < setup.saves /\ nsaves' = nsaves + 1
    /\ child.type = "none" /\ ~ aof_child
    /\ aof_child' = TRUE
    /\ UNCHANGED <<data, dirty, dirty_before_bgsave, file, child, repl_diskless_sync,
                   repl_backlog, slaveseldb, master_repl_offset, repVars,
                   nwrites, nflush, nconfig, setup>>

AofRewriteDone ==
    /\ aof_child
    /\ aof_child' = FALSE
    /\ UNCHANGED <<data, dirty, dirty_before_bgsave, file, child, repl_diskless_sync,
                   repl_backlog, slaveseldb, master_repl_offset, repVars, bounds>>

\* CONFIG SET repl-diskless-sync.
SetDiskless ==
    /\ nconfig < setup.configs /\ nconfig' = nconfig + 1
    /\ repl_diskless_sync' = ~ repl_diskless_sync
    /\ UNCHANGED <<data, dirty, dirty_before_bgsave, file, child, aof_child,
                   repl_backlog, slaveseldb, master_repl_offset, repVars,
                   nwrites, nflush, nsaves, setup>>

-----------------------------------------------------------------------------
(* The end of the child.                                                   *)

\* The child exits: its file renamed, or sent to the replicas in "good"; with
\* an error; or by a signal, in which case a rename may have happened or not.
ChildExit ==
    /\ child.type # "none" /\ child.status = "run"
    /\ \/ /\ child.type = "disk"
          /\ file' = child.snap
          /\ child' = [child EXCEPT !.status = "ok"]
       \/ /\ child.type = "socket"
          /\ \E g \in SUBSET child.targets :
               child' = [child EXCEPT !.status = "ok", !.good = g]
          /\ UNCHANGED file
       \/ /\ child' = [child EXCEPT !.status = "err"]
          /\ UNCHANGED file
       \/ /\ child.type = "disk"
          /\ file' = child.snap
          /\ child' = [child EXCEPT !.status = "signal"]
    /\ UNCHANGED <<data, dirty, dirty_before_bgsave, aof_child, repl_diskless_sync,
                   repl_backlog, slaveseldb, master_repl_offset, repVars, bounds>>

\* The bug of sending dump.rdb although the child failed.
ServedEvenOnError(c) == child.type = "socket" => c \in child.good

\* Whether the transfer to a replica that waits for the end of the child goes on.
Served(c) == /\ child.status = "ok"
             /\ child.type = "socket" => c \in child.good

\* The bug of forgetting the writes made since the fork.
DirtyAllSaved == IF child.type = "disk" /\ child.status = "ok" THEN 0 ELSE dirty

\* backgroundSaveDoneHandlerDisk: what was dirty at the fork is saved now.
DirtyAfterBgsave == IF child.type = "disk" /\ child.status = "ok"
                      THEN dirty - dirty_before_bgsave ELSE dirty

\* The bug of not closing the replicas of a BGSAVE that failed.
StateKeptOnError(c) ==
    IF replstate[c] # "wait_bgsave_end" \/ ~ Served(c) THEN replstate[c]
    ELSE IF child.type = "disk" THEN "send_bulk" ELSE "online"

\* updateSlavesWaitingBgsave: what a replica that waited for the end is now.
StateAfterBgsave(c) ==
    IF replstate[c] # "wait_bgsave_end" THEN replstate[c]
    ELSE IF ~ Served(c) THEN "closed"
    ELSE IF child.type = "disk" THEN "send_bulk" ELSE "online"

\* serverCron finds the child ended: backgroundSaveDoneHandler, which starts
\* the next BGSAVE for those who wait for one.
Reap ==
    /\ child.type # "none" /\ child.status # "run"
    /\ LET rs == [c \in Clients |-> StateAfterBgsave(c)]
           ended == {c \in Clients : replstate[c] = "wait_bgsave_end" /\ Served(c)}
       IN  /\ dirty' = DirtyAfterBgsave
           /\ bulk' = [c \in Clients |-> IF c \in ended /\ child.type = "disk"
                                           THEN file ELSE bulk[c]]
           /\ replica' = [c \in Clients |-> IF c \in ended /\ child.type = "socket"
                                              THEN child.snap ELSE replica[c]]
           /\ put_online_on_ack' =
                [c \in Clients |-> put_online_on_ack[c]
                                     \/ (c \in ended /\ child.type = "socket")]
           /\ IF Waiting(rs) # {}
                THEN StartBgsave(rs, Waiting(rs) \subseteq setup.eof, DirtyAfterBgsave)
                ELSE /\ replstate' = rs /\ child' = NoChild
                     /\ UNCHANGED <<dirty_before_bgsave, slaveseldb, reploff>>
    /\ out' = [c \in Clients |-> IF replstate'[c] = "closed" THEN <<>> ELSE out[c]]
    /\ slaves' = Attached(slaves)
    /\ UNCHANGED <<data, file, aof_child, repl_diskless_sync, repl_backlog,
                   master_repl_offset, bounds>>

-----------------------------------------------------------------------------
(* The connection of a replica.                                            *)

linkVarsOnly == <<data, dirty, dirty_before_bgsave, file, child, aof_child,
                  repl_diskless_sync, repl_backlog, slaveseldb, master_repl_offset,
                  bounds>>

\* sendBulkToSlave has sent the file: putSlaveOnline.
SendBulk(c) ==
    /\ replstate[c] = "send_bulk"
    /\ replstate' = [replstate EXCEPT ![c] = "online"]
    /\ put_online_on_ack' = [put_online_on_ack EXCEPT ![c] = FALSE]
    /\ replica' = [replica EXCEPT ![c] = bulk[c]]
    /\ bulk' = [bulk EXCEPT ![c] = NoRdb]
    /\ UNCHANGED <<linkVarsOnly, slaves, out, reploff>>

\* REPLCONF ACK of a replica that has loaded what the child sent it.
ReplconfAck(c) ==
    /\ replstate[c] = "online" /\ put_online_on_ack[c]
    /\ put_online_on_ack' = [put_online_on_ack EXCEPT ![c] = FALSE]
    /\ UNCHANGED <<linkVarsOnly, slaves, replstate, out, bulk, replica, reploff>>

\* writeToClient, of a replica with a write handler; the replica executes.
WriteToClient(c) ==
    /\ replstate[c] = "online" /\ ~ put_online_on_ack[c]
    /\ out[c] # <<>>
    /\ replica' = [replica EXCEPT ![c] = Execute(@, Head(out[c]))]
    /\ out' = [out EXCEPT ![c] = Tail(@)]
    /\ reploff' = [reploff EXCEPT ![c] = @ + 1]
    /\ UNCHANGED <<linkVarsOnly, slaves, replstate, put_online_on_ack, bulk>>

\* freeClient: the link broke, timed out, or its buffer grew over the limit.
FreeClient(c) ==
    /\ replstate[c] \in {"wait_bgsave_start", "wait_bgsave_end", "send_bulk", "online"}
    /\ replstate' = [replstate EXCEPT ![c] = "closed"]
    /\ slaves' = Attached(slaves)
    /\ put_online_on_ack' = [put_online_on_ack EXCEPT ![c] = FALSE]
    /\ out' = [out EXCEPT ![c] = <<>>]
    /\ bulk' = [bulk EXCEPT ![c] = NoRdb]
    /\ replica' = [replica EXCEPT ![c] = NoRdb]
    /\ reploff' = [reploff EXCEPT ![c] = 0]
    /\ UNCHANGED linkVarsOnly

Next ==
    \/ \E db \in Dbs : Write(db) \/ Flushall(db)
    \/ \E c \in setup.clients : \/ SyncCommand(c) \/ SendBulk(c) \/ ReplconfAck(c)
                          \/ WriteToClient(c) \/ FreeClient(c)
    \/ CronStartBgsave \/ BgsaveCommand \/ SaveCommand
    \/ AofRewriteStart \/ AofRewriteDone \/ SetDiskless
    \/ ChildExit \/ Reap

Spec == Init /\ [][Next]_vars

\* The child ends, serverCron and replicationCron run, and links that are not
\* closed make progress.
Fairness ==
    /\ WF_vars(ChildExit) /\ WF_vars(Reap) /\ WF_vars(CronStartBgsave)
    /\ WF_vars(AofRewriteDone)
    /\ \A c \in Clients : /\ WF_vars(SendBulk(c)) /\ WF_vars(ReplconfAck(c))
                          /\ WF_vars(WriteToClient(c))

LiveSpec == Spec /\ Fairness

-----------------------------------------------------------------------------
(* Properties.                                                             *)

TypeOK ==
    /\ dirty \in Int /\ dirty_before_bgsave \in Nat
    /\ child.type \in {"none", "disk", "socket"}
    /\ child.type # "none" => child.status \in {"run", "ok", "err", "signal"}
    /\ aof_child \in BOOLEAN /\ repl_diskless_sync \in BOOLEAN /\ repl_backlog \in BOOLEAN
    /\ slaveseldb \in Dbs \cup {-1} /\ master_repl_offset \in Nat
    /\ slaves \in Seq(Clients) /\ IsInjective(slaves)
    /\ replstate \in [Clients -> {"none", "wait_bgsave_start", "wait_bgsave_end",
                                  "send_bulk", "online", "closed"}]
    /\ put_online_on_ack \in [Clients -> BOOLEAN]
    /\ reploff \in [Clients -> Nat]
    /\ {c \in Clients : replstate[c] \notin {"none", "closed"}} = Range(slaves)

\* What the replica behind a client will have when the transfer is over.
Base(c) ==
    CASE replstate[c] = "online"    -> replica[c]
      [] replstate[c] = "send_bulk" -> bulk[c]
      [] OTHER -> IF child.type = "disk" /\ child.status = "ok" THEN file
                                                               ELSE child.snap

\* What replica state s becomes when it executes all of items.
Executed(s, items) ==
    LET st[i \in 0 .. Len(items)] ==
            IF i = 0 THEN s ELSE Execute(st[i - 1], items[i])
    IN  st[Len(items)]

Lost(c) == /\ replstate[c] = "wait_bgsave_end"
           /\ child.type = "none" \/ child.status \in {"err", "signal"}

\* A replica that is being fed, at whatever stage of whichever kind of transfer,
\* holds the master's dataset once it has loaded the snapshot meant for it and
\* executed what its output buffer holds: no write is lost or applied twice
\* between fork, attach, transfer and stream (syncCommand, updateSlavesWaitingBgsave).
ReplicaGetsDataset ==
    \A c \in Clients : Fed(c) /\ ~ Lost(c) =>
        Executed(Base(c), out[c]).data = data

\* The offset announced with +FULLRESYNC plus what was buffered since is the
\* master's offset, also for a replica that attached to a BGSAVE late.
OffsetCounts ==
    \A c \in Clients : Fed(c) => reploff[c] + Len(out[c]) = master_repl_offset

\* A replica waits for the end of a child only while there is one that will end
\* its wait, and only the child writes to the sockets of its targets: nothing is
\* transferred to a replica twice, nor the EOF format to one that lacks it.
ChildServesWaiting ==
    /\ \A c \in Clients : replstate[c] = "wait_bgsave_end" =>
           /\ child.type # "none"
           /\ child.type = "socket" => c \in child.targets
    /\ child.type = "socket" =>
           /\ child.targets \subseteq setup.eof
           /\ \A c \in child.targets : replstate[c] \in {"wait_bgsave_end", "closed"}

\* server.dirty is never negative, and zero only when dump.rdb holds the dataset,
\* however saves, BGSAVEs, their failures and FLUSHALL interleave.
DirtyNeverForgets ==
    /\ dirty >= 0
    /\ dirty = 0 => file.data = data

\* A replica that asked for a full resynchronisation gets online or is dropped.
EverySyncEnds ==
    \A c \in Clients :
        replstate[c] \in {"wait_bgsave_start", "wait_bgsave_end", "send_bulk"}
            ~> replstate[c] \in {"online", "closed"}

\* When the writes cease, every replica still connected gets to the master's dataset.
Converges == <>[](\A c \in Clients : replstate[c] = "online" => replica[c].data = data)

\* The books the master keeps during transfers are right: who waits for which
\* child, the offset each replica is at, and the count of unsaved changes.
BooksBalance == TypeOK /\ ChildServesWaiting /\ OffsetCounts /\ DirtyNeverForgets
=============================================================================
