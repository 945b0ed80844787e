------------------------------- MODULE Psync -------------------------------
(***************************************************************************)
(* Replication between instances (replication.c): replication IDs and      *)
(* offsets, full and partial resynchronisation, chained replicas,          *)
(* promotion and demotion with REPLICAOF, lost links, RDB files and        *)
(* restarts.                                                               *)
(*                                                                         *)
(* The dataset of an instance is the sequence of writes it holds; a write  *)
(* is one unit of the replication stream, so an offset counts writes.  The *)
(* ring buffer behind the backlog is module Backlog's business: here the   *)
(* backlog is the window of the stream that module proves it to be.  The   *)
(* handshake before PSYNC and the chunked RDB transfer are each one step.  *)
(***************************************************************************)
EXTENDS Integers, Sequences, FiniteSets

CONSTANTS Nodes,        \* the instances
          None,         \* no instance: masterhost of a master
          BacklogSize,  \* repl-backlog-size, in writes
          Setups        \* the situations to start from, see Setup

\* The replicaof lines of the configuration files of the instances that take part,
\* repl-diskless-sync, and bounds: writes, REPLICAOF commands, faults (lost links,
\* failed loads, backlog expiries), RDB files saved outside replication, crashes.
Setup == [replicaof : UNION {[M -> Nodes \cup {None}] : M \in SUBSET Nodes},
          diskless : BOOLEAN, writes : Nat, reconf : Nat, faults : Nat,
          saves : Nat, crashes : Nat]

ASSUME PsyncAssumption ==
    /\ None \notin Nodes
    /\ BacklogSize \in Nat \ {0}
    /\ Setups \subseteq Setup

VARIABLES
    masterhost,            \* the master an instance is told to replicate
    repl_state,            \* "none", "connect", "psync", "transfer", "connected"
    replid, replid2, second_replid_offset, master_repl_offset,
    backlog,               \* repl_backlog_off and the bytes it holds
    master,                \* server.master if connected, else cached_master
    data,                  \* the dataset
    disk,                  \* dump.rdb
    link,                  \* replica's side: "down", "open", "eof"
    slave,                 \* master's side: "none", "wait" for BGSAVE, "online"
    chan,                  \* bytes from the master on their way
    req,                   \* the PSYNC on its way to the master
    nextid,                \* random replication IDs drawn by each instance
    setup,                 \* the situation this behaviour started from
    nwrites, nreconf, nfaults, nsaves, ncrashes

Members == DOMAIN setup.replicaof
idVars == <<replid, replid2, second_replid_offset, nextid>>
linkVars == <<link, slave, chan, req>>
bounds == <<setup, nwrites, nreconf, nfaults, nsaves, ncrashes>>
vars == <<masterhost, repl_state, idVars, master_repl_offset, backlog, master,
          data, disk, linkVars, bounds>>

NoId == <<None, 0>>                     \* forty zeros
Id(n, k) == <<n, k>>                    \* the k-th ID drawn by n
NoBacklog == [off |-> 0, items |-> <<>>]
EmptyBacklog(offset) == [off |-> offset + 1, items |-> <<>>]
NoMaster == [replid |-> NoId, reploff |-> -1]
NoReq == [replid |-> NoId, offset |-> -2]
NoDisk == [data |-> <<>>, replid |-> NoId, offset |-> -1, info |-> FALSE]

HasBacklog(n) == backlog[n].off # 0
Slaves(m) == {n \in Nodes : masterhost[n] = m /\ slave[n] # "none"}

Init ==
    /\ setup \in Setups
    /\ masterhost = [n \in Nodes |-> IF n \in Members THEN setup.replicaof[n] ELSE None]
    /\ repl_state = [n \in Nodes |-> IF masterhost[n] = None THEN "none" ELSE "connect"]
    /\ replid = [n \in Nodes |-> Id(n, 0)]
    /\ replid2 = [n \in Nodes |-> NoId]
    /\ second_replid_offset = [n \in Nodes |-> -1]
    /\ master_repl_offset = [n \in Nodes |-> 0]
    /\ backlog = [n \in Nodes |-> NoBacklog]
    /\ master = [n \in Nodes |-> NoMaster]
    /\ data = [n \in Nodes |-> <<>>]
    /\ disk = [n \in Nodes |-> NoDisk]
    /\ link = [n \in Nodes |-> "down"]
    /\ slave = [n \in Nodes |-> "none"]
    /\ chan = [n \in Nodes |-> <<>>]
    /\ req = [n \in Nodes |-> NoReq]
    /\ nextid = [n \in Nodes |-> 1]
    /\ nwrites = 0 /\ nreconf = 0 /\ nfaults = 0 /\ nsaves = 0 /\ ncrashes = 0

-----------------------------------------------------------------------------
(* Pieces of the handlers.                                                 *)

\* The replicas in `down` close their end; the masters of those in `eof` do.
CloseLinks(down, eof) ==
    /\ link' = [n \in Nodes |-> IF n \in down THEN "down"
                                ELSE IF n \in eof THEN "eof" ELSE link[n]]
    /\ slave' = [n \in Nodes |-> IF n \in down \cup eof THEN "none" ELSE slave[n]]
    /\ req' = [n \in Nodes |-> IF n \in down \cup eof THEN NoReq ELSE req[n]]
Unread(down) == [n \in Nodes |-> IF n \in down THEN <<>> ELSE chan[n]]

\* changeReplicationId of n, with a new replid2 and second offset.
NewId(n, id2, offset2) ==
    /\ replid' = [replid EXCEPT ![n] = Id(n, nextid[n])]
    /\ nextid' = [nextid EXCEPT ![n] = @ + 1]
    /\ replid2' = [replid2 EXCEPT ![n] = id2]
    /\ second_replid_offset' = [second_replid_offset EXCEPT ![n] = offset2]

\* feedReplicationBacklog, one write.
Feed(b, w) ==
    LET items == Append(b.items, w) IN
    IF Len(items) > BacklogSize THEN [off |-> b.off + 1, items |-> Tail(items)]
                                ELSE [off |-> b.off, items |-> items]

\* Write w enters n's replication stream: the backlog, the offset (that moves
\* only with a backlog) and the replicas that are past WAIT_BGSAVE_START.
FeedStream(n, w) ==
    /\ IF HasBacklog(n)
         THEN /\ master_repl_offset' = [master_repl_offset EXCEPT ![n] = @ + 1]
              /\ backlog' = [backlog EXCEPT ![n] = Feed(@, w)]
         ELSE UNCHANGED <<master_repl_offset, backlog>>

ToSlaves(n, w, ch) ==
    [x \in Nodes |-> IF x \in Slaves(n) /\ slave[x] = "online"
                       THEN Append(ch[x], [t |-> "cmd", w |-> w]) ELSE ch[x]]

\* rdbPopulateSaveInfo: whether replication data goes into the RDB file.
SavesInfo(n) == (masterhost[n] = None /\ HasBacklog(n)) \/ master[n] # NoMaster

Snapshot(n) == [data |-> data[n], replid |-> replid[n],
                offset |-> master_repl_offset[n], info |-> SavesInfo(n)]

-----------------------------------------------------------------------------
(* The master side.                                                        *)

\* A write command on a master, and replicationFeedSlaves.
Write(n) ==
    /\ masterhost[n] = None /\ nwrites < setup.writes
    /\ nwrites' = nwrites + 1
    /\ data' = [data EXCEPT ![n] = Append(@, nwrites + 1)]
    /\ FeedStream(n, nwrites + 1)
    /\ chan' = ToSlaves(n, nwrites + 1, chan)
    /\ UNCHANGED <<masterhost, repl_state, idVars, master, disk, link, slave,
                   req, nreconf, nfaults, nsaves, ncrashes, setup>>

\* The bug of taking the second ID without its limit.
SameHistoryAnyOffset(m, r) == r.replid = replid[m] \/ r.replid = replid2[m]

\* masterTryPartialResynchronization: do the IDs allow to continue, and is the
\* data asked for in the backlog?
SameHistory(m, r) ==
    \/ r.replid = replid[m]
    \/ r.replid = replid2[m] /\ r.offset <= second_replid_offset[m]

InBacklog(m, r) ==
    /\ HasBacklog(m)
    /\ r.offset >= backlog[m].off
    /\ r.offset <= backlog[m].off + Len(backlog[m].items)

\* addReplyReplicationBacklog.
Continuation(m, offset) ==
    LET b == backlog[m]
        skip == offset - b.off
    IN  [i \in 1 .. Len(b.items) - skip |-> [t |-> "cmd", w |-> b.items[skip + i]]]

\* syncCommand for PSYNC at m.  A replica without its own master link refuses.
SyncRefused(n, m) ==
    /\ masterhost[m] # None /\ repl_state[m] # "connected"
    /\ chan' = [chan EXCEPT ![n] = Append(@, [t |-> "err"])]
    /\ UNCHANGED <<slave, idVars, backlog>>

SyncPartial(n, m) ==
    /\ masterhost[m] = None \/ repl_state[m] = "connected"
    /\ SameHistory(m, req[n]) /\ InBacklog(m, req[n])
    /\ slave' = [slave EXCEPT ![n] = "online"]
    /\ chan' = [chan EXCEPT ![n] = @ \o <<[t |-> "cont", replid |-> replid[m]]>>
                                     \o Continuation(m, req[n].offset)]
    /\ UNCHANGED <<idVars, backlog>>

\* The replica waits for a BGSAVE; the first one ever makes the backlog, under
\* a new ID since without a backlog the offset did not follow the writes.
NeedsBacklog(m) == Slaves(m) = {} /\ ~ HasBacklog(m)

SyncFull(n, m) ==
    /\ masterhost[m] = None \/ repl_state[m] = "connected"
    /\ ~ (SameHistory(m, req[n]) /\ InBacklog(m, req[n]))
    /\ slave' = [slave EXCEPT ![n] = "wait"]
    /\ IF NeedsBacklog(m)
         THEN /\ NewId(m, NoId, -1)
              /\ backlog' = [backlog EXCEPT
                               ![m] = EmptyBacklog(master_repl_offset[m])]
         ELSE UNCHANGED <<idVars, backlog>>
    /\ UNCHANGED chan

SyncCommand(n) ==
    /\ link[n] = "open" /\ req[n] # NoReq
    /\ \/ SyncRefused(n, masterhost[n])
       \/ SyncPartial(n, masterhost[n])
       \/ SyncFull(n, masterhost[n])
    /\ req' = [req EXCEPT ![n] = NoReq]
    /\ UNCHANGED <<masterhost, repl_state, master_repl_offset, master, data,
                   disk, link, bounds>>

\* startBgsaveForReplication: the snapshot is taken at the fork, and every
\* replica waiting is told its ID and offset (+FULLRESYNC); from then on it is
\* fed.  With disk-based replication the file also replaces dump.rdb.  Without
\* replication data for the file, those who wait are dropped.
StartBgsave(m) ==
    LET W == {n \in Slaves(m) : slave[n] = "wait"} IN
    /\ W # {}
    /\ \/ /\ SavesInfo(m)
          /\ slave' = [n \in Nodes |-> IF n \in W THEN "online" ELSE slave[n]]
          /\ chan' = [n \in Nodes |-> IF n \in W
                        THEN Append(chan[n], [t |-> "full", rdb |-> Snapshot(m)])
                        ELSE chan[n]]
          /\ disk' = IF setup.diskless THEN disk ELSE [disk EXCEPT ![m] = Snapshot(m)]
          /\ UNCHANGED <<link, req>>
       \/ /\ ~ SavesInfo(m)
          /\ CloseLinks({}, W)
          /\ UNCHANGED <<chan, disk>>
    /\ UNCHANGED <<masterhost, repl_state, idVars, master_repl_offset, backlog,
                   master, data, bounds>>

\* The master frees a replica: timeout, output buffer limit, failed BGSAVE.
DropSlave(n) ==
    /\ slave[n] # "none" /\ nfaults < setup.faults
    /\ nfaults' = nfaults + 1
    /\ CloseLinks({}, {n})
    /\ UNCHANGED <<chan, masterhost, repl_state, idVars, master_repl_offset, backlog,
                   master, data, disk, nwrites, nreconf, nsaves, ncrashes, setup>>

\* replicationCron: a master without replicas frees the backlog after
\* repl-backlog-ttl, and starts a new history.
NewHistory(m) == NewId(m, NoId, -1)

BacklogExpire(m) ==
    /\ masterhost[m] = None /\ HasBacklog(m) /\ Slaves(m) = {}
    /\ nfaults < setup.faults /\ nfaults' = nfaults + 1
    /\ NewHistory(m)
    /\ backlog' = [backlog EXCEPT ![m] = NoBacklog]
    /\ UNCHANGED <<masterhost, repl_state, master_repl_offset, master, data,
                   disk, linkVars, nwrites, nreconf, nsaves, ncrashes, setup>>

-----------------------------------------------------------------------------
(* The replica side.                                                       *)

\* The bug of sending no PSYNC without a cached master.
NoCachedNoRequest(n) ==
    IF master[n] # NoMaster
      THEN [replid |-> master[n].replid, offset |-> master[n].reploff + 1]
      ELSE NoReq

\* The PSYNC request: the first offset missing in the cached history, or ? -1.
PsyncRequest(n) ==
    IF master[n] # NoMaster
      THEN [replid |-> master[n].replid, offset |-> master[n].reploff + 1]
      ELSE [replid |-> NoId, offset |-> -1]

\* connectWithMaster and syncWithMaster up to the PSYNC request.
Connect(n) ==
    /\ repl_state[n] = "connect"
    /\ repl_state' = [repl_state EXCEPT ![n] = "psync"]
    /\ link' = [link EXCEPT ![n] = "open"]
    /\ req' = [req EXCEPT ![n] = PsyncRequest(n)]
    /\ UNCHANGED <<masterhost, idVars, master_repl_offset, backlog, master,
                   data, disk, slave, chan, bounds>>

\* +CONTINUE, perhaps with a new ID: the old one becomes replid2, valid up to
\* what the replica has, and its own replicas are told by disconnecting them.
\* A replica that was restarted has no backlog yet.
BacklogToResume(n) == IF HasBacklog(n) THEN backlog[n]
                      ELSE EmptyBacklog(master_repl_offset[n])

ContinueReply(n) ==
    LET id == Head(chan[n]).replid
        changed == id # master[n].replid
    IN  /\ repl_state[n] = "psync" /\ chan[n] # <<>> /\ Head(chan[n]).t = "cont"
        /\ replid2' = IF changed THEN [replid2 EXCEPT ![n] = master[n].replid]
                                 ELSE replid2
        /\ second_replid_offset' =
             IF changed THEN [second_replid_offset EXCEPT
                                ![n] = master_repl_offset[n] + 1]
                        ELSE second_replid_offset
        /\ replid' = IF changed THEN [replid EXCEPT ![n] = id] ELSE replid
        /\ master' = [master EXCEPT ![n].replid = id]
        /\ CloseLinks({}, IF changed THEN Slaves(n) ELSE {})
        /\ backlog' = [backlog EXCEPT ![n] = BacklogToResume(n)]
        /\ repl_state' = [repl_state EXCEPT ![n] = "connected"]
        /\ chan' = [chan EXCEPT ![n] = Tail(@)]
        /\ UNCHANGED <<masterhost, nextid, master_repl_offset, data, disk, bounds>>

\* disconnectSlaves, for the replicas a full resynchronisation leaves behind.
LeftBehind(n) == Slaves(n)

\* +FULLRESYNC: forget the cached master, the own replicas and the backlog.
\* If the temporary file cannot be created the link is closed.
FullResyncReply(n) ==
    /\ repl_state[n] = "psync" /\ chan[n] # <<>> /\ Head(chan[n]).t = "full"
    /\ master' = [master EXCEPT ![n] = NoMaster]
    /\ backlog' = [backlog EXCEPT ![n] = NoBacklog]
    /\ \/ /\ repl_state' = [repl_state EXCEPT ![n] = "transfer"]
          /\ CloseLinks({}, LeftBehind(n))
          /\ UNCHANGED <<chan, nfaults>>
       \/ /\ nfaults < setup.faults /\ nfaults' = nfaults + 1
          /\ repl_state' = [repl_state EXCEPT ![n] = "connect"]
          /\ CloseLinks({n}, LeftBehind(n))
          /\ chan' = Unread({n})
    /\ UNCHANGED <<masterhost, idVars, master_repl_offset, data, disk,
                   nwrites, nreconf, nsaves, ncrashes, setup>>

\* -NOMASTERLINK: try later.
ErrorReply(n) ==
    /\ repl_state[n] = "psync" /\ chan[n] # <<>> /\ Head(chan[n]).t = "err"
    /\ repl_state' = [repl_state EXCEPT ![n] = "connect"]
    /\ CloseLinks({n}, {})
    /\ chan' = Unread({n})
    /\ UNCHANGED <<masterhost, idVars, master_repl_offset, backlog, master,
                   data, disk, bounds>>

\* readSyncBulkPayload at the end of the transfer: the file replaces dump.rdb,
\* the dataset is emptied and loaded, and the master's ID and offset adopted.
LoadRdb(n) ==
    LET rdb == Head(chan[n]).rdb IN
    /\ repl_state[n] = "transfer" /\ chan[n] # <<>>
    /\ disk' = [disk EXCEPT ![n] = rdb]
    /\ data' = [data EXCEPT ![n] = rdb.data]
    /\ repl_state' = [repl_state EXCEPT ![n] = "connected"]
    /\ master' = [master EXCEPT ![n] = [replid |-> rdb.replid, reploff |-> rdb.offset]]
    /\ replid' = [replid EXCEPT ![n] = rdb.replid]
    /\ master_repl_offset' = [master_repl_offset EXCEPT ![n] = rdb.offset]
    /\ replid2' = [replid2 EXCEPT ![n] = NoId]
    /\ second_replid_offset' = [second_replid_offset EXCEPT ![n] = -1]
    /\ backlog' = IF HasBacklog(n) THEN backlog
                  ELSE [backlog EXCEPT ![n] = EmptyBacklog(rdb.offset)]
    /\ chan' = [chan EXCEPT ![n] = Tail(@)]
    /\ UNCHANGED <<masterhost, nextid, link, slave, req, bounds>>

\* The load fails: the dataset is gone, the file stays, the link is closed.
LoadRdbFails(n) ==
    /\ repl_state[n] = "transfer" /\ chan[n] # <<>>
    /\ nfaults < setup.faults /\ nfaults' = nfaults + 1
    /\ disk' = [disk EXCEPT ![n] = Head(chan[n]).rdb]
    /\ data' = [data EXCEPT ![n] = <<>>]
    /\ repl_state' = [repl_state EXCEPT ![n] = "connect"]
    /\ CloseLinks({n}, {})
    /\ chan' = Unread({n})
    /\ UNCHANGED <<masterhost, idVars, master_repl_offset, backlog, master,
                   nwrites, nreconf, nsaves, ncrashes, setup>>

\* A write arrives from the master: it is executed, the offset of the master
\* client moves, and the bytes go to the own backlog and replicas.
Apply(n) ==
    LET w == Head(chan[n]).w IN
    /\ repl_state[n] = "connected" /\ chan[n] # <<>>
    /\ data' = [data EXCEPT ![n] = Append(@, w)]
    /\ master' = [master EXCEPT ![n].reploff = @ + 1]
    /\ FeedStream(n, w)
    /\ chan' = ToSlaves(n, w, [chan EXCEPT ![n] = Tail(@)])
    /\ UNCHANGED <<masterhost, repl_state, idVars, disk, link, slave, req, bounds>>

\* The replica loses the link, or gives it up after repl-timeout.  freeClient
\* caches a connected master for a later PSYNC, unless the client is in a state
\* (blocked, closing after its reply) that makes it drop it.
LinkLost(n) ==
    /\ link[n] # "down"
    /\ IF link[n] = "open" THEN nfaults < setup.faults /\ nfaults' = nfaults + 1
                           ELSE UNCHANGED nfaults
    /\ \/ UNCHANGED master
       \/ repl_state[n] = "connected" /\ master' = [master EXCEPT ![n] = NoMaster]
    /\ repl_state' = [repl_state EXCEPT ![n] = "connect"]
    /\ CloseLinks({n}, {})
    /\ chan' = Unread({n})
    /\ UNCHANGED <<masterhost, idVars, master_repl_offset, backlog, data, disk,
                   nwrites, nreconf, nsaves, ncrashes, setup>>

\* replicationCacheMasterUsingMyself.
MyselfAsMaster(n) == [replid |-> replid[n], reploff |-> master_repl_offset[n]]

\* REPLICAOF h: replicationSetMaster.  A master keeps its own ID and offset as
\* cached master, a replica the master client it had.
SetMaster(n, h) ==
    /\ h # masterhost[n] /\ nreconf < setup.reconf
    /\ nreconf' = nreconf + 1
    /\ masterhost' = [masterhost EXCEPT ![n] = h]
    /\ master' = IF masterhost[n] # None THEN master
                 ELSE [master EXCEPT ![n] = MyselfAsMaster(n)]
    /\ repl_state' = [repl_state EXCEPT ![n] = "connect"]
    /\ CloseLinks({n}, Slaves(n))
    /\ chan' = Unread({n})
    /\ UNCHANGED <<idVars, master_repl_offset, backlog, data, disk,
                   nwrites, nfaults, nsaves, ncrashes, setup>>

\* REPLICAOF NO ONE: replicationUnsetMaster.  shiftReplicationId keeps the old
\* ID for the offsets the old history and the new one share.
ShiftOffset(n) == master_repl_offset[n] + 1

\* The bug of going on under the ID of the old master.
PromotedKeepsId(n) == UNCHANGED idVars

PromotedId(n) == NewId(n, replid[n], ShiftOffset(n))

UnsetMaster(n) ==
    /\ masterhost[n] # None /\ nreconf < setup.reconf
    /\ nreconf' = nreconf + 1
    /\ masterhost' = [masterhost EXCEPT ![n] = None]
    /\ PromotedId(n)
    /\ master' = [master EXCEPT ![n] = NoMaster]
    /\ repl_state' = [repl_state EXCEPT ![n] = "none"]
    /\ CloseLinks({n}, Slaves(n))
    /\ chan' = Unread({n})
    /\ UNCHANGED <<master_repl_offset, backlog, data, disk, nwrites, nfaults, nsaves, ncrashes, setup>>

\* CONFIG SET repl-backlog-size: the content is dropped.
ResizeBacklog(n) ==
    /\ HasBacklog(n) /\ nfaults < setup.faults
    /\ nfaults' = nfaults + 1
    /\ backlog' = [backlog EXCEPT ![n] = EmptyBacklog(master_repl_offset[n])]
    /\ UNCHANGED <<masterhost, repl_state, idVars, master_repl_offset, master,
                   data, disk, linkVars, nwrites, nreconf, nsaves, ncrashes, setup>>

-----------------------------------------------------------------------------
(* Persistence.                                                            *)

\* SAVE, or a BGSAVE that completes.
SaveRdb(n) ==
    /\ disk[n] # Snapshot(n) /\ nsaves < setup.saves
    /\ nsaves' = nsaves + 1
    /\ disk' = [disk EXCEPT ![n] = Snapshot(n)]
    /\ UNCHANGED <<masterhost, repl_state, idVars, master_repl_offset, backlog,
                   master, data, linkVars, nwrites, nreconf, nfaults, ncrashes, setup>>

\* Crash and restart, with the replicaof line of the configuration file as it
\* may have been rewritten.  loadDataFromDisk takes the ID and offset of the
\* RDB file only when the instance starts as a replica.
RestoresId(h, d) == h # None /\ d.info

CrashRestart(n, h) ==
    LET d == disk[n] IN
    /\ ncrashes < setup.crashes /\ ncrashes' = ncrashes + 1
    /\ masterhost' = [masterhost EXCEPT ![n] = h]
    /\ repl_state' = [repl_state EXCEPT ![n] = IF h = None THEN "none" ELSE "connect"]
    /\ data' = [data EXCEPT ![n] = d.data]
    /\ replid' = [replid EXCEPT ![n] = IF RestoresId(h, d) THEN d.replid
                                       ELSE Id(n, nextid[n])]
    /\ nextid' = [nextid EXCEPT ![n] = @ + 1]
    /\ replid2' = [replid2 EXCEPT ![n] = NoId]
    /\ second_replid_offset' = [second_replid_offset EXCEPT ![n] = -1]
    /\ master_repl_offset' = [master_repl_offset EXCEPT
                                ![n] = IF RestoresId(h, d) THEN d.offset ELSE 0]
    /\ master' = [master EXCEPT
                    ![n] = IF RestoresId(h, d)
                             THEN [replid |-> d.replid, reploff |-> d.offset]
                             ELSE NoMaster]
    /\ backlog' = [backlog EXCEPT ![n] = NoBacklog]
    /\ CloseLinks({n}, {x \in Nodes : masterhost[x] = n /\ link[x] # "down"})
    /\ chan' = Unread({n})
    /\ UNCHANGED <<disk, nwrites, nreconf, nfaults, nsaves, setup>>

-----------------------------------------------------------------------------
Protocol(n) == \/ Connect(n) \/ SyncCommand(n) \/ StartBgsave(n)
               \/ ContinueReply(n) \/ FullResyncReply(n) \/ ErrorReply(n)
               \/ LoadRdb(n) \/ Apply(n)

Next == \E n \in Members :
    \/ Protocol(n) \/ Write(n) \/ LinkLost(n) \/ DropSlave(n)
    \/ BacklogExpire(n) \/ ResizeBacklog(n) \/ LoadRdbFails(n)
    \/ \E h \in Members \ {n} : SetMaster(n, h)
    \/ UnsetMaster(n)
    \/ SaveRdb(n)
    \/ \E h \in (Members \ {n}) \cup {None} : CrashRestart(n, h)

\* The event loop runs every handler that is ready, replicationCron retries,
\* and a replica notices that its master closed the link.
Fairness ==
    \A n \in Nodes :
        /\ WF_vars(Connect(n)) /\ WF_vars(SyncCommand(n)) /\ WF_vars(StartBgsave(n))
        /\ WF_vars(ContinueReply(n)) /\ WF_vars(FullResyncReply(n))
        /\ WF_vars(ErrorReply(n)) /\ WF_vars(LoadRdb(n)) /\ WF_vars(Apply(n))
        /\ WF_vars(link[n] = "eof" /\ LinkLost(n))

Spec == Init /\ [][Next]_vars
FairSpec == Spec /\ Fairness

-----------------------------------------------------------------------------
Ids == (Nodes \cup {None}) \X Nat
Messages == [t : {"cmd"}, w : Nat] \cup [t : {"cont"}, replid : Ids]
            \cup [t : {"err"}]
            \cup [t : {"full"}, rdb : [data : Seq(Nat), replid : Ids,
                                       offset : Nat, info : BOOLEAN]]

TypeOK ==
    /\ masterhost \in [Nodes -> Nodes \cup {None}]
    /\ repl_state \in [Nodes -> {"none", "connect", "psync", "transfer", "connected"}]
    /\ replid \in [Nodes -> Ids] /\ replid2 \in [Nodes -> Ids]
    /\ second_replid_offset \in [Nodes -> Int]
    /\ master_repl_offset \in [Nodes -> Nat]
    /\ backlog \in [Nodes -> [off : Nat, items : Seq(Nat)]]
    /\ master \in [Nodes -> [replid : Ids, reploff : Int]]
    /\ data \in [Nodes -> Seq(Nat)]
    /\ disk \in [Nodes -> [data : Seq(Nat), replid : Ids, offset : Int, info : BOOLEAN]]
    /\ link \in [Nodes -> {"down", "open", "eof"}]
    /\ slave \in [Nodes -> {"none", "wait", "online"}]
    /\ chan \in [Nodes -> Seq(Messages)]
    /\ req \in [Nodes -> [replid : Ids, offset : Int]]
    /\ nextid \in [Nodes -> Nat]
    /\ nwrites \in Nat /\ nreconf \in Nat /\ nfaults \in Nat
    /\ nsaves \in Nat /\ ncrashes \in Nat

\* What dataset d becomes as a replica reads the messages of c.
Read(d, msg) == CASE msg.t = "cmd" -> Append(d, msg.w)
                  [] msg.t = "full" -> msg.rdb.data
                  [] OTHER -> d
Received(d, c) ==
    LET f[i \in 0 .. Len(c)] == IF i = 0 THEN d ELSE Read(f[i - 1], c[i])
    IN  f[Len(c)]

\* What replica n will hold once it has read what is on its way.
View(n) == Received(data[n], chan[n])

\* The point of replication IDs and offsets: a replica that was accepted, by a
\* full or by a partial resynchronisation, ends up with exactly its master's
\* dataset, whatever promotions, demotions, restarts and lost links went before.
ReplicaConverges ==
    \A n \in Nodes : slave[n] = "online" => View(n) = data[masterhost[n]]

\* The assertion of replicationFeedSlaves: replicas attached imply a backlog.
SlavesHaveBacklog ==
    \A m \in Nodes : Slaves(m) # {} => HasBacklog(m)

\* rdbPopulateSaveInfo and the +CONTINUE handler use master_repl_offset and the
\* offset of the (cached) master client for one another: they always agree, and
\* so do the instance's ID and that of its (cached) master.
OffsetInStep ==
    \A n \in Nodes : master[n] # NoMaster =>
        /\ master[n].reploff = master_repl_offset[n]
        /\ master[n].replid = replid[n]

\* Two instances at the same place of the same history hold the same data:
\* what lets a third one move between them with a partial resynchronisation.
SamePlaceSameData ==
    \A a, b \in Nodes :
        HasBacklog(a) /\ HasBacklog(b) /\ replid[a] = replid[b]
        /\ master_repl_offset[a] = master_repl_offset[b] => data[a] = data[b]

\* Once links hold and roles settle, a replica of a master catches up.
CatchesUp ==
    \A n, m \in Nodes :
        <>[](masterhost[n] = m /\ masterhost[m] = None) => <>[](data[n] = data[m])

\* All that the handlers of replication.c take for granted of places in the
\* stream: an instance's offset and ID are those of its (cached) master, replicas
\* imply a backlog, and the same place of the same history means the same data.
PlacesAgree == TypeOK /\ OffsetInStep /\ SlavesHaveBacklog /\ SamePlaceSameData
=============================================================================
