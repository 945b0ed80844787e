# A verification of the Redis 5.0.5 sources

TLA+ models of this repository's annotated Redis 5.0.5 (`src/redis_505/src`), TLC
runs that check them on small instances, and TLAPS proofs for every instance.
Definitions carry the names of the C functions and fields they model;
`PROJECT.json` maps each to its lines, and lists the parts of the system, the
hazards, the runs, the mutants that show what a property would catch, and the
theorems.

## 1. The system

One process with one main thread runs an event loop (`ae.c`) that reads commands
(`networking.c`), executes them (`server.c: call`) on the keyspace (`db.c`, the type
files) and propagates writes to the append only file and to replicas (`propagate`).
Around it run background threads, forked children, other instances and timers.

| part | what is hard | modules |
|---|---|---|
| background threads (`bio.c`, `lazyfree.c`) | the worker works without the lock; wake-ups; a counter without a lock | Bio |
| replication backlog (`replication.c`) | wrap-around, resize, re-creation | Backlog |
| replication between instances (`replication.c`) | continuing a history that diverged | Psync |
| full resynchronisation, master side (`replication.c`, `rdb.c`) | replicas that share one child; a file replaced meanwhile | FullSync |
| append only file (`aof.c`) | short writes, differences of a rewrite, cut files | Aof |
| cluster bus (`cluster.c`) | lost and late messages, equal epochs, crashed voters | Cluster |
| Sentinel (`sentinel.c`) | several Sentinels, stale views, restarts | Sentinel |
| keyspace, expires, eviction, transactions, scripts, blocking lists (`db.c`, `expire.c`, `evict.c`, `multi.c`, `scripting.c`, `blocked.c`, `t_list.c`) | what is propagated, and in which order | Keyspace |
| hash table and radix tree (`dict.c`, `rax.c`) | SCAN while tables resize; node splits and recompression | Dict, Rax, AbstractMap |
| sorted sets, lists, ziplists, listpacks, sets, hashes (`t_zset.c`, `quicklist.c`, `ziplist.c`, `listpack.c`, `intset.c`, `t_set.c`, `t_hash.c`) | several encodings of one value | SortedSet, Quicklist, Ziplist, Listpack, SetType, HashType |
| streams, HyperLogLogs, bit fields (`t_stream.c`, `hyperloglog.c`, `bitops.c`) | packed entries, two indexes of one fact, words of bits | Stream, Hyperloglog, Bitops |
| protocol, RDB files, configuration file (`networking.c`, `rdb.c`, `redis-check-rdb.c`, `config.c`) | input cut anywhere; what is written is what is read | Resp, Rdb, Config |
| clients (`networking.c`, `ae.c`, `pubsub.c`) | a client freed inside a handler; replies before the fsync | Clients |
| blocked clients of modules (`module.c`) | threads next to the main thread | ModuleBlock |
| moving a slot (`cluster.c`) | time-outs, retries and redirections | Migration |
| redis-cli's cluster manager (`redis-cli.c`) | a reshard or fix that stops between two commands; arithmetic of plans | ClusterManager |

How they interact: `propagate` feeds Aof and the stream that Backlog, Psync and
FullSync carry; what it is fed is Keyspace's (and Stream's and SetType's) question.
An AOF rewrite and a BGSAVE exclude each other, which is why FullSync has an
`aof_child` and Aof an `rdb_child`. fsync and close of the AOF are jobs of Bio.
FLUSHALL kills the RDB child and replaces its file. Psync takes the backlog to be a
window of the stream, which is what Backlog_proofs shows of the ring. The votes of
Cluster and the replies of Clients depend on the order of events that `AE_BARRIER`
selects.

`MCCore`, `MCLive`, `MCStructures`, `MCValues` and `MCServices` compose several
components: a behaviour picks one (`part`), the others stand still. The properties of
these runs say of the chosen part what the module says of itself.

## 2. The models

**Bio.** The main thread is the only producer; each type has one worker. Every lock,
wait, signal and unlock is a step, with spurious wake-ups. `lazyfree_objects` is
counted modulo `SizeMod`, as the code's `size_t` is. `CreateLock` and `CreateEnqueue`
are bioCreateBackgroundJob, `Worker...` are bioProcessBackgroundJobs, `Poll` is the
loop of freeMemoryIfNeeded. `Objs(q)` adds up the objects of the jobs of a list.

**Backlog.** The ring buffer byte by byte: `FeedStart`, `FeedChunk` (one iteration of
the copy loop) and `FeedEnd` are feedReplicationBacklog; `Reply` is
addReplyReplicationBacklog. `stream` is a history variable: all that was ever fed.
Bytes that malloc leaves in a new buffer are `Junk`.

**Psync.** An instance has IDs and offsets, a window of the stream as backlog, its
cached or connected master, a dataset (its sequence of writes) and an RDB file.
Actions are syncCommand with its partial and full branches, the start of a BGSAVE,
the three replies a replica reads, loading, applying, REPLICAOF in both directions,
expiry and resizing of the backlog, lost links on either side, saving, and crash with
restart. The handshake before PSYNC is one step. A master notices at once that a
replica closed its link.

**FullSync.** One master and the connections of its replicas: waiting, attaching to a
BGSAVE that is running (with a copy of the other replica's buffer), disk and socket
targets, transfer, going online on the first ACK, and the handler of the child's end.
BGSAVE, SAVE, FLUSHALL and AOF rewrites share the child and `dump.rdb`. Limits of
output buffers and timeouts appear as `FreeClient` at any moment.

**Aof.** A file is a sequence of commands, or of half commands where a crash may cut
one. `Flush` is flushAppendOnlyFile with its postponement, its failed and short writes
and its three policies. `Fork` to `ReapRewrite` are a rewrite: the dump, the
differences in the pipe, the stop sign, the remainder the parent writes. `Load` is
loadAppendOnlyFile with its two cut positions. `Crash` stops the process, or the
machine, which loses any part of the file after the last fsync.

**Cluster.** `node[n]` is n's copy of struct clusterState, and every C function that
changes it is an operator from that record to the next, so the order of effects is the
code's. `ReadHandler` is clusterReadHandler with clusterProcessPacket for one packet;
`Cron`, `CronPing` and `CronSuspect` are clusterCron when an election goes on, when a
node is pinged, when one is suspected; each iteration ends in clusterBeforeSleep.
Links are FIFO, two between each pair of nodes; a link that is closed, or a node that
stops, loses what is under way. Times are not modelled: where the code compares clocks
both outcomes are possible (the record `w`). nodes.conf is kept, as written and as
synced, for nodes that may crash. With `batch` an iteration reads several packets and
a socket becomes writable some iterations later. SETSLOT is used as documented.

**Sentinel.** One monitored master. `st[s]` is what Sentinel s keeps in memory,
`disk[s]` what its configuration file holds; every function of `sentinel.c` that
changes it is an operator on that record. `Timer` is one pass of
sentinelHandleRedisInstance for the master with the state machine of the failover.
Questions between Sentinels wait on a link and are answered late, or lost with it
(`Disconnect`); hello messages and INFO replies arrive at any moment or not at all;
SLAVEOF commands wait in `cmds`. `Crash` restarts a Sentinel from its file. Time
limits may pass at any moment. `won` is a history variable: the elections won.

**Keyspace.** A command is an operator from a context (dataset, clock, what call()
looks at afterwards) to contexts; `Commit` is what happens after it: propagation,
touched keys, ready lists. Lazy and active expiry, eviction, MULTI, WATCH, scripts
with both ways of replication and their caches, BLPOP, BRPOP and BRPOPLPUSH. A replica
executes the stream some commands later, when the clock may have moved on.

**Structures and values.** Each module keeps the code's memory in `impl` and the value
it stands for in `ref`; the operations are the code's loops on `impl`, and the
properties compare answers and layout with `ref`. `Dict` and `Rax` implement
`AbstractMap` by a refinement mapping: `TablesAreMaps` says of every call which action
of the map it is (`Put`, `PutNew`, `Remove`, `Clear`, or `Keep` for steps that only
move entries), with the key and value of the call, so that a call that does the work
of another one is caught. Widths that decide control flow are constants: Ziplist and
Listpack have the real lengths, with strings represented by their lengths, except that
Listpack's widest integers are `LongBits` wide and its largest size is `MaxBytes`; a
compressed node of Rax holds `NodeMax` characters; Rdb, Bitops and Hyperloglog have
narrower bytes, words and registers so that every case is reached.

**Clients, ModuleBlock, Migration, ClusterManager.** The life of a client from
accept to freeClient with the event loop's order of reads and writes; the module
threads and the pipe; MIGRATE of one slot between two nodes with clients that follow
redirections; redis-cli repairing or moving a slot command by command, with the
heartbeats of the nodes in between (`FixSpec` of ClusterManager); and the arithmetic of
its plans (`PlanSpec`).

Situations. Most modules take a set `Setups` of situations: which instances take part,
the configuration, and the bounds. Each initial state picks one (`setup`, which never
changes), so one run asks one question of several situations.

## 3. The runs

| run | what it shows |
|---|---|
| `core` (MCCore) | Bio: every job runs exactly once and in order, a pending count of zero means that the work is done, the counter of objects is exact, no wake-up is lost, the wait of the eviction code ends. Backlog: for every way to feed, resize, free and create the ring, the reply to an acceptable offset is the stream. |
| `psync` (MCPsync) | Role swaps, restarts and a chain of three: a resynchronisation that is accepted ends with the master's dataset; offsets stay in step; equal place means equal data; replicas catch up. |
| `fullsync` (MCFullSync) | Whatever transfer a replica gets, snapshot and buffer give the dataset; `dirty = 0` means saved; a child serves the replicas that wait for it. |
| `aof` (MCAof) | File and buffer rebuild the dataset after rewrites, switches, failures and crashes; any cut gives a past state with transactions whole; with `always` an acknowledged write is on the disk; SHUTDOWN leaves the dataset. |
| `live` (MCLive) | Every full resynchronisation ends and replicas converge; with `everysec` every write reaches the disk, and an AOF that is switched on gets its file. |
| `cluster` (MCCluster) | One winner per epoch, also when voters crash; FAIL needs a majority of masters that suspected; when nodes have nothing new to tell each other they agree on all slots, and the last winner has them. |
| `cluster_vote_barrier` (MCCluster) | Ends in a counterexample, see below. |
| `sentinel` (MCSentinel) | One leader per epoch in regular elections, one master per configuration epoch, votes and configuration epochs that never go back, through outages, lost answers, restarts, TILT and administrators. |
| `keyspace` (MCKeyspace) | Replica and AOF end with the master's dataset, no client waits for a list that was announced, list elements are neither lost nor doubled, EXEC does not run after a command changed a watched key, transactions and scripts are seen whole. |
| `structures` (MCStructures) | Hash table and radix tree implement a map, SCAN returns what stays throughout, and every encoding keeps its layout and answers as the value it stands for. |
| `values` (MCValues) | Streams with groups, requests cut anywhere, RDB files saved, damaged and loaded, HyperLogLogs, bit fields, and the configuration file rewritten and read back. |
| `services` (MCServices) | Clients are served in order and after the fsync; blocked module clients; a slot migrated while clients use it keeps its keys; redis-cli closes the slots it reports as fixed, after a reshard or fix that stopped half way too, and names what it cannot fix; its plans cover all slots. |

`cluster_vote_barrier` is a finding: the code does not do what its comment says. A
vote queued on a link that already waits to be written leaves before nodes.conf is
synced. AE_BARRIER orders the events of one socket, and a request and its vote use
two.

### Bounds
Two writes suffice to tell a lost from a doubled or reordered one; three in the
rewrite situation of Aof put one each before, during and after the child's dump. A
backlog of two writes overflows with the third item. Ring sizes 2 to 4 with feeds of
up to 4 bytes give inputs shorter than, equal to and longer than the buffer. Two jobs
suffice for order and for a job queued while another runs. Cluster has three voters,
the smallest number in which one may fail and a majority remains, and two candidates;
one voter, in the situations with crashes, makes every vote decide. Sentinel has two
Sentinels with two epochs, and three with one epoch of which one only votes. Tables
have three keys and four buckets at most, lists up to five entries around the fill
limits, strings lengths around every boundary of an encoding. One fault, one crash and
one reconfiguration per situation (more where named) keep the state space within
reach: larger combinations are covered only where a theorem of section 4 says so.

`CHECK_DEADLOCK FALSE` stands where the bounds let a behaviour stop: once writes,
jobs and faults are used up and everything has been delivered, nothing is left to do.
That nothing stops too early is what `ThreadsGetOn`, `CatchesUp`, `SyncsConverge` and
`LogGetsOn` say.

### Fairness
The event loop calls every ready handler and both crons run, so the steps of handlers
and crons are weakly fair (Psync, FullSync, Aof). Children and threads are scheduled
by the kernel, and a thread that keeps asking for a mutex that keeps being released
gets it (strong fairness of the steps of Bio that take a lock). A replica notices that
its master closed the link. No fairness is assumed of clients, administrators, faults
or crashes.

### What the properties except
Where the code does less than one would wish, the model does what the code does, and
the property names the exception, by history that decides no step:

| property | exception | where the code decides it |
|---|---|---|
| `NoLostWakeup` | a list that SORT ... STORE put in the place of a value of another type (`ghost.quiet`) | dbOverwrite does not call signalKeyAsReady (`db.c:225`) |
| `ExecIsolated` | watched keys that expire, or are changed by MOVE, SWAPDB or an eviction (`aside`) | none of them calls signalModifiedKey; for expired keys `tests/unit/multi.tcl` asks for it |
| `NoStrandedCommand` | a client whose slow script ran a nested event loop, until it sends more (`aux.broken`) | server.current_client is NULL afterwards (`networking.c:1558`) |
| `SyncBeforeReply` | replies written while a slow script runs | processEventsWhileBlocked does not flush the AOF (`networking.c:2321`) |
| `NeverLost`, `ReadsLatest`, `MoveClosed` | keys of which a failed MIGRATE left a copy that a client then changed (`twice`, `forked`), see section 6 | `cluster.c: migrateCommand` |
| `FixHeals`, `FixSucceeds` | runs started while the masters disagree (`hasty`); keys of a closed slot the tool did not look for (`looked`); keys at a master that neither owns nor imports the slot (`astray`) | `redis-cli.c: clusterManagerFixOpenSlot` |
| `KeysKept` | keys a master drops when a heartbeat takes the slot from it in the middle of a fix (`midway`), or in a hasty run | `cluster.c: clusterUpdateSlotsConfigWith` |
| `ReloadsAs` | a value that CONFIG SET takes and the file may not hold: the file is refused then | cluster-node-timeout 0 |
| `Settles` | lines of the output buffer limits, which come to rest with the third rewrite | rewriteConfigClientoutputbufferlimitOption |

### Where the situations stop
The passing runs stay out of other corners by their situations. `Crashing` of Aof cuts
commands but has neither transactions nor a preamble, because half a command right after an RDB preamble cuts the file at offset
0, and one inside a transaction cuts it after the MULTI, which then swallows what is
appended. `Transaction` has both but cuts between commands. None combines `configs`
with `crashes`: SHUTDOWN goes through while the first rewrite of a new AOF is
scheduled but not started. fsync of the AOF succeeds: under `always` a failed one is
not noticed. At most two elections begin in a situation of Cluster; voters that crash
have no busy links, and no situation has both SETSLOT and a crash (SETSLOT NODE that
needs no new epoch is saved without fsync).

Two mechanisms of FullSync cover for each other: a SELECT is sent again for a new
replica, and the RDB carries the selected database. Dropping either one alone breaks
no property of the model.

## 4. The proofs

Eight modules hold theorems. Each proves, for every value of the constants that
satisfies the named assumptions of its module (which TLC evaluates in the runs), what
a run checks on a small instance. The bounds of a situation are arbitrary numbers
there: any number of writes, faults, crashes and reconfigurations.

| theorem | property |
|---|---|
| Bio_proofs: `PendingZeroMeansDoneAlways`, `ExactlyOnceInOrderAlways`, `LazyfreeCounterExactAlways` | `PendingZeroMeansDone`, `ExactlyOnceInOrder`, `LazyfreeCounterExact` |
| Backlog_proofs: `TypeCorrect`, `WindowEndsAtOffsetAlways`, `ReplyIsStreamAlways` | `BacklogTypeOK`, `WindowEndsAtOffset`, `ReplyIsStream` |
| FullSync_proofs: `ReplicaGetsDatasetAlways`, `BooksBalanceAlways`, `SlavesImplyBacklog` | `ReplicaGetsDataset`, `BooksBalance`, the assertion of replicationFeedSlaves |
| Psync_proofs: `ReplicaConvergesAlways`, `PlacesAgreeAlways` | `ReplicaConverges`, `PlacesAgree` |
| Sentinel_proofs: `QuorumElectsOneLeader`, `MajorityElectsOneLeader`, `VotesAreKeptAlways` | `RegularLeaderPerEpoch` (twice), the votes' half of `EpochsGrow` |

**Bio.** `IInv` says where each job created is: the list of a type holds exactly the
jobs after the last one deleted, in order, `bio_pending` is its length, the job a
thread works on without the lock is still its head, and a mutex is held by whoever is
between lock and unlock. The counter needs `CountInv` on top of it: modulo its width
it is the sum over the list, plus what the main thread has announced and not yet
queued, minus what the thread has taken off of the job it has not deleted yet. The
sum over a list that grows at one end and shrinks at the other is handled by `Total`
and the lemmas `TotalAppend` and `TotalTail`, the width by `CountsModulo`. Assumed:
`BioAssumption` (one type is lazy free; the counter is wider than one job).

**Backlog.** `StreamInv` says that what is left to copy is the end of the stream, and
`RingInv` that the k-th byte before the write index is the k-th last byte copied; both
also hold between two iterations of the copy loop. `ChunkIInv` is the only hard step,
because a chunk moves the index and overwrites the oldest bytes at once.

**FullSync.** `IInv` adds to the type invariant: what is in the buffer of a replica
takes the snapshot it waits for or holds to the master's dataset and selected database
(`StreamInv`), the announced offset plus the buffered bytes is the master's offset
(`BufferInv`), whoever has asked to synchronise implies a backlog (`BacklogInv`),
`dirty` counts the writes since the file on disk, also across a child that is still
running (`DirtyInv`), and a waiting replica has a child that serves it
(`ChildServesWaiting`).

**Psync** (PsyncTypes_proofs, PsyncPlaces_proofs, PsyncStreams_proofs, Psync_proofs).
The invariants speak of instances that are connected now; what makes them true are
instances, files and backlogs that will meet later. `IInv` therefore asks for a
history H, a dataset for every replication ID and offset, with which everything agrees
that anybody holds or is about to receive: datasets, backlogs, RDB files, the streams
on their way, and replid2 up to its offset (`HistoryInv`). `Base` is what can be said
without H: the two ends of a link fit together, offsets and roles agree, a replica
that is fed ends where its master is, an ID is known only once it was drawn, and
nobody is ahead of a master in its own history. The same H does not do for all time: a
write at a master without a backlog changes the dataset and not the offset, and a
replica that is promoted starts an ID whose past must be that of the old one. So each
step first replaces H by one that is `Ready` for it (`ReadyExists`), rewriting it only
at places that nobody refers to (`HistorySwap`); `Known`, `Private` and `AheadInv` are
there to show that these places are free. Then the step keeps the agreement of each
kind of holder (`PlaceAgreesStep`, `DiskAgreesStep`, `StreamAgreesStep`, `SecondStep`).
Assumed: `PsyncAssumption` (a backlog holds at least one write; no address is None).

**Sentinel.** `IInv` asks for a ballot paper B, one vote per Sentinel and epoch, with
which all agrees that a Sentinel remembers of its own vote or was told of another's; a
told vote is not later than what the voter has in its file; and whoever won a regular
election had the votes of a majority. A vote is only filled in for an epoch later than
all the Sentinel voted in, and the epoch is on the disk before anybody hears of it.
Two majorities meet. sentinelGetLeader asks for a majority of the Sentinels it knows,
and for the quorum. SENTINEL RESET empties the list of those known, so the theorem has
two forms: the quorum is a majority of the group (`MajorityQuorum`), or
nobody uses RESET. An election is regular when
the votes counted are of the failover's own epoch; a failover forced by an
administrator that no election was won for is none. Assumed: `SentinelAssumption` (finitely
many Sentinels, none called `*`).

### Only model-checked
* All liveness (`ThreadsGetOn`, `CatchesUp`, `SyncsConverge`, `LogGetsOn`): fairness
  and ENABLED are outside the prover.
* `TablesAreMaps`, `LayoutSound`, `AnswersExact`, `StreamExact`, `SnapshotExact`,
  `PackedExact`, `RequestsExact`, `RewriteExact`, `PlanExact`: what loops over data
  compute needs induction over data, which the installed provers cannot do with the
  library's theorems, and several of these modules use recursive operators.
* `ConfigSound` and `ConfigEpochGrows` of Sentinel. The latter does not hold for
  unlimited failovers: a Sentinel that missed a change of master and the change back
  learns the newer epoch with the address it already had, and does not save it
  (section 6). In the situations of the run this takes more failovers than there are.
* `OneWinnerPerEpoch` of Cluster holds in its situations and not in general: a vote
  that arrives late counts in its candidate's next attempt (section 6), and a vote may
  leave before it is on the disk (the finding). The other properties of Cluster, those
  of Aof, Keyspace, Clients, ModuleBlock, Migration and ClusterManager have no proof yet.

## 5. Not modelled

GEO, SORT and string commands that compute on one value within one command; the module
API beyond blocked clients and threads; the allocator, active defragmentation and old
encodings; the polling back ends; introspection; LZF and CRC; the command line tools
beyond the cluster manager. Of modelled parts: MEET, FORGET, handshakes, replica
migration, CLUSTER FAILOVER without FORCE, replica rank and cluster state; several
masters of one Sentinel and SENTINEL SET, MONITOR, REMOVE; XREAD and sorted sets among
the blocking commands of Keyspace (module Stream has blocked readers); values of
modules in RDB files; CONFIG GET and includes. `PROJECT.json` gives the reason for
each.

## 6. What modelling the code showed

Besides the finding in section 3, the models met the following, which no line of the
repository contradicts plainly enough to make a run of it, which a property excepts
(section 3), or which a passing run stays out of by its situation.

* Cluster: votes that arrive after their candidate scheduled another attempt, and
  before it starts, count in that attempt (`cluster.c:2490`, which compares with the
  voter's currentEpoch). A replica that hears of its master's demotion from the master
  itself stays its replica (`cluster.c:2295`).
* Sentinel: sentinelGetLeader counts answers against the current epoch, which moves
  while a failover keeps its own (`sentinel.c:3858`); this is why
  `RegularLeaderPerEpoch` is about elections won with votes of the failover's own epoch. A
  configuration learnt with the address already known is not saved.
  `running_scripts` is not decremented when a script is to be retried
  (`sentinel.c:844`).
* Aof: a rewrite that succeeds after a failed write empties the buffer, and only
  writing a buffer clears the error, so writes stay refused until then.
* Backlog: resizeReplicationBacklog says that it keeps the most recent bytes and drops
  all of them. Bio: bioWaitStepOfType waits once, outside a loop, so a spurious wake-up
  ends it early; its caller loops.
* Keyspace: EXPIRE with a time in the past, in a script replicated as a whole, deletes
  the key on the master and only sets an expire on a replica (`expire.c:477`). MOVE,
  SWAPDB and evictions do not call signalModifiedKey, so that a transaction that watches
  the key goes through. A client blocked on a key stays blocked when SORT ... STORE
  replaces a string there by a list (`sort.c:566`, `db.c:225`).
* Configuration: repl-backlog-ttl is written with a unit (`config.c:2156`) and read
  with atoi (`config.c:390`). CONFIG SET takes cluster-node-timeout 0, CONFIG REWRITE
  writes it, and the server then refuses its file.
* Bit fields: the shifts by 64 of a 64 bit signed field are undefined (`bitops.c:261`,
  `bitops.c:361`), and the difference that bounds an increment overflows for values out
  of range (`bitops.c:332`). SET of an unsigned field takes the number as unsigned, so
  that OVERFLOW SAT stores the maximum for a negative one. BITCOUNT counts nothing when
  both ends are negative and in the wrong order.
* Clients: commands that arrive behind a slow script are executed only when the client
  sends more (`networking.c:1558`), and replies written by the nested event loop do not
  wait for the AOF (`networking.c:2321`).
* Modules: RM_GetThreadSafeContext of a client that has disconnected ends the process
  (`module.c:3869`). ModuleBlock has that end (`crashed`); no property speaks of it.
* redis-cli: while a slot without owner is repaired keys may stay behind at a node that
  is not looked at again (`redis-cli.c:4000`). Keys of a closed slot at a node that is not
  its owner are seen only with --cluster-search-multiple-owners. A fix started before
  the masters agree can end with keys lost, and so can a heartbeat between the step
  that makes a new owner and the one that demotes the old one: the demoted master drops
  its keys. A MIGRATE is redirected by a master that neither owns nor imports the slot,
  and the fix gives up. del-node may choose the node that leaves as the new master of a
  replica (`redis-cli.c:4996`). create may leave nodes without a role, of 19 with four
  replicas each for example; the shares of reshard and
  rebalance are rounded in floating point, so that a node may give or get one slot more.
* MIGRATE: a MIGRATE that fails may leave a copy at the target. When a client then
  deletes the key at the source or writes it at the target, a retry with REPLACE cannot
  tell which copy is the newer one; a command on several keys is served by the target as
  soon as the source misses one of them; and a RESTORE REPLACE of an attempt given up
  may arrive late. After a retry the objects and the keys of the two arrays no longer
  correspond when a key has expired (`cluster.c:6009`).
* The checker of RDB files does not look at the checksum when rdbchecksum is off
  (`redis-check-rdb.c:300`), nor whether it is there, which the loader does in any case
  (`rdb.c:2101`).
* HINCRBYFLOAT that fails on a missing key leaves an empty hash (`t_hash.c:603`); XADD
  with ID 0-0 leaves an empty stream; an AOF rewrite leaves out pending entries whose
  stream entry was deleted.
