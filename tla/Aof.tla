-------------------------------- MODULE Aof --------------------------------
(***************************************************************************)
(* The append only file (aof.c): commands accumulate in aof_buf and are     *)
(* written before the event loop sleeps, under an fsync policy; a rewrite   *)
(* child builds a new file while the parent sends it the differences over a *)
(* pipe; the AOF is switched on and off; writes fail or are short; the      *)
(* process or the machine crashes and the file is loaded again.             *)
(*                                                                         *)
(* The file is a sequence of units.  A unit is a whole command or, when a   *)
(* crash may cut a command, half of one: <<type, argument, half>> with half *)
(* 1 or 2, or 0 for a command that cannot be cut.  Fsync jobs of the        *)
(* background thread (module Bio) are a queue here.  A second of the clock  *)
(* is a Tick.                                                               *)
(***************************************************************************)
EXTENDS Integers, Sequences, FiniteSets, SequencesExt

CONSTANTS Dbs,              \* databases, numbered from 0
          Setups            \* the situations to start from, see Setup

\* Databases in use, values of appendfsync to start with, aof-use-rdb-preamble,
\* no-appendfsync-on-rewrite, whether a crash or a short write can cut a command;
\* and bounds: writes, transactions, BGREWRITEAOF commands, BGSAVEs, CONFIG SET
\* appendonly commands, faults, and crashes and shutdowns.  fsync succeeds (the
\* code does not look at its result).
Setup == [dbs : SUBSET Dbs, policies : SUBSET {"always", "everysec", "no"},
          preamble : BOOLEAN, nofsync : BOOLEAN, torn : BOOLEAN,
          writes : Nat, tx : Nat, rewrites : Nat, saves : Nat, configs : Nat,
          faults : Nat, crashes : Nat]

ASSUME AofAssumption ==
    /\ \E n \in 0 .. Cardinality(Dbs) : Dbs = 0 .. n
    /\ Setups \subseteq Setup

VARIABLES
    up,                 \* the process runs
    mem,                \* the dataset: of each database, its writes in order
    aof_fsync,          \* the policy
    aof_state,          \* "on", "off", "wait_rewrite"
    aof_selected_db,
    aof_buf,
    file,               \* the file under the configured name
    synced,             \* how much of it is known to be on the disk
    inode,              \* its identity: a rewrite makes a new one
    aof_current_size, aof_fsync_offset,
    second,             \* unixtime > aof_last_fsync
    postponed,          \* aof_flush_postponed_start: 0 none, 1 set, 2 long ago
    write_ok,           \* aof_last_write_status = C_OK
    jobs,               \* fsyncs of the background thread
    child,              \* the rewrite child
    rewrite_buf,        \* aof_rewrite_buf_blocks
    pipe,               \* the differences on their way to the child
    stop_sending_diff,
    rewrite_scheduled,
    rdb_child,
    waiting,            \* the writes whose replies are not sent yet
    acked,              \* the writes whose clients have their reply
    txs,                \* the first of the two writes of each transaction
    setup,              \* the situation this behaviour started from
    nwrites, nrewrites, nsaves, nconfig, nfaults, ncrashes

dataVars == <<mem, waiting, acked, txs, nwrites>>
fileVars == <<file, synced, inode>>
flushVars == <<aof_buf, aof_current_size, aof_fsync_offset, second, postponed,
               write_ok, jobs>>
rewriteVars == <<child, rewrite_buf, pipe, stop_sending_diff>>
bounds == <<setup, nrewrites, nsaves, nconfig, nfaults, ncrashes>>
vars == <<up, dataVars, aof_fsync, aof_state, aof_selected_db, fileVars, flushVars,
          rewriteVars, rewrite_scheduled, rdb_child, bounds>>

NoChild == [st |-> "none", snap |-> <<>>, diff |-> <<>>]
Empty == [d \in Dbs |-> <<>>]

Init ==
    /\ setup \in Setups
    /\ up = TRUE
    /\ mem = Empty /\ waiting = {} /\ acked = {} /\ txs = {} /\ nwrites = 0
    /\ aof_fsync \in setup.policies
    /\ aof_state = "on" /\ aof_selected_db = -1
    /\ file = <<>> /\ synced = 0 /\ inode = 0
    /\ aof_buf = <<>> /\ aof_current_size = 0 /\ aof_fsync_offset = 0
    /\ second = FALSE /\ postponed = 0 /\ write_ok = TRUE /\ jobs = <<>>
    /\ child = NoChild /\ rewrite_buf = <<>> /\ pipe = <<>>
    /\ stop_sending_diff = FALSE
    /\ rewrite_scheduled = FALSE /\ rdb_child = FALSE
    /\ nrewrites = 0 /\ nsaves = 0 /\ nconfig = 0 /\ nfaults = 0 /\ ncrashes = 0

Fault == nfaults < setup.faults /\ nfaults' = nfaults + 1

-----------------------------------------------------------------------------
(* Feeding.                                                                *)

Units(t, arg) == IF setup.torn THEN << <<t, arg, 1>>, <<t, arg, 2>> >>
                         ELSE << <<t, arg, 0>> >>

SelectUnits(db) == IF db # aof_selected_db THEN Units("select", db) ELSE <<>>

\* propagate and feedAppendOnlyFile: to the buffer if the AOF is on, and to the
\* differences if a rewrite is in progress.
Feed(db, us) ==
    IF aof_state = "off"
      THEN UNCHANGED <<aof_buf, rewrite_buf, aof_selected_db>>
      ELSE LET all == SelectUnits(db) \o us IN
           /\ aof_selected_db' = db
           /\ aof_buf' = IF aof_state = "on" THEN aof_buf \o all ELSE aof_buf
           /\ rewrite_buf' = IF child.st # "none" THEN rewrite_buf \o all
                                                 ELSE rewrite_buf

\* processCommand refuses writes while the AOF cannot be written.
WritesAllowed == aof_state = "off" \/ write_ok

\* A write command.
Write(db) ==
    /\ WritesAllowed /\ nwrites < setup.writes
    /\ nwrites' = nwrites + 1
    /\ mem' = [mem EXCEPT ![db] = Append(@, nwrites + 1)]
    /\ waiting' = waiting \cup {nwrites + 1}
    /\ Feed(db, Units("write", nwrites + 1))
    /\ UNCHANGED <<up, acked, txs, aof_fsync, aof_state, fileVars, aof_current_size,
                   aof_fsync_offset, second, postponed, write_ok, jobs, child, pipe,
                   stop_sending_diff, rewrite_scheduled, rdb_child, bounds>>

TxUnits(n) == Units("multi", 0) \o Units("write", n) \o Units("write", n + 1)
                \o Units("exec", 0)

\* EXEC of a transaction with two writes, wrapped in MULTI and EXEC.
Exec(db) ==
    /\ WritesAllowed /\ nwrites + 1 < setup.writes /\ Cardinality(txs) < setup.tx
    /\ nwrites' = nwrites + 2
    /\ txs' = txs \cup {nwrites + 1}
    /\ mem' = [mem EXCEPT ![db] = @ \o <<nwrites + 1, nwrites + 2>>]
    /\ waiting' = waiting \cup {nwrites + 1, nwrites + 2}
    /\ Feed(db, TxUnits(nwrites + 1))
    /\ UNCHANGED <<up, acked, aof_fsync, aof_state, fileVars, aof_current_size,
                   aof_fsync_offset, second, postponed, write_ok, jobs, child, pipe,
                   stop_sending_diff, rewrite_scheduled, rdb_child, bounds>>

-----------------------------------------------------------------------------
(* flushAppendOnlyFile.                                                    *)

\* What server.aof_fd refers to.
aof_fd == IF aof_state = "off" THEN -1 ELSE inode

\* The bug of never fsyncing next to a child.
NoFsyncNextToChild == child.st # "none" \/ rdb_child

NoFsyncNow == setup.nofsync /\ (child.st # "none" \/ rdb_child)

\* Who forces a flush, stopAppendOnly and prepareForShutdown, fsyncs after it.
SyncedAfter(force, n) == synced' = IF force THEN Len(file') ELSE n

\* try_fsync, for a size of n and file' written.
TryFsync(force, n, sync_in_progress) ==
    IF NoFsyncNow
      THEN SyncedAfter(force, synced) /\ UNCHANGED <<jobs, aof_fsync_offset, second>>
    ELSE CASE aof_fsync = "always" ->
                /\ SyncedAfter(force, Len(file'))
                /\ aof_fsync_offset' = n
                /\ second' = FALSE
                /\ UNCHANGED jobs
           [] aof_fsync = "everysec" /\ second ->
                /\ IF sync_in_progress THEN UNCHANGED <<jobs, aof_fsync_offset>>
                   ELSE /\ jobs' = Append(jobs, [inode |-> aof_fd, len |-> Len(file')])
                        /\ aof_fsync_offset' = n
                /\ second' = FALSE
                /\ SyncedAfter(force, synced)
           [] OTHER -> /\ SyncedAfter(force, synced)
                       /\ UNCHANGED <<jobs, aof_fsync_offset, second>>

\* The bug of an fsync that only a write can trigger.
IdleFsyncNever == FALSE

\* With an empty buffer there may still be something to fsync.
IdleFsync == /\ aof_fsync = "everysec" /\ aof_fsync_offset # aof_current_size
             /\ second /\ jobs = <<>>

\* An fsync is in progress: wait for it, for two seconds at most.
Postpone(force) == /\ aof_fsync = "everysec" /\ ~ force
                   /\ jobs # <<>> /\ postponed # 2

\* The whole buffer is written.
WriteAll(force) ==
    /\ aof_state # "off"
    /\ file' = file \o aof_buf
    /\ aof_current_size' = aof_current_size + Len(aof_buf)
    /\ aof_buf' = <<>> /\ write_ok' = TRUE
    /\ TryFsync(force, aof_current_size + Len(aof_buf), jobs # <<>>)
    /\ UNCHANGED nfaults

Unwritten(k) == SubSeq(aof_buf, k + 1, Len(aof_buf))

\* Nothing is written, or k units and they cannot be removed again with
\* ftruncate.  With the policy "always" the server exits.
WriteFails(force) ==
    /\ IF aof_state = "off" THEN UNCHANGED nfaults ELSE Fault
    /\ \E k \in 0 .. (IF aof_state = "off" THEN 0 ELSE Len(aof_buf) - 1) :
         /\ file' = file \o SubSeq(aof_buf, 1, k)
         /\ IF aof_fsync = "always"
              THEN UNCHANGED <<synced, aof_current_size, aof_buf, write_ok>>
              ELSE /\ aof_current_size' = aof_current_size + k
                   /\ aof_buf' = Unwritten(k)
                   /\ write_ok' = FALSE
                   /\ SyncedAfter(force, synced)
    /\ UNCHANGED <<jobs, aof_fsync_offset, second>>

Flush(force) ==
    IF aof_buf = <<>>
      THEN /\ file' = file
           /\ IF IdleFsync THEN TryFsync(force, aof_current_size, FALSE)
              ELSE /\ SyncedAfter(force, synced)
                   /\ UNCHANGED <<jobs, aof_fsync_offset, second>>
           /\ UNCHANGED <<aof_buf, aof_current_size, write_ok, postponed, nfaults>>
      ELSE IF Postpone(force)
      THEN /\ postponed' = 1
           /\ UNCHANGED <<file, synced, aof_buf, aof_current_size, write_ok, jobs,
                          aof_fsync_offset, second, nfaults>>
      ELSE /\ postponed' = 0
           /\ WriteAll(force) \/ WriteFails(force)

\* exit(1) in flushAppendOnlyFile, after a step that called it.
ExitsOnError == aof_fsync = "always" /\ aof_buf' # <<>>

\* beforeSleep: flush, then the replies go out (if the server lives).
BeforeSleep ==
    /\ Flush(FALSE)
    /\ up' = ~ ExitsOnError
    /\ IF up' THEN acked' = acked \cup waiting /\ waiting' = {}
             ELSE UNCHANGED <<acked, waiting>>
    /\ UNCHANGED <<mem, txs, nwrites, aof_fsync, aof_state, aof_selected_db, inode,
                   rewriteVars, rewrite_scheduled, rdb_child,
                   nrewrites, nsaves, nconfig, ncrashes, setup>>

\* The background thread ends an fsync: what was in the file when it was asked
\* for is on the disk, if it is still the same file.
FsyncDone ==
    /\ jobs # <<>>
    /\ jobs' = Tail(jobs)
    /\ synced' = IF Head(jobs).inode = inode /\ Head(jobs).len > synced
                   THEN Head(jobs).len ELSE synced
    /\ UNCHANGED <<up, dataVars, aof_fsync, aof_state, aof_selected_db, file, inode,
                   aof_buf, aof_current_size, aof_fsync_offset, second, postponed,
                   write_ok, rewriteVars, rewrite_scheduled, rdb_child, bounds>>

Tick ==
    /\ ~ second \/ postponed = 1
    /\ second' = TRUE
    /\ postponed' = IF postponed = 1 THEN 2 ELSE postponed
    /\ UNCHANGED <<up, dataVars, aof_fsync, aof_state, aof_selected_db, fileVars,
                   aof_buf, aof_current_size, aof_fsync_offset, write_ok, jobs,
                   rewriteVars, rewrite_scheduled, rdb_child, bounds>>

-----------------------------------------------------------------------------
(* Rewriting.                                                              *)

\* rewriteAppendOnlyFileRio: the database with a SELECT each; or an RDB.
DumpDb(d) == IF mem[d] = <<>> THEN <<>>
             ELSE << <<"select", d, 0>> >>
                    \o [i \in 1 .. Len(mem[d]) |-> <<"write", mem[d][i], 0>>]
Dump == IF setup.preamble THEN << <<"rdb", mem, 0>> >>
        ELSE FlattenSeq([i \in 1 .. Cardinality(Dbs) |-> DumpDb(i - 1)])

\* The bug of not asking for a SELECT after the fork.
SeldbKept == aof_selected_db

SeldbAfterFork == -1

\* rewriteAppendOnlyFileBackground, when there is no child.
Fork ==
    /\ child' = [st |-> "dump", snap |-> Dump, diff |-> <<>>]
    /\ stop_sending_diff' = FALSE
    /\ rewrite_scheduled' = FALSE
    /\ aof_selected_db' = SeldbAfterFork
    /\ UNCHANGED nfaults

ForkFails ==
    /\ Fault
    /\ UNCHANGED <<child, stop_sending_diff, rewrite_scheduled, aof_selected_db>>

NoChildren == child.st = "none" /\ ~ rdb_child

\* BGREWRITEAOF, or the automatic rewrite of serverCron.
Bgrewriteaof ==
    /\ nrewrites < setup.rewrites /\ nrewrites' = nrewrites + 1
    /\ child.st = "none"
    /\ IF rdb_child
         THEN /\ rewrite_scheduled' = TRUE
              /\ UNCHANGED <<child, stop_sending_diff, aof_selected_db, nfaults>>
         ELSE Fork \/ ForkFails
    /\ UNCHANGED <<up, dataVars, aof_fsync, aof_state, fileVars, flushVars, rewrite_buf,
                   pipe, rdb_child, nsaves, nconfig, ncrashes, setup>>

\* serverCron starts a scheduled rewrite.
CronRewrite ==
    /\ NoChildren /\ rewrite_scheduled
    /\ Fork \/ ForkFails
    /\ UNCHANGED <<up, dataVars, aof_fsync, aof_state, fileVars, flushVars, rewrite_buf,
                   pipe, rdb_child, nrewrites, nsaves, nconfig, ncrashes, setup>>

\* A BGSAVE, which excludes a rewrite.
BgsaveStart ==
    /\ nsaves < setup.saves /\ nsaves' = nsaves + 1
    /\ NoChildren
    /\ rdb_child' = TRUE
    /\ UNCHANGED <<up, dataVars, aof_fsync, aof_state, aof_selected_db, fileVars,
                   flushVars, rewriteVars, rewrite_scheduled,
                   nrewrites, nconfig, nfaults, ncrashes, setup>>

BgsaveEnd ==
    /\ rdb_child /\ rdb_child' = FALSE
    /\ UNCHANGED <<up, dataVars, aof_fsync, aof_state, aof_selected_db, fileVars,
                   flushVars, rewriteVars, rewrite_scheduled, bounds>>

childOnly == <<up, dataVars, aof_fsync, aof_state, aof_selected_db, fileVars, flushVars,
               rewrite_scheduled, rdb_child, bounds>>

SendDiffAllowed == ~ stop_sending_diff

\* aofChildWriteDiffData: as much as the pipe takes.
AofChildWriteDiffData ==
    /\ child.st # "none" /\ rewrite_buf # <<>> /\ SendDiffAllowed
    /\ \E k \in 1 .. Len(rewrite_buf) :
         /\ pipe' = pipe \o SubSeq(rewrite_buf, 1, k)
         /\ rewrite_buf' = SubSeq(rewrite_buf, k + 1, Len(rewrite_buf))
    /\ UNCHANGED <<childOnly, child, stop_sending_diff>>

\* aofReadDiffFromParent, while the child writes the dataset or waits.
ChildReadDiff ==
    /\ child.st = "dump" /\ pipe # <<>>
    /\ child' = [child EXCEPT !.diff = @ \o pipe]
    /\ pipe' = <<>>
    /\ UNCHANGED <<childOnly, rewrite_buf, stop_sending_diff>>

\* The child writes "!" when it has written the dataset.
ChildAsksToStop ==
    /\ child.st = "dump"
    /\ child' = [child EXCEPT !.st = "asked"]
    /\ UNCHANGED <<childOnly, rewrite_buf, pipe, stop_sending_diff>>

\* aofChildPipeReadable: the parent stops sending and answers "!".
AofChildPipeReadable ==
    /\ child.st = "asked"
    /\ child' = [child EXCEPT !.st = "acked"]
    /\ stop_sending_diff' = TRUE
    /\ UNCHANGED <<childOnly, rewrite_buf, pipe>>

\* The child reads what is left in the pipe, appends the differences, fsyncs.
ChildDone ==
    /\ child.st = "acked"
    /\ child' = [child EXCEPT !.st = "ok", !.diff = @ \o pipe]
    /\ pipe' = <<>>
    /\ UNCHANGED <<childOnly, rewrite_buf, stop_sending_diff>>

\* The child fails, is killed, or waits too long for the answer.
ChildFails ==
    /\ child.st \in {"dump", "asked", "acked"} /\ Fault
    /\ child' = [child EXCEPT !.st = "err"]
    /\ UNCHANGED <<up, dataVars, aof_fsync, aof_state, aof_selected_db, fileVars,
                   flushVars, rewrite_scheduled, rdb_child, rewrite_buf, pipe,
                   stop_sending_diff, nrewrites, nsaves, nconfig, ncrashes, setup>>

BufAfterRewrite == <<>>

Cleanup ==
    /\ child' = NoChild /\ rewrite_buf' = <<>> /\ pipe' = <<>>
    /\ UNCHANGED stop_sending_diff

\* backgroundRewriteDoneHandler: append what the child did not get, rename, and
\* go on with the new file.
RewriteDone ==
    LET written == child.snap \o child.diff
        new == written \o rewrite_buf
    IN  /\ child.st = "ok"
        /\ file' = new /\ inode' = inode + 1
        /\ IF aof_state = "off"
             THEN /\ synced' = Len(written)
                  /\ UNCHANGED <<aof_selected_db, aof_buf, aof_current_size,
                                 aof_fsync_offset, jobs>>
             ELSE /\ synced' = IF aof_fsync = "always" THEN Len(new) ELSE Len(written)
                  /\ jobs' = IF aof_fsync = "everysec"
                               THEN Append(jobs, [inode |-> inode + 1, len |-> Len(new)])
                               ELSE jobs
                  /\ aof_selected_db' = -1
                  /\ aof_current_size' = Len(new) /\ aof_fsync_offset' = Len(new)
                  /\ aof_buf' = BufAfterRewrite
        /\ aof_state' = IF aof_state = "wait_rewrite" THEN "on" ELSE aof_state
        /\ UNCHANGED <<rewrite_scheduled, nfaults>>

ScheduledAfterFailure == rewrite_scheduled \/ aof_state = "wait_rewrite"

\* The child failed, or its file cannot be opened, completed or renamed.
RewriteFailed ==
    /\ IF child.st = "ok" THEN Fault ELSE UNCHANGED nfaults
    /\ rewrite_scheduled' = ScheduledAfterFailure
    /\ UNCHANGED <<fileVars, aof_state, aof_selected_db, aof_buf, aof_current_size,
                   aof_fsync_offset, jobs>>

ReapRewrite ==
    /\ child.st \in {"ok", "err"}
    /\ RewriteDone \/ RewriteFailed
    /\ Cleanup
    /\ UNCHANGED <<up, dataVars, aof_fsync, second, postponed, write_ok, rdb_child,
                   nrewrites, nsaves, nconfig, ncrashes, setup>>

-----------------------------------------------------------------------------
(* Switching the AOF on and off, shutdown, crash and load.                 *)

\* CONFIG SET appendonly no; stopAppendOnly kills the child.
StopAppendOnly ==
    /\ aof_state # "off"
    /\ nconfig < setup.configs /\ nconfig' = nconfig + 1
    /\ Flush(TRUE)
    /\ up' = ~ ExitsOnError
    /\ aof_state' = "off" /\ aof_selected_db' = -1
    /\ Cleanup
    /\ UNCHANGED <<dataVars, aof_fsync, inode, rewrite_scheduled, rdb_child,
                   nrewrites, nsaves, ncrashes, setup>>

\* CONFIG SET appendonly yes, or restartAOFAfterSYNC; a rewrite has to make the
\* file first, and one in progress does not have the differences.
StartAppendOnly ==
    /\ aof_state = "off"
    /\ nconfig < setup.configs /\ nconfig' = nconfig + 1
    /\ IF rdb_child
         THEN /\ rewrite_scheduled' = TRUE
              /\ aof_state' = "wait_rewrite" /\ second' = FALSE
              /\ UNCHANGED <<rewriteVars, aof_selected_db, nfaults>>
         ELSE /\ rewrite_buf' = <<>> /\ pipe' = <<>>
              /\ \/ Fork /\ aof_state' = "wait_rewrite" /\ second' = FALSE
                 \/ /\ Fault
                    /\ child' = NoChild
                    /\ UNCHANGED <<stop_sending_diff, rewrite_scheduled, aof_selected_db,
                                   aof_state, second>>
    /\ UNCHANGED <<up, dataVars, aof_fsync, fileVars, aof_buf, aof_current_size,
                   aof_fsync_offset, postponed, write_ok, jobs, rdb_child,
                   nrewrites, nsaves, ncrashes, setup>>

\* prepareForShutdown: a rewrite child that still works is killed.
ChildAfterKill ==
    IF child.st \in {"dump", "asked", "acked"} THEN [child EXCEPT !.st = "err"] ELSE child

\* A mutant: the buffer is not flushed.
FsyncWithoutFlush == file' = file /\ synced' = Len(file) /\ UNCHANGED <<flushVars, nfaults>>

FinalFlush == Flush(TRUE)

\* If the final RDB cannot be saved the server goes on.
Shutdown ==
    /\ ncrashes < setup.crashes /\ ncrashes' = ncrashes + 1
    /\ ~ (aof_state = "wait_rewrite" /\ child.st # "none")
    /\ IF aof_state # "off"
         THEN FinalFlush /\ child' = ChildAfterKill
         ELSE UNCHANGED <<file, synced, flushVars, nfaults, child>>
    /\ up' \in {FALSE, ~ ExitsOnError}
    /\ UNCHANGED <<dataVars, aof_fsync, aof_state, aof_selected_db, inode, rewrite_buf,
                   pipe, stop_sending_diff, rewrite_scheduled, rdb_child, nrewrites,
                   nsaves, nconfig, setup>>

\* The process is killed; or the machine stops, and what was not fsynced is lost
\* from some point on.
Crash ==
    /\ ncrashes < setup.crashes /\ ncrashes' = ncrashes + 1
    /\ up' = FALSE
    /\ \/ UNCHANGED <<file, synced>>
       \/ \E k \in synced .. Len(file) : file' = SubSeq(file, 1, k) /\ synced' = k
    /\ UNCHANGED <<dataVars, aof_fsync, aof_state, aof_selected_db, inode, flushVars,
                   rewriteVars, rewrite_scheduled, rdb_child,
                   nrewrites, nsaves, nconfig, nfaults, setup>>

\* loadAppendOnlyFile, one unit: "multi" is the queue of the open transaction.
\* Half a command followed by another one is a format error, at which the process
\* exits: bad.
LoadStart == [mem |-> Empty, db |-> 0, multi |-> <<>>, inmulti |-> FALSE,
              pos |-> 0, valid_up_to |-> 0, valid_before_multi |-> 0, torn |-> FALSE,
              bad |-> FALSE]

Run(s, u) == CASE u[1] = "select" -> [s EXCEPT !.db = u[2]]
               [] u[1] = "write"  -> [s EXCEPT !.mem[s.db] = Append(@, u[2])]
               [] OTHER           -> s

LoadUnit(s, u) ==
    LET r == [s EXCEPT !.pos = @ + 1, !.torn = FALSE]
        q == [r EXCEPT !.valid_up_to = r.pos,
                       !.valid_before_multi = IF u[1] = "multi" THEN s.valid_up_to ELSE @]
    IN  CASE s.bad              -> s
          [] s.torn /\ u[3] # 2 -> [s EXCEPT !.bad = TRUE]
          [] u[3] = 1           -> [r EXCEPT !.torn = TRUE]
          [] u[1] = "rdb"       -> [r EXCEPT !.mem = u[2]]
          [] u[1] = "exec"      -> [FoldLeft(Run, q, s.multi)
                                      EXCEPT !.multi = <<>>, !.inmulti = FALSE]
          [] s.inmulti /\ u[1] # "exec" -> [q EXCEPT !.multi = Append(@, u)]
          [] ~ s.inmulti /\ u[1] = "multi" -> [q EXCEPT !.inmulti = TRUE]
          [] OTHER              -> Run(q, u)

Load(f) == FoldLeft(LoadUnit, LoadStart, f)

\* The bug of not cutting a half transaction.
CutNever(l) == l.pos

\* Where a file that ends unexpectedly is cut (aof-load-truncated yes).
CutAt(l) == IF l.torn THEN l.valid_up_to
            ELSE IF l.inmulti THEN l.valid_before_multi ELSE l.pos

Restart ==
    LET l == Load(file)
        f == SubSeq(file, 1, CutAt(l))
    IN  /\ ~ up /\ ~ l.bad /\ up' = TRUE
        /\ mem' = l.mem
        /\ acked' = acked \cap UNION {ToSet(l.mem[d]) : d \in Dbs} /\ waiting' = {}
        /\ file' = f /\ synced' = IF synced < Len(f) THEN synced ELSE Len(f)
        /\ aof_state' = "on" /\ aof_selected_db' = -1
        /\ aof_buf' = <<>> /\ aof_current_size' = Len(f) /\ aof_fsync_offset' = Len(f)
        /\ second' = FALSE /\ postponed' = 0 /\ write_ok' = TRUE /\ jobs' = <<>>
        /\ child' = NoChild /\ rewrite_buf' = <<>> /\ pipe' = <<>>
        /\ stop_sending_diff' = FALSE
        /\ rewrite_scheduled' = FALSE /\ rdb_child' = FALSE
        /\ UNCHANGED <<txs, nwrites, aof_fsync, inode, bounds>>

Running ==
    \/ \E db \in setup.dbs : Write(db) \/ Exec(db)
    \/ BeforeSleep \/ FsyncDone \/ Tick
    \/ Bgrewriteaof \/ CronRewrite \/ BgsaveStart \/ BgsaveEnd
    \/ AofChildWriteDiffData \/ ChildReadDiff \/ ChildAsksToStop
    \/ AofChildPipeReadable \/ ChildDone \/ ChildFails \/ ReapRewrite
    \/ StopAppendOnly \/ StartAppendOnly \/ Shutdown \/ Crash

Next == (up /\ Running) \/ Restart

Spec == Init /\ [][Next]_vars

\* The event loop and the crons run, the child and the thread make progress.
Fairness ==
    /\ WF_vars(up /\ BeforeSleep) /\ WF_vars(up /\ FsyncDone) /\ WF_vars(up /\ Tick)
    /\ WF_vars(up /\ CronRewrite) /\ WF_vars(up /\ BgsaveEnd) /\ WF_vars(up /\ ReapRewrite)
    /\ WF_vars(up /\ ChildAsksToStop) /\ WF_vars(up /\ AofChildPipeReadable)
    /\ WF_vars(up /\ ChildDone)
    /\ WF_vars(Restart)

LiveSpec == Spec /\ Fairness

-----------------------------------------------------------------------------
(* Properties.                                                             *)

Writes(m) == UNION {ToSet(m[d]) : d \in Dbs}
MaxWrites == Max({s.writes : s \in Setups})

TypeOK ==
    /\ mem \in [Dbs -> Seq(1 .. setup.writes)] /\ acked \cup waiting \subseteq 1 .. nwrites
    /\ aof_state \in {"on", "off", "wait_rewrite"}
    /\ aof_selected_db \in Dbs \cup {-1}
    /\ synced \in 0 .. Len(file)
    /\ postponed \in 0 .. 2 /\ write_ok \in BOOLEAN
    /\ child.st \in {"none", "dump", "asked", "acked", "ok", "err"}
    /\ up /\ aof_state = "on" => aof_current_size = Len(file)
    /\ child.st = "none" => rewrite_buf = <<>> /\ pipe = <<>>
    /\ ~ (child.st # "none" /\ rdb_child)

\* While the AOF is on, what is in the file and in the buffer is well formed and
\* rebuilds the dataset, after any writes, failed and short writes, rewrites,
\* restarts and switches.
LogRebuildsDataset ==
    up /\ aof_state = "on" =>
        LET l == Load(file \o aof_buf) IN ~ l.bad /\ l.mem = mem

\* The dump of the rewrite child, the differences it has, those in the pipe and those
\* the parent still keeps rebuild the dataset: the hand-over of differences in
\* rewriteAppendOnlyFile, aofChildPipeReadable and aofChildWriteDiffData loses and
\* doubles nothing.
RewriteHasAll ==
    up /\ aof_state # "off" /\ child.st \notin {"none", "err"} =>
        Load(child.snap \o child.diff \o pipe \o rewrite_buf).mem = mem

\* Wherever a crash cuts the file, it is loaded, as a past state: no write without those
\* before it, and no transaction in part.
RecoversAPast ==
    up /\ aof_state = "on" =>
      \A k \in synced .. Len(file) :
        LET l == Load(SubSeq(file, 1, k))
            m == l.mem IN
        /\ ~ l.bad
        /\ \A d \in Dbs : IsPrefix(m[d], mem[d])
        /\ \A x \in Writes(m), y \in Writes(mem) : y < x => y \in Writes(m)
        /\ \A t \in txs : t \in Writes(m) <=> t + 1 \in Writes(m)

\* With appendfsync always, a write whose reply was sent is on the disk.
AckedIsDurable ==
    up /\ aof_state = "on" /\ aof_fsync = "always" =>
        acked \subseteq Writes(Load(SubSeq(file, 1, synced)).mem)

\* With appendfsync everysec every write gets to the disk, also the last before a
\* pause and one made while an fsync or a rewrite was in progress.
EverysecIsDurable ==
    \A n \in 1 .. MaxWrites :
        n \in Writes(mem) /\ aof_state = "on" /\ aof_fsync = "everysec"
          ~> \/ n \in Writes(Load(SubSeq(file, 1, synced)).mem)
             \/ aof_state = "off" \/ ~ up

\* An AOF that was switched on gets a file, whatever runs or fails meanwhile.
AofGetsOn == aof_state = "wait_rewrite" ~> aof_state \in {"on", "off"} \/ ~ up

\* SHUTDOWN leaves a file that rebuilds the dataset, unless its last write failed:
\* what a rewrite or an earlier error left in the buffer goes out before the exit.
ShutdownKeepsDataset ==
    [][up /\ Shutdown /\ ~ up' /\ aof_state # "off" /\ nfaults' = nfaults
         => Load(file').mem = mem]_vars

\* The file is good at every moment: with the buffer it rebuilds the dataset, and
\* cut anywhere after what was synced it rebuilds a past one.
FileIsGood == TypeOK /\ LogRebuildsDataset /\ RecoversAPast
=============================================================================
