------------------------------- MODULE MCLive -------------------------------
(***************************************************************************)
(* What must eventually happen to a master with full resynchronisations    *)
(* and to the append only file: one of the two is at work in a behaviour,  *)
(* the other is in a situation in which nothing happens.                   *)
(***************************************************************************)
EXTENDS Integers, Sequences

CONSTANTS c1, c2

VARIABLES
    \* of the master
    data, dirty, dirty_before_bgsave, dump, rdb, aof_child, repl_diskless_sync, repl_backlog,
    slaveseldb, master_repl_offset, slaves, replstate, put_online_on_ack, out, bulk, replica, reploff,
    master, mwrites, nflush, mconfig, msaves,
    \* of the append only file
    up, mem, aof_fsync, aof_state, aof_selected_db, aof_buf, file, synced, inode, aof_current_size,
    aof_fsync_offset, second, postponed, write_ok, jobs, child, rewrite_buf, pipe, stop_sending_diff,
    rewrite_scheduled, rdb_child, waiting, acked, txs, setup, nwrites, nrewrites, nsaves, nconfig,
    nfaults, ncrashes

masterVars ==
    <<data, dirty, dirty_before_bgsave, dump, rdb, aof_child, repl_diskless_sync, repl_backlog,
      slaveseldb, master_repl_offset, slaves, replstate, put_online_on_ack, out, bulk, replica, reploff,
      master, mwrites, nflush, mconfig, msaves>>
logVars ==
    <<up, mem, aof_fsync, aof_state, aof_selected_db, aof_buf, file, synced, inode, aof_current_size,
      aof_fsync_offset, second, postponed, write_ok, jobs, child, rewrite_buf, pipe, stop_sending_diff,
      rewrite_scheduled, rdb_child, waiting, acked, txs, setup, nwrites, nrewrites, nsaves, nconfig,
      nfaults, ncrashes>>
allVars == <<masterVars, logVars>>

\* A capable and an incapable replica next to all that shares the child; the same
\* while repl-diskless-sync is changed; or none.
Ending == [clients |-> {c1, c2}, eof |-> {c1}, writes |-> 1, flushes |-> 0, configs |-> 0, saves |-> 1]
Ending2 == [Ending EXCEPT !.configs = 1, !.saves = 0]
NoMaster == [clients |-> {}, eof |-> {}, writes |-> 0, flushes |-> 0, configs |-> 0, saves |-> 0]

Master == INSTANCE FullSync WITH Clients <- {c1, c2}, Dbs <- {0, 1}, Setups <- {Ending, Ending2, NoMaster},
            file <- dump, child <- rdb, setup <- master, nwrites <- mwrites, nconfig <- mconfig,
            nsaves <- msaves

\* Everything that can delay an fsync or the first file, one write; two writes
\* without a BGSAVE; or nothing.
Slow == [dbs |-> {0}, policies |-> {"everysec"}, preamble |-> FALSE, nofsync |-> TRUE, torn |-> FALSE,
         writes |-> 1, tx |-> 0, rewrites |-> 1, saves |-> 1, configs |-> 2, faults |-> 1, crashes |-> 0]
Slow2 == [Slow EXCEPT !.writes = 2, !.saves = 0]
Idle == [dbs |-> {}, policies |-> {"everysec"}, preamble |-> FALSE, nofsync |-> TRUE, torn |-> FALSE,
         writes |-> 0, tx |-> 0, rewrites |-> 0, saves |-> 0, configs |-> 0, faults |-> 0, crashes |-> 0]

Log == INSTANCE Aof WITH Dbs <- {0, 1}, Setups <- {Slow, Slow2, Idle}

LiveInit ==
    /\ Master!Init /\ Log!Init
    /\ (master # NoMaster) # (setup # Idle)
    /\ setup # Idle => repl_diskless_sync

LiveNext ==
    \/ master # NoMaster /\ Master!Next /\ UNCHANGED logVars
    \/ setup # Idle /\ Log!Next /\ UNCHANGED masterVars

\* FullSync!Fairness and Aof!Fairness; the clock of an idle instance may stop.
MasterRuns ==
    /\ WF_masterVars(Master!ChildExit) /\ WF_masterVars(Master!Reap)
    /\ WF_masterVars(Master!CronStartBgsave) /\ WF_masterVars(Master!AofRewriteDone)
    /\ \A c \in {c1, c2} : /\ WF_masterVars(Master!SendBulk(c))
                           /\ WF_masterVars(Master!ReplconfAck(c))
                           /\ WF_masterVars(Master!WriteToClient(c))

LogRuns ==
    LET on == setup # Idle /\ up IN
    /\ WF_logVars(on /\ Log!BeforeSleep) /\ WF_logVars(on /\ Log!FsyncDone)
    /\ WF_logVars(on /\ Log!Tick) /\ WF_logVars(on /\ Log!CronRewrite)
    /\ WF_logVars(on /\ Log!BgsaveEnd) /\ WF_logVars(on /\ Log!ReapRewrite)
    /\ WF_logVars(on /\ Log!ChildAsksToStop) /\ WF_logVars(on /\ Log!AofChildPipeReadable)
    /\ WF_logVars(on /\ Log!ChildDone)
    /\ WF_logVars(setup # Idle /\ Log!Restart)

LiveSpec == LiveInit /\ [][LiveNext]_allVars /\ MasterRuns /\ LogRuns

\* Every full resynchronisation ends, online or closed, and the replicas that stay
\* connected get to the master's dataset: see FullSync!EverySyncEnds and
\* FullSync!Converges (replicationCron, updateSlavesWaitingBgsave).
SyncsConverge == Master!EverySyncEnds /\ Master!Converges

\* With appendfsync everysec every write gets to the disk, and an AOF that was
\* switched on gets its file: see Aof!EverysecIsDurable and Aof!AofGetsOn
\* (flushAppendOnlyFile, startAppendOnly).
LogGetsOn == Log!EverysecIsDurable /\ Log!AofGetsOn
=============================================================================
