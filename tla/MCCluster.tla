----------------------------- MODULE MCCluster -----------------------------
(***************************************************************************)
(* The situations in which TLC explores Cluster.                           *)
(***************************************************************************)
EXTENDS Cluster

\* Masters 1 to 3 with a slot each, replicas 4 and 5 of master 1, which is down;
\* nothing happens but that packets are read.
Orphaned ==
    [slaveof |-> <<0, 0, 0, 1, 1>>, owner |-> <<1, 2, 3>>, down |-> {1}, frail |-> {},
     batch |-> FALSE, ops |-> {}, pings |-> 0, suspects |-> 0, elections |-> 0,
     crashes |-> 0, restarts |-> 0, commands |-> 0, timeouts |-> 0]

\* One master, up, and two replicas which may be told to replace it.
Forced ==
    [Orphaned EXCEPT !.slaveof = <<0, 1, 1>>, !.owner = <<1>>, !.down = {},
                     !.ops = {"failover"}, !.commands = 2, !.elections = 2]

\* Both replicas of the failed master stand for election.
Elections == [Orphaned EXCEPT !.elections = 2]
\* The only voter crashes between two requests, at any point.
VoterCrashes == [Forced EXCEPT !.frail = {1}, !.crashes = 1, !.restarts = 1]
\* A manual failover times out, or a link is closed on the way.
Timeouts == [Forced EXCEPT !.commands = 1, !.timeouts = 1]
\* A replica took over; its old master comes back with its old nodes.conf.
Returns ==
    [Orphaned EXCEPT !.slaveof = <<0, 0, 1>>, !.owner = <<1, 2>>, !.ops = {"takeover"},
                     !.commands = 1, !.restarts = 1, !.pings = 2]
\* Both replicas take over without asking anybody, with one config epoch.
Takeovers ==
    [Orphaned EXCEPT !.slaveof = <<0, 0, 1, 1>>, !.owner = <<1, 2>>, !.ops = {"takeover"},
                     !.commands = 2, !.pings = 1]
\* A slot moves to another master, which may be one without slots.
Resharding ==
    [Orphaned EXCEPT !.slaveof = <<0, 0, 0>>, !.owner = <<1, 2>>, !.down = {},
                     !.ops = {"setslot"}, !.commands = 3, !.pings = 2]
\* Masters suspect each other.
Suspicions ==
    [Orphaned EXCEPT !.slaveof = <<0, 0, 0>>, !.down = {}, !.suspects = 2, !.pings = 2]
\* Several packets in one iteration of the event loop.
Batches ==
    [Forced EXCEPT !.slaveof = <<0, 1>>, !.commands = 1, !.elections = 1, !.batch = TRUE,
                   !.pings = 1]

AllSetups == {Elections, VoterCrashes, Timeouts, Returns, Takeovers, Resharding,
              Suspicions, Batches}

\* A vote is queued on a link that is already waiting to become writable.
BusyLinks == {[VoterCrashes EXCEPT !.batch = TRUE, !.pings = 1]}
=============================================================================
