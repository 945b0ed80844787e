------------------------------ MODULE Cluster ------------------------------
(***************************************************************************)
(* Redis Cluster (cluster.c): what a node knows of the cluster, how pings, *)
(* pongs and UPDATE messages move slots between masters, how a master is   *)
(* marked failing, and how a replica is elected in its place.              *)
(*                                                                         *)
(* The state of node n is one record, node[n]: n's own copy of struct      *)
(* clusterState.  Every handler is an operator from that record to the     *)
(* record after it, so that the order of its effects is the code's.        *)
(* Clocks are not modelled: wherever the code compares times, both         *)
(* outcomes are possible.  The set of nodes is fixed (no MEET or FORGET);  *)
(* node names are numbers, ordered as memcmp orders the names.             *)
(***************************************************************************)
EXTENDS Integers, FiniteSetsExt, SequencesExt

CONSTANT Setups     \* the situations a run starts from, see Setup

VARIABLES setup,    \* the situation of this behaviour
          node,     \* node[n]: the memory of n and its nodes.conf
          up,       \* the nodes that run
          net,      \* net[c]: the bytes under way on channel c, see Channel
          left,     \* what the bounds of the setup still allow
          won,      \* history: <<epoch, n>>, n won the election of epoch
          blamed    \* history: the masters that ever suspected a node

vars == <<setup, node, up, net, left, won, blamed>>

NoNode == 0

\* A situation: who replicates whom, who owns which slot, which masters are
\* down and known to be, which nodes may crash (while a vote of theirs is under
\* way), which commands the administrator may use; and the bounds: pings sent on
\* time, nodes suspected, elections begun, crashes, restarts, commands, links
\* closed or manual failovers abandoned for lack of an answer.  batch: an
\* iteration of the event loop reads several packets, and a socket may become
\* writable some iterations later.
Setup == [slaveof : UNION {[N -> N \cup {NoNode}] : N \in SUBSET (1 .. 5)},
          owner : UNION {[S -> 1 .. 5] : S \in SUBSET (1 .. 3)},
          down : SUBSET (1 .. 5), frail : SUBSET (1 .. 5), batch : BOOLEAN,
          ops : SUBSET {"failover", "takeover", "setslot"},
          pings : Nat, suspects : Nat, elections : Nat, crashes : Nat,
          restarts : Nat, commands : Nat, timeouts : Nat]
ASSUME SetupsAssumption == Setups \subseteq Setup

Node == DOMAIN setup.slaveof
Slot == DOMAIN setup.owner

-----------------------------------------------------------------------------
(* The node table of one node, s = node[me].  What the clock and the dice  *)
(* decide in one handler is a record w:                                    *)
(*   sample  the nodes a heartbeat is about besides the suspected ones;    *)
(*   clock   where the failover attempt stands: its delay still runs or    *)
(*           its time is over (closed), votes count (open), it is time for *)
(*           another attempt (retry);                                      *)
(*   recent  this node voted about this master within two node timeouts;   *)
(*   old     the FAIL flag is older than two node timeouts;                *)
(*   mfend   a manual failover has lasted for five seconds;                *)
(*   stale   the failure reports received so far are too old to count.     *)

IsMaster(s, n) == s.slaveof[n] = NoNode
MasterOf(s, n) == IF IsMaster(s, n) THEN n ELSE s.slaveof[n]
\* CLUSTER_NODE_PFAIL and CLUSTER_NODE_FAIL: setting FAIL clears PFAIL.
TimedOut(s, n) == s.flag[n] = "pfail"
Failed(s, n) == s.flag[n] = "fail"
SlotsOf(s, n) == {j \in DOMAIN s.owner : s.owner[j] = n}
Voters(s) == {n \in DOMAIN s.slaveof : IsMaster(s, n) /\ SlotsOf(s, n) # {}}
Later(a, b) == IF a < b THEN b ELSE a
ToDo(s, flags) == [s EXCEPT !.todo = @ \cup flags]

\* The header every message has: the sender's epochs and role, and the slots
\* and the config epoch of its master when it is a replica.
BuildMessageHdr(s, me, type, dst) ==
    [type |-> type, src |-> me, dst |-> dst, reply |-> FALSE, force |-> FALSE,
     cur |-> s.cur, cfg |-> s.cfg[MasterOf(s, me)], slaveof |-> s.slaveof[me],
     slots |-> SlotsOf(s, MasterOf(s, me)), gossip |-> {},
     about |-> NoNode, aboutCfg |-> 0, aboutSlots |-> {}]

\* Each node has a link of its own to every other node; only the answer to a
\* PING goes back on the link it came from.  What is sent on one link arrives in
\* the order it was sent.
Channel(h) == <<h.src, h.dst, h.reply>>
Send(s, msgs) == [s EXCEPT !.sndbuf = FoldSet(LAMBDA h, q : Append(q, h), @, msgs)]

\* A heartbeat tells what the sender thinks of every node it suspects, and of
\* a random sample of the others.
SendPing(s, me, w, type, dsts, reply) ==
    Send(s, {[BuildMessageHdr(s, me, type, d) EXCEPT
                !.reply = reply,
                !.gossip = {<<x, s.flag[x] # "ok">> :
                    x \in {y \in DOMAIN s.flag \ {me} :
                            TimedOut(s, y) \/ y \in w.sample}}] : d \in dsts})

LocalSlaves(s, me) ==
    {n \in DOMAIN s.slaveof \ {me} :
        ~IsMaster(s, n) /\ s.slaveof[n] \in {me, s.slaveof[me]}}

\* nodes.conf
Image(s) == [cur |-> s.cur, vote |-> s.vote, cfg |-> s.cfg, slaveof |-> s.slaveof,
             flag |-> s.flag, owner |-> s.owner, importing |-> s.importing]

\* The file is kept only of a node that may still crash.
SaveConfig(s, fsync) ==
    LET t == [s EXCEPT !.todo = @ \ (IF fsync THEN {"save", "fsync"} ELSE {"save"})]
    IN  IF s.file = <<>> THEN t
        ELSE [t EXCEPT !.file = Image(s), !.synced = IF fsync THEN Image(s) ELSE @]

\* After a restart a master leaves size as it is (1) for the first two seconds.
UpdateState(s, me) ==
    IF s.young /\ IsMaster(s, me)
    THEN [s EXCEPT !.todo = @ \ {"update"}]
    ELSE [s EXCEPT !.todo = @ \ {"update"}, !.size = Cardinality(Voters(s)), !.young = FALSE]

-----------------------------------------------------------------------------
(* Roles and slots.                                                        *)

SetNodeAsMaster(s, n) ==
    IF IsMaster(s, n) THEN s ELSE ToDo([s EXCEPT !.slaveof[n] = NoNode], {"save", "update"})

SetMaster(s, me, n) ==
    [s EXCEPT !.slaveof[me] = n, !.mf = FALSE,
              !.importing = IF IsMaster(s, me) THEN {} ELSE @]

\* The slots of a claim that change hands: the claim is newer than what the
\* owner known here has, and the slot is not being imported by this node.
Rebound(s, sender, epoch, slots) ==
    {j \in slots \ s.importing :
        /\ s.owner[j] # sender
        /\ s.owner[j] = NoNode \/ s.cfg[s.owner[j]] < epoch}

UpdateSlotsConfigWith(s, me, sender, epoch, slots) ==
    LET curmaster == MasterOf(s, me)
        moved == Rebound(s, sender, epoch, slots)
        t == [s EXCEPT !.owner = [j \in DOMAIN @ |-> IF j \in moved THEN sender ELSE @[j]]]
    IN  IF sender = me \/ moved = {} THEN s
        ELSE ToDo(IF (\E j \in moved : s.owner[j] = curmaster) /\ SlotsOf(t, curmaster) = {}
                  THEN SetMaster(t, me, sender) ELSE t,
                  {"save", "update", "fsync"})

GetMaxEpoch(s) == Max(Range(s.cfg) \cup {s.cur})

BumpConfigEpochWithoutConsensus(s, me) ==
    IF s.cfg[me] # 0 /\ s.cfg[me] = GetMaxEpoch(s) THEN s
    ELSE ToDo([s EXCEPT !.cur = @ + 1, !.cfg[me] = s.cur + 1], {"save", "fsync"})

\* Of two masters with one config epoch the one with the smaller name moves on.
HandleConfigEpochCollision(s, me, sender) ==
    IF \/ s.cfg[sender] # s.cfg[me] \/ ~IsMaster(s, sender) \/ ~IsMaster(s, me)
       \/ sender <= me
    THEN s
    ELSE SaveConfig([s EXCEPT !.cur = @ + 1, !.cfg[me] = s.cur + 1], TRUE)

-----------------------------------------------------------------------------
(* Failure detection.                                                      *)

Others(s, me) == DOMAIN s.slaveof \ {me}

\* A mutant: a master counts itself without having suspected the node.
MarkUnsuspected(s, me, x) ==
    IF Failed(s, x) \/ Cardinality(s.reports[x]) + 1 < s.size \div 2 + 1 THEN s
    ELSE ToDo([s EXCEPT !.flag[x] = "fail"], {"save", "update"})

MarkNodeAsFailingIfNeeded(s, me, x) ==
    LET failures == Cardinality(s.reports[x]) + (IF IsMaster(s, me) THEN 1 ELSE 0)
        t == ToDo([s EXCEPT !.flag[x] = "fail"], {"save", "update"})
    IN  IF s.flag[x] # "pfail" \/ failures < s.size \div 2 + 1 THEN s
        ELSE IF ~IsMaster(s, me) THEN t
        ELSE Send(t, {[BuildMessageHdr(t, me, "fail", d) EXCEPT !.about = x] :
                        d \in Others(s, me)})

ClearNodeFailureIfNeeded(s, w, n) ==
    IF ~IsMaster(s, n) \/ SlotsOf(s, n) = {} \/ w.old
    THEN ToDo([s EXCEPT !.flag[n] = "ok"], {"save", "update"})
    ELSE s

\* One entry of the gossip section; only what a master says of a node counts.
GossipEntry(s, me, w, sender, x, failing) ==
    IF ~IsMaster(s, sender) \/ x = me THEN s
    ELSE IF failing
         THEN LET kept == IF w.stale /\ s.flag[x] = "pfail" THEN {} ELSE s.reports[x]
              IN  MarkNodeAsFailingIfNeeded(
                    [s EXCEPT !.reports[x] = kept \cup {sender}], me, x)
         ELSE [s EXCEPT !.reports[x] = @ \ {sender}]

ProcessGossipSection(s, me, w, h) ==
    FoldSet(LAMBDA g, t : GossipEntry(t, me, w, h.src, g[1], g[2]), s, h.gossip)

-----------------------------------------------------------------------------
(* clusterProcessPacket                                                    *)

\* Every packet: the epochs of the header.
SeeEpochs(s, h) ==
    LET t == [s EXCEPT !.cur = Later(@, h.cur)]
    IN  IF h.cfg > t.cfg[h.src]
        THEN ToDo([t EXCEPT !.cfg[h.src] = h.cfg], {"save", "fsync"}) ELSE t

\* A PONG that answers this node's own PING proves that the sender is alive.
SeeAlive(s, w, h) ==
    IF h.type # "pong" \/ ~h.reply \/ s.flag[h.src] = "ok" THEN s
    ELSE IF TimedOut(s, h.src)
         THEN ToDo([s EXCEPT !.flag[h.src] = "ok"], {"save", "update"})
         ELSE ClearNodeFailureIfNeeded(s, w, h.src)

\* The role the sender claims; a master that became a replica loses its slots.
SeeRole(s, h) ==
    IF h.slaveof = NoNode THEN SetNodeAsMaster(s, h.src)
    ELSE LET t == IF IsMaster(s, h.src)
                  THEN ToDo([s EXCEPT !.owner = [j \in DOMAIN @ |->
                                        IF @[j] = h.src THEN NoNode ELSE @[j]]],
                            {"save", "update"})
                  ELSE s
         IN  IF s.slaveof[h.src] = h.slaveof THEN t
             ELSE ToDo([t EXCEPT !.slaveof[h.src] = h.slaveof], {"save"})

\* Slots the sender claims although a master known here has them with a newer
\* config epoch.
Outdated(s, h) ==
    {j \in h.slots : s.owner[j] \notin {h.src, NoNode} /\ s.cfg[s.owner[j]] > h.cfg}

SendUpdate(s, me, dst, n) ==
    Send(s, {[BuildMessageHdr(s, me, "update", dst) EXCEPT
                !.about = n, !.aboutCfg = s.cfg[n], !.aboutSlots = SlotsOf(s, n)]})

\* The slots of the sender: take them over into this table if they are news,
\* and tell the sender of the first one it should not claim any more.
SeeSlots(s, me, h) ==
    IF SlotsOf(s, MasterOf(s, h.src)) = h.slots THEN s
    ELSE LET t == IF IsMaster(s, h.src)
                  THEN UpdateSlotsConfigWith(s, me, h.src, h.cfg, h.slots) ELSE s
         IN  IF Outdated(t, h) = {} THEN t
             ELSE SendUpdate(t, me, h.src, t.owner[Min(Outdated(t, h))])

\* A mutant: collisions of config epochs are left alone.
SeeNoCollision(s, me, h) == s

SeeCollision(s, me, h) ==
    IF IsMaster(s, me) /\ IsMaster(s, h.src) /\ h.cfg = s.cfg[me]
    THEN HandleConfigEpochCollision(s, me, h.src) ELSE s

ProcessPing(s, me, w, h) ==
    LET answered == IF h.type = "ping" THEN SendPing(s, me, w, "pong", {h.src}, TRUE) ELSE s
        slots == SeeSlots(SeeRole(SeeAlive(answered, w, h), h), me, h)
    IN  ProcessGossipSection(SeeCollision(slots, me, h), me, w, h)

ProcessFail(s, me, h) ==
    IF h.about = me \/ Failed(s, h.about) THEN s
    ELSE ToDo([s EXCEPT !.flag[h.about] = "fail"], {"save", "update"})

\* A mutant: lastVoteEpoch is not looked at.
CanVoteAgain(s, me, w, h) ==
    LET master == s.slaveof[h.src]
    IN  /\ IsMaster(s, me) /\ SlotsOf(s, me) # {}
        /\ h.cur >= s.cur
        /\ master # NoNode
        /\ Failed(s, master) \/ h.force
        /\ ~(w.recent /\ master \in s.voted)
        /\ \A j \in h.slots : s.owner[j] = NoNode \/ s.cfg[s.owner[j]] <= h.cfg

\* clusterSendFailoverAuthIfNeeded: the conditions of a vote
CanVote(s, me, w, h) ==
    LET master == s.slaveof[h.src]
    IN  /\ IsMaster(s, me) /\ SlotsOf(s, me) # {}
        /\ h.cur >= s.cur
        /\ s.vote # s.cur
        /\ master # NoNode
        /\ Failed(s, master) \/ h.force
        /\ ~(w.recent /\ master \in s.voted)
        /\ \A j \in h.slots : s.owner[j] = NoNode \/ s.cfg[s.owner[j]] <= h.cfg

SendFailoverAuthIfNeeded(s, me, w, h) ==
    IF ~CanVote(s, me, w, h) THEN s
    ELSE LET t == ToDo([s EXCEPT !.vote = s.cur, !.voted = @ \cup {s.slaveof[h.src]}],
                       {"save", "fsync"})
         IN  Send(t, {BuildMessageHdr(t, me, "ack", h.src)})

CountVote(s, h) ==
    IF IsMaster(s, h.src) /\ SlotsOf(s, h.src) # {} /\ h.cur >= s.auth.epoch
    THEN ToDo([s EXCEPT !.auth.count = @ + 1], {"failover"}) ELSE s

ProcessUpdate(s, me, h) ==
    IF s.cfg[h.about] >= h.aboutCfg THEN s
    ELSE LET t == [SetNodeAsMaster(s, h.about) EXCEPT !.cfg[h.about] = h.aboutCfg]
         IN  UpdateSlotsConfigWith(ToDo(t, {"save", "fsync"}), me,
                                   h.about, h.aboutCfg, h.aboutSlots)

ProcessPacket(s0, me, w, h) ==
    LET s == SeeEpochs(s0, h)
    IN  CASE h.type \in {"ping", "pong"} -> ProcessPing(s, me, w, h)
          [] h.type = "fail" -> ProcessFail(s, me, h)
          [] h.type = "request" -> SendFailoverAuthIfNeeded(s, me, w, h)
          [] h.type = "ack" -> CountVote(s, h)
          [] h.type = "update" -> ProcessUpdate(s, me, h)

-----------------------------------------------------------------------------
(* The election of a replica.                                              *)

\* A mutant: the slots stay with the old master.
BecomeMasterWithoutSlots(s, me, w) ==
    LET saved == SaveConfig(UpdateState(SetNodeAsMaster(s, me), me), TRUE)
    IN  [SendPing(saved, me, w, "pong", Others(s, me), FALSE) EXCEPT !.mf = FALSE]

FailoverReplaceYourMaster(s, me, w) ==
    LET old == s.slaveof[me]
        t == [SetNodeAsMaster(s, me) EXCEPT
                !.owner = [j \in DOMAIN @ |-> IF @[j] = old THEN me ELSE @[j]]]
        saved == SaveConfig(UpdateState(t, me), TRUE)
    IN  [SendPing(saved, me, w, "pong", Others(s, me), FALSE) EXCEPT !.mf = FALSE]

\* This node is a replica that has a reason to replace its master.
ShouldFailover(s, me) ==
    /\ ~IsMaster(s, me)
    /\ Failed(s, s.slaveof[me]) \/ s.mf
    /\ SlotsOf(s, s.slaveof[me]) # {}

ScheduleElection(s, me, w) ==
    ToDo(SendPing([s EXCEPT !.auth.count = 0, !.auth.sent = FALSE, !.auth.planned = TRUE],
                  me, w, "pong", LocalSlaves(s, me), FALSE),
         IF s.mf THEN {"failover"} ELSE {})

RequestFailoverAuth(s, me) ==
    LET t == [s EXCEPT !.cur = @ + 1, !.auth.epoch = s.cur + 1, !.auth.sent = TRUE]
    IN  ToDo(Send(t, {[BuildMessageHdr(t, me, "request", d) EXCEPT !.force = s.mf] :
                        d \in Others(s, me)}),
             {"save", "update", "fsync"})

\* The winner takes the epoch of the election as its config epoch.
TakeElectionEpoch(s, me) == [s EXCEPT !.cfg[me] = Later(@, s.auth.epoch)]

WinsElection(s) == s.auth.count >= s.size \div 2 + 1

HandleSlaveFailover(s0, me, w) ==
    LET s == [s0 EXCEPT !.todo = @ \ {"failover"}]
    IN  IF ~ShouldFailover(s, me) \/ w.clock = "closed" THEN s
        ELSE IF w.clock = "retry" \/ ~s.auth.planned THEN ScheduleElection(s, me, w)
        ELSE IF ~s.auth.sent THEN RequestFailoverAuth(s, me)
        ELSE IF WinsElection(s)
             THEN FailoverReplaceYourMaster(TakeElectionEpoch(s, me), me, w)
             ELSE s

-----------------------------------------------------------------------------
(* The event loop of a node.                                               *)

BeforeSleep(s, me, w) ==
    LET a == IF "failover" \in s.todo THEN HandleSlaveFailover(s, me, w) ELSE s
        b == IF "update" \in a.todo THEN UpdateState(a, me) ELSE a
        c == IF "save" \in b.todo THEN SaveConfig(b, "fsync" \in b.todo) ELSE b
    IN  [c EXCEPT !.todo = {}, !.armed = {Channel(h) : h \in ToSet(c.sndbuf)}]

\* The part of clusterCron after the links: ping the nodes of pings, suspect
\* those of suspects, go on with a failover.
ClusterCron(s, me, w, pings, suspects) ==
    LET a == IF pings = {} THEN s ELSE SendPing(s, me, w, "ping", pings, FALSE)
        b == [a EXCEPT !.flag = [x \in DOMAIN @ |-> IF x \in suspects THEN "pfail" ELSE @[x]],
                       !.mf = @ /\ ~w.mfend]
        c == IF IsMaster(b, me) THEN b ELSE HandleSlaveFailover(b, me, w)
    IN  IF suspects # {} \/ c.young THEN UpdateState(c, me) ELSE c

Load(image) ==
    image @@ [size |-> 1, young |-> TRUE, reports |-> [x \in Node |-> {}], voted |-> {},
              auth |-> [epoch |-> 0, count |-> 0, sent |-> FALSE, planned |-> FALSE],
              mf |-> FALSE, todo |-> {}, sndbuf |-> <<>>, armed |-> {},
              file |-> <<>>, synced |-> <<>>]

\* The masters have config epochs of their own, and everybody knows them; of a
\* replica others know the config epoch of its master, as its header says.
InitImage(n) ==
    [cur |-> Max(Node), vote |-> 0,
     cfg |-> [x \in Node |-> IF setup.slaveof[x] = NoNode THEN x
                             ELSE IF x = n THEN 0 ELSE setup.slaveof[x]],
     slaveof |-> setup.slaveof, owner |-> setup.owner, importing |-> {},
     flag |-> [x \in Node |-> IF x \in setup.down /\ x # n THEN "fail" ELSE "ok"]]

Init ==
    /\ setup \in Setups
    /\ node = [n \in Node |-> [Load(InitImage(n)) EXCEPT !.young = FALSE,
                                   !.file = IF n \in setup.frail THEN InitImage(n) ELSE @,
                                   !.synced = IF n \in setup.frail THEN InitImage(n) ELSE @,
                                   !.size = Cardinality(Range(setup.owner))]]
    /\ up = Node \ setup.down
    /\ net = <<>>
    /\ left = [pings |-> setup.pings, suspects |-> setup.suspects,
               elections |-> setup.elections, crashes |-> setup.crashes,
               restarts |-> setup.restarts, commands |-> setup.commands,
               timeouts |-> setup.timeouts]
    /\ won = {}
    /\ blamed = [n \in Node |-> {}]

\* Without batch an iteration reads one packet, and what it sends is written
\* at the start of the next one, before anything else happens.
Written(s) == IF setup.batch THEN s ELSE [s EXCEPT !.sndbuf = <<>>, !.armed = {}]
Writes(s) == IF setup.batch THEN <<>> ELSE s.sndbuf

\* The network with msgs written to it; only channels with bytes are kept, and
\* what is sent to a node that is down is lost.
OnChannel(c, msgs) == SelectSeq(msgs, LAMBDA h : Channel(h) = c)
Under(f, c) == IF c \in DOMAIN f THEN f[c] ELSE <<>>
Put(f, msgs) ==
    [c \in DOMAIN f \cup {Channel(h) : h \in {g \in ToSet(msgs) : g.dst \in up}} |->
        Under(f, c) \o OnChannel(c, msgs)]
Keep(f, C) == [c \in DOMAIN f \cap C |-> f[c]]
Take(f, c) ==
    IF Len(f[c]) = 1 THEN Keep(f, DOMAIN f \ {c}) ELSE [f EXCEPT ![c] = Tail(@)]

\* Node n goes on to t, at the cost of the given budget.
Becomes(n, t, rest, cost) ==
    LET begun == IF t.auth.epoch # node[n].auth.epoch THEN 1 ELSE 0
        paid == IF cost = "none" THEN left ELSE [left EXCEPT ![cost] = @ - 1]
    IN  /\ begun <= left.elections
        /\ left' = [paid EXCEPT !.elections = @ - begun]
        /\ node' = [node EXCEPT ![n] = Written(t)]
        /\ net' = Put(rest, Writes(t))
        /\ won' = IF t.auth.sent /\ cost # "commands" /\ ~IsMaster(node[n], n) /\ IsMaster(t, n)
                  THEN won \cup {<<t.cfg[n], n>>} ELSE won
        /\ blamed' = IF setup.suspects = 0 \/ ~IsMaster(t, n) THEN blamed
                     ELSE [x \in Node |->
                            blamed[x] \cup (IF t.flag[x] = "pfail" THEN {n} ELSE {})]
        /\ UNCHANGED <<setup, up>>

Samples == IF setup.suspects = 0 THEN {{}} ELSE {{}, Node}
Clocks == {"closed", "open", "retry"}

\* What the clock and the dice may be when n reads h, and in other iterations.
Reading(n, h) ==
    [sample : IF h.type \in {"ping", "ack"} THEN Samples ELSE {{}},
     clock : IF h.type = "ack" THEN Clocks ELSE {"closed"},
     recent : IF h.type = "request" /\ node[n].voted # {} THEN BOOLEAN ELSE {FALSE},
     old : IF h.reply /\ node[n].flag[h.src] = "fail" THEN BOOLEAN ELSE {FALSE},
     mfend : {FALSE},
     stale : IF h.gossip # {} THEN BOOLEAN ELSE {FALSE}]
Idle(n) ==
    [sample : Samples, clock : Clocks, recent : {FALSE}, old : {FALSE}, stale : {FALSE},
     mfend : IF node[n].mf /\ left.timeouts > 0 THEN BOOLEAN ELSE {FALSE}]

-----------------------------------------------------------------------------
(* The actions.                                                            *)

ReadHandler(c) ==
    LET h == Head(net[c])
        n == h.dst
    IN  /\ n \in up
        /\ \E w \in Reading(n, h) :
            LET s == ProcessPacket(node[n], n, w, h)
            IN  Becomes(n, IF setup.batch THEN s ELSE BeforeSleep(s, n, w), Take(net, c), "none")

\* The iteration ends, with its time events or without.
EndOfIteration(n) ==
    /\ setup.batch /\ n \in up
    /\ \E w \in Idle(n) : Becomes(n, BeforeSleep(node[n], n, w), net, "none")
    /\ node' # node

\* The iteration of the cron; a manual election scheduled in it starts at once.
CronIteration(n, w, pings, suspects) ==
    LET s == ClusterCron(node[n], n, w, pings, suspects)
    IN  BeforeSleep(s, n, IF "failover" \in s.todo THEN [w EXCEPT !.clock = "open"] ELSE w)

Cron(n) ==
    /\ n \in up /\ ~IsMaster(node[n], n)
    /\ \E w \in Idle(n) :
        Becomes(n, CronIteration(n, w, {}, {}), net, IF w.mfend THEN "timeouts" ELSE "none")
    /\ node' # node

CronPing(n) ==
    /\ n \in up /\ left.pings > 0
    /\ \E w \in Idle(n), m \in Others(node[n], n) \cap up :
        /\ w.clock = "closed" /\ ~w.mfend
        /\ Becomes(n, CronIteration(n, w, {m}, {}), net, "pings")

CronSuspect(n) ==
    /\ n \in up /\ left.suspects > 0
    /\ \E w \in Idle(n), m \in Others(node[n], n) :
        /\ w.clock = "closed" /\ ~w.mfend
        /\ node[n].flag[m] = "ok"
        /\ Becomes(n, CronIteration(n, w, {}, {m}), net, "suspects")

\* The socket of a link is writable; its handler was registered before the
\* iteration began, and takes along what was queued since.
WriteHandler(n, c) ==
    /\ n \in up /\ c \in node[n].armed
    /\ net' = Put(net, OnChannel(c, node[n].sndbuf))
    /\ node' = [node EXCEPT ![n].sndbuf = SelectSeq(@, LAMBDA h : Channel(h) # c),
                            ![n].armed = @ \ {c}]
    /\ UNCHANGED <<setup, up, left, won, blamed>>

\* clusterCron: a PING on n's link to m was not answered for half of the node
\* timeout.  The link is closed, and what was under way on it is lost; the PING
\* on the new link is one of CronPing.
FreeLink(n, m) ==
    /\ left' = [left EXCEPT !.timeouts = @ - 1]
    /\ LET dead == {<<n, m, FALSE>>, <<m, n, TRUE>>}
       IN  /\ dead \cap DOMAIN net # {}
           /\ net' = Keep(net, DOMAIN net \ dead)
           /\ node' = [x \in Node |-> [node[x] EXCEPT
                            !.sndbuf = SelectSeq(@, LAMBDA h : Channel(h) \notin dead),
                            !.armed = @ \ dead]]
    /\ UNCHANGED <<setup, up, won, blamed>>

\* The process dies; what it had written without fsync may be lost with it.
Voting(n) == \E c \in DOMAIN net : \E h \in ToSet(net[c]) : h.type = "ack" /\ h.src = n
Crash(n) ==
    /\ n \in up \cap setup.frail /\ left.crashes > 0 /\ Voting(n)
    /\ left' = [left EXCEPT !.crashes = @ - 1]
    /\ \E image \in {node[n].file, node[n].synced} :
        node' = [node EXCEPT ![n] = IF left.crashes = 1 THEN Load(image)
                                    ELSE [Load(image) EXCEPT !.file = image, !.synced = image]]
    /\ up' = up \ {n}
    /\ net' = Keep(net, {c \in DOMAIN net : c[2] # n})
    /\ UNCHANGED <<setup, won, blamed>>

Restart(n) ==
    /\ n \notin up /\ left.restarts > 0
    /\ left' = [left EXCEPT !.restarts = @ - 1]
    /\ up' = up \cup {n}
    /\ UNCHANGED <<setup, node, net, won, blamed>>

\* Two seconds after its start a master computes the size of the cluster.
WritableDelayOver(n) ==
    /\ n \in up /\ node[n].young
    /\ Becomes(n, UpdateState([node[n] EXCEPT !.young = FALSE], n), net, "none")

-----------------------------------------------------------------------------
(* The administrator's commands.                                           *)

Calm == [sample |-> {}, clock |-> "closed", recent |-> FALSE, old |-> FALSE,
         mfend |-> FALSE, stale |-> FALSE]
Command(n, s) == Becomes(n, BeforeSleep(s, n, Calm), net, "commands")

Allowed(n, op) == n \in up /\ left.commands > 0 /\ op \in setup.ops

FailoverForce(n) ==
    /\ Allowed(n, "failover") /\ ~IsMaster(node[n], n)
    /\ Command(n, [node[n] EXCEPT !.mf = TRUE])

FailoverTakeover(n) ==
    /\ Allowed(n, "takeover") /\ ~IsMaster(node[n], n)
    /\ LET t == BumpConfigEpochWithoutConsensus(node[n], n)
       IN  Command(n, FailoverReplaceYourMaster(t, n, Calm))

\* CLUSTER SETSLOT j IMPORTING at the node the slot moves to
SetSlotImporting(n, j) ==
    /\ IsMaster(node[n], n) /\ node[n].owner[j] # n
    /\ Command(n, ToDo([node[n] EXCEPT !.importing = @ \cup {j}], {"save", "update"}))

\* CLUSTER SETSLOT j NODE m: at the importing node for itself, and then at the
\* old owner (the new one has a later config epoch), which has no key of the
\* slot left.
SetSlotNode(n, j, m) ==
    /\ IsMaster(node[n], n)
    /\ IF m = n THEN j \in node[n].importing
       ELSE node[n].owner[j] = n /\ node[m].owner[j] = m /\ node[m].cfg[m] > node[n].cfg[n]
    /\ LET t == IF m # n THEN node[n]
                ELSE [BumpConfigEpochWithoutConsensus(node[n], n) EXCEPT !.importing = @ \ {j}]
       IN  Command(n, ToDo([t EXCEPT !.owner[j] = m], {"save", "update"}))

Next ==
    \/ \E c \in DOMAIN net : ReadHandler(c)
    \/ \E n \in Node :
        \/ EndOfIteration(n) \/ Cron(n) \/ CronPing(n) \/ CronSuspect(n)
        \/ \E c \in node[n].armed : WriteHandler(n, c)
        \/ left.timeouts > 0 /\ \E m \in Node : FreeLink(n, m)
        \/ Crash(n) \/ Restart(n) \/ WritableDelayOver(n)
        \/ FailoverForce(n) \/ FailoverTakeover(n)
        \/ /\ Allowed(n, "setslot")
           /\ \E j \in Slot : SetSlotImporting(n, j) \/ \E m \in Node : SetSlotNode(n, j, m)

Spec == Init /\ [][Next]_vars

-----------------------------------------------------------------------------
(* What must hold.                                                         *)

Flag == {"ok", "pfail", "fail"}
Epoch == 0 .. 20
ImageType == [cur : Epoch, vote : Epoch, cfg : [Node -> Epoch],
              slaveof : [Node -> Node \cup {NoNode}], flag : [Node -> Flag],
              owner : [Slot -> Node \cup {NoNode}], importing : SUBSET Slot]

\* The tables of clusterState are well formed: no node replicates itself, has
\* flagged itself or slots of its own while it is a replica (the assertion of
\* clusterSetMaster), no config epoch is above currentEpoch, and what is on
\* disk is a state of the node.
TypeOK ==
    \A n \in Node : LET s == node[n] IN
        /\ {Image(s)} \cup ({s.file, s.synced} \ {<<>>}) \subseteq ImageType
        /\ s.slaveof[n] # n /\ s.flag[n] = "ok"
        /\ IsMaster(s, n) \/ SlotsOf(s, n) = {}
        /\ s.cfg[n] <= s.cur /\ s.vote <= s.cur
        /\ s.todo \subseteq {"failover", "update", "save", "fsync"}
        /\ s.reports \in [Node -> SUBSET (Node \ {n})]

\* "It is not possible that different slaves get the same config epoch during a
\* failover election, because the slaves need to get voted by a majority"
\* (clusterHandleConfigEpochCollision): an epoch has one winner, also when
\* voters crash and restart between their votes.
OneWinnerPerEpoch ==
    \A a, b \in won : a[1] = b[1] => a[2] = b[2]

\* A vote is on disk before it leaves: "Useful when you want to persist things
\* to disk before sending replies" (AE_BARRIER, used by clusterSendMessage).  A
\* voter that restarts while its vote is under way still knows that it voted.
VoteIsDurable ==
    \A c \in DOMAIN net : \A h \in ToSet(net[c]) :
        h.type = "ack" /\ node[h.src].synced # <<>> => node[h.src].synced.vote >= h.cur

\* A node is flagged FAIL only when a majority of the masters has suspected it:
\* "Enough means that the majority of the masters signaled the node is down"
\* (markNodeAsFailingIfNeeded).
FailNeedsMajority ==
    \A n \in up, x \in Node \ setup.down :
        Failed(node[n], x) =>
            Cardinality(blamed[x]) >= Cardinality(Range(setup.owner)) \div 2 + 1

\* One heartbeat from m to n, and the UPDATE it may cause, tell neither of them
\* anything about epochs, roles or slots.
Config(s) == <<s.cur, s.cfg, s.slaveof, s.owner>>
Heartbeat(m, n) ==
    Last(SendPing(node[m], m, Calm, "ping", {n}, FALSE).sndbuf)
NoNews(m, n) ==
    LET after == ProcessPacket([node[n] EXCEPT !.sndbuf = <<>>], n, Calm, Heartbeat(m, n))
    IN  /\ Config(after) = Config(node[n])
        /\ \A h \in ToSet(after.sndbuf) :
              h.type = "update" => Config(ProcessPacket(node[m], m, Calm, h)) = Config(node[m])
Settled == \A m, n \in up : m # n => NoNews(m, n)

\* Once the nodes that run have nothing new to tell each other, they agree on
\* the owner of every slot (unless the administrator left an import open), and
\* an owner that runs knows that it is one: no disagreement is permanent, be it
\* after an election, a takeover, a crash or the return of an old master.
SettledAgree ==
    (\E n, m \in up : \E j \in Slot \ UNION {node[x].importing : x \in up} :
        \/ node[n].owner[j] # node[m].owner[j]
        \/ node[n].owner[j] = m /\ ~IsMaster(node[m], m)) => ~Settled

\* Once the nodes that run have nothing new to tell each other, and nobody has
\* used a command, the slots a replica won are owned by the last winner.
LastFailoverWins ==
    (\E a \in won :
        /\ left.commands = setup.commands
        /\ a[2] \in up /\ \A b \in won : b[1] <= a[1]
        /\ \E n \in up : SlotsOf(node[n], a[2]) = {}) => ~Settled

\* What the nodes' views come to: no node's own entry is impossible (its epochs, its
\* flags, slots of a replica), and once there is nothing new to tell they agree.
ViewsAgree == TypeOK /\ SettledAgree
=============================================================================
