------------------------------ MODULE Sentinel ------------------------------
(***************************************************************************)
(* The failover of a monitored master by a group of Sentinels             *)
(* (sentinel.c): subjective and objective failure detection, the vote for *)
(* a leader, the failover state machine, the reconfiguration of the       *)
(* replicas, the hello messages and what a restart finds in the           *)
(* configuration file.  Time outs are free choices: an action that needs  *)
(* a period to have elapsed may happen at any moment.                     *)
(***************************************************************************)
EXTENDS Integers, Sequences, FiniteSets, Folds

CONSTANTS
  Sentinels,      \* run ids
  Instances,      \* addresses of Redis instances
  FirstMaster,    \* the master of the configuration file
  Priority,       \* slave-priority of each instance, 0 = never promote
  Quorum,         \* sentinel monitor ... <quorum>
  ParallelSyncs,  \* sentinel parallel-syncs
  MaxPending,     \* bound on the questions in flight on a link
  Setups          \* the situations to start from

VARIABLES
  setup,     \* who takes part, which Sentinels start in TILT, and the bounds
             \* on current_epoch and on the number of exceptional events
  st,        \* the state of each Sentinel
  disk,      \* its configuration file
  link,      \* link[s][t]: questions of s that t has not answered
  redis,     \* redis[r]: is it up, and whom it replicates
  cmds,      \* SLAVEOF transactions sent and not executed yet
  trouble,   \* how many exceptional events happened
  admin,     \* has an administrator forced or cut short a failover
  won        \* history: the elections won

vars == <<setup, st, disk, link, redis, cmds, trouble, admin, won>>

Nobody == "*"
NoAddr == "none"
None == "NONE"
FailoverStates == <<"WAIT_START", "SELECT_SLAVE", "SEND_SLAVEOF_NOONE",
                    "WAIT_PROMOTION", "RECONF_SLAVES", "UPDATE_CONFIG">>
NoVote == [down |-> FALSE, leader |-> Nobody, lepoch |-> 0]

\* Run ids are not "*", and only Sentinels of the system take part.
ASSUME SentinelAssumption ==
  /\ IsFiniteSet(Sentinels) /\ Nobody \notin Sentinels
  /\ Quorum \in Nat
  /\ \A u \in Setups : u.group \subseteq Sentinels

\* createSentinelRedisInstance and sentinelHandleConfiguration: a Sentinel
\* that has read the configuration file d.  The epoch of the last vote is in
\* the file, the vote itself is not.
Fresh(d) ==
  [epoch |-> d.epoch, cepoch |-> d.cepoch, addr |-> d.addr, slaves |-> d.slaves,
   known |-> d.known, leader |-> Nobody, lepoch |-> d.lepoch, fepoch |-> 0,
   fstate |-> None, force |-> FALSE, promoted |-> NoAddr, sdown |-> FALSE,
   odown |-> FALSE, mrole |-> "master", cool |-> FALSE, tilt |-> FALSE,
   rflag |-> [r \in Instances |-> {}], peer |-> [t \in Sentinels |-> NoVote]]

\* sentinelGetCurrentMasterAddress
CurrentAddr(x) ==
  IF x.promoted # NoAddr /\ x.fstate \in {"RECONF_SLAVES", "UPDATE_CONFIG"}
  THEN x.promoted ELSE x.addr

\* Mutant: the epoch of the last vote is not written.
FileWithoutVote(x) ==
  [epoch |-> x.epoch, cepoch |-> x.cepoch, lepoch |-> 0, known |-> x.known,
   addr |-> CurrentAddr(x),
   slaves |-> {IF r = CurrentAddr(x) THEN x.addr ELSE r : r \in x.slaves}]

\* sentinelFlushConfig and rewriteConfigSentinelOption: the line of the
\* instance being promoted is written with the address of the old master.
File(x) ==
  [epoch |-> x.epoch, cepoch |-> x.cepoch, lepoch |-> x.lepoch, known |-> x.known,
   addr |-> CurrentAddr(x),
   slaves |-> {IF r = CurrentAddr(x) THEN x.addr ELSE r : r \in x.slaves}]

FirstFile(s) ==
  [epoch |-> 0, cepoch |-> 0, lepoch |-> 0, known |-> setup.group \ {s},
   addr |-> FirstMaster, slaves |-> setup.redis \ {FirstMaster}]

Init ==
  /\ setup \in Setups
  /\ disk = [s \in Sentinels |-> FirstFile(s)]
  /\ st = [s \in Sentinels |-> [Fresh(FirstFile(s)) EXCEPT !.tilt = s \in setup.tilted]]
  /\ link = [s \in Sentinels |-> [t \in Sentinels |-> <<>>]]
  /\ redis = [r \in Instances |->
                [up |-> r \in setup.redis, of |-> IF r = FirstMaster THEN NoAddr ELSE FirstMaster]]
  /\ cmds = {}
  /\ trouble = 0
  /\ admin = FALSE
  /\ won = {}

\* An outage, a crash, a lost message, a time out or an administrator's command.
Trouble == trouble < setup.trouble /\ trouble' = trouble + 1

----------------------------------------------------------------------------
(* State changes of one Sentinel, as functions of its record.              *)

\* sentinelResetMaster: everything learnt about the master is dropped.
ResetMaster(x, keepSentinels) ==
  [x EXCEPT !.slaves = {}, !.known = IF keepSentinels THEN @ ELSE {},
            !.leader = Nobody, !.fstate = None, !.force = FALSE,
            !.promoted = NoAddr, !.sdown = FALSE, !.odown = FALSE,
            !.mrole = "master", !.cool = FALSE,
            !.rflag = [r \in Instances |-> {}],
            !.peer = IF keepSentinels THEN @ ELSE [t \in Sentinels |-> NoVote]]

\* sentinelResetMasterAndChangeAddress: the old master becomes a replica.
ResetMasterAndChangeAddress(x, addr) ==
  [ResetMaster(x, TRUE) EXCEPT !.addr = addr,
                               !.slaves = (x.slaves \cup {x.addr}) \ {addr}]

\* The largest number of S.
Max(S) == CHOOSE x \in S : \A y \in S : x >= y

VoteLeaderAgain(s, x, reqEpoch, reqId) ==
  LET epoch == Max({x.epoch, reqEpoch})
      votes == epoch <= reqEpoch
  IN [x EXCEPT !.epoch = epoch,
               !.leader = IF votes THEN reqId ELSE @,
               !.lepoch = IF votes THEN epoch ELSE @]

\* sentinelVoteLeader: one vote per epoch, the first one asked for.
VoteLeader(s, x, reqEpoch, reqId) ==
  LET epoch == Max({x.epoch, reqEpoch})
      votes == x.lepoch < reqEpoch /\ epoch <= reqEpoch
  IN [x EXCEPT !.epoch = epoch,
               !.leader = IF votes THEN reqId ELSE @,
               !.lepoch = IF votes THEN epoch ELSE @,
               !.cool = IF votes /\ reqId # s THEN TRUE ELSE @]

\* sentinelAbortFailover
AbortFailover(x) ==
  [x EXCEPT !.fstate = None, !.force = FALSE, !.promoted = NoAddr]

\* sentinelStartFailover: the new epoch is not saved here.
StartFailover(x) ==
  [x EXCEPT !.fstate = "WAIT_START", !.epoch = @ + 1, !.fepoch = x.epoch + 1,
            !.cool = TRUE]

\* sentinelCheckSubjectivelyDown and sentinelCheckObjectivelyDown
CheckDown(x, down) ==
  [x EXCEPT !.sdown = down,
            !.odown = down /\ 1 + Cardinality({t \in x.known : x.peer[t].down}) >= Quorum]

\* sentinelStartFailoverIfNeeded
CanStart(x) == x.odown /\ x.fstate = None /\ ~x.cool /\ x.epoch < setup.epochs
StartIfNeeded(x) == IF CanStart(x) THEN StartFailover(x) ELSE x

\* The votes sentinelGetLeader counts for candidate c.
VotesFor(x, c) ==
  {t \in x.known : x.peer[t].leader = c /\ x.peer[t].lepoch = x.epoch}

Favourites(s, x) ==
  LET n == Max({Cardinality(VotesFor(x, c)) : c \in Sentinels})
  IN IF n = 0 THEN {s} ELSE {c \in Sentinels : Cardinality(VotesFor(x, c)) = n}

\* sentinelGetLeader: s votes for favourite w itself, and the winner needs
\* both the majority of the known Sentinels and the quorum.
Winner(s, x, w) ==
  LET y == VoteLeader(s, x, x.fepoch, w)
      mine == IF y.lepoch = x.fepoch THEN y.leader ELSE Nobody
      Count(c) == Cardinality(VotesFor(y, c)) + (IF c = mine THEN 1 ELSE 0)
      best == IF mine # Nobody /\ Count(mine) > Cardinality(VotesFor(y, w))
              THEN mine ELSE w
      total == IF best = mine THEN Count(mine) ELSE Cardinality(VotesFor(y, w))
  IN IF total >= Max({(Cardinality(x.known) + 1) \div 2 + 1, Quorum})
     THEN best ELSE Nobody

\* compareSlavesForPromotion on the replicas sentinelSelectSlave keeps.
Best(E) == CHOOSE r \in E : \A q \in E : Priority[r] <= Priority[q]
Eligible(x) == {E \in SUBSET x.slaves : \A r \in E : Priority[r] # 0}

----------------------------------------------------------------------------
(* Questions between Sentinels: is-master-down-by-addr.                    *)

\* A question of s that asks for a vote.
Question(s, x) == [epoch |-> x.epoch, addr |-> x.addr, who |-> s]

\* sentinelCommand, is-master-down-by-addr: the vote and the answer of t.
Vote(t, q) ==
  IF q.addr = st[t].addr THEN VoteLeader(t, st[t], q.epoch, q.who) ELSE st[t]

SaysDown(t, addr) == addr = st[t].addr /\ st[t].sdown /\ ~st[t].tilt

Reply(t, q) ==
  [down |-> SaysDown(t, q.addr),
   leader |-> IF q.addr = st[t].addr THEN Vote(t, q).leader ELSE Nobody,
   lepoch |-> IF q.addr = st[t].addr THEN Vote(t, q).lepoch ELSE 0]

\* sentinelReceiveIsMasterDownReply: what the asking Sentinel keeps of it.
Heard(v, a) == IF a.leader = Nobody THEN [v EXCEPT !.down = a.down] ELSE a

\* t answers the oldest question of s.  The answer reaches s, or the link
\* breaks after t has voted and what was pending on it is lost.  (An answer
\* that arrives late is one that s's timer reads late.)
Answer(s, t) ==
  /\ link[s][t] # <<>>
  /\ LET q == link[s][t][1] IN
     /\ \E lost \in BOOLEAN :
          /\ IF lost THEN Trouble ELSE UNCHANGED trouble
          /\ st' = [[st EXCEPT ![t] = Vote(t, q)]
                      EXCEPT ![s].peer[t] = IF lost THEN @ ELSE Heard(@, Reply(t, q))]
          /\ link' = [link EXCEPT ![s][t] = IF lost THEN <<>> ELSE Tail(@)]
     /\ disk' = IF Vote(t, q).epoch # st[t].epoch \/ Vote(t, q).lepoch # st[t].lepoch
                THEN [disk EXCEPT ![t] = File(Vote(t, q))] ELSE disk
  /\ UNCHANGED <<setup, redis, cmds, admin, won>>

\* sentinelDisconnectCallback: the pending questions are lost.
Disconnect(s, t) ==
  /\ link[s][t] # <<>>
  /\ Trouble
  /\ link' = [link EXCEPT ![s][t] = <<>>]
  /\ UNCHANGED <<setup, st, disk, redis, cmds, admin, won>>

----------------------------------------------------------------------------
(* The timer: sentinelHandleRedisInstance for the master.  Each state of   *)
(* sentinelFailoverStateMachine gives the outcomes its handler may have:   *)
(* the new record, the SLAVEOF commands sent, whether a time limit was     *)
(* exceeded and the election won, if any.                                  *)

\* What sentinelCheckSubjectivelyDown may find: a master that does not answer,
\* or that says it is a replica, is suspected after a while.
Suspect(s, down) ==
  LET bad == ~redis[st[s].addr].up \/ st[s].mrole = "slave" IN
  IF down THEN bad ELSE ~bad \/ ~st[s].sdown

Outcome(x, out, late) == [x |-> x, out |-> out, late |-> late, win |-> {}]
SlaveOf(s, r, of) == [from |-> s, to |-> r, of |-> of]

\* sentinelFailoverWaitStart
FailoverWaitStart(s, x) ==
  UNION {
    LET y == VoteLeader(s, x, x.fepoch, w)
        leader == Winner(s, x, w)
        mixed == VotesFor(x, s) # {} /\ x.epoch # x.fepoch
    IN IF leader = s \/ x.force
       THEN {[Outcome([y EXCEPT !.fstate = "SELECT_SLAVE"], {}, FALSE) EXCEPT !.win =
               IF leader = s THEN {[who |-> s, epoch |-> x.fepoch, mixed |-> mixed]} ELSE {}]}
       ELSE {Outcome(y, {}, FALSE), Outcome(AbortFailover(y), {}, TRUE)}
    : w \in Favourites(s, x)}

\* sentinelFailoverSelectSlave
FailoverSelectSlave(s, x) ==
  {IF E = {} THEN Outcome(AbortFailover(x), {}, TRUE)
   ELSE Outcome([x EXCEPT !.promoted = Best(E), !.fstate = "SEND_SLAVEOF_NOONE"], {}, FALSE)
   : E \in Eligible(x)}

\* sentinelFailoverSendSlaveOfNoOne
FailoverSendSlaveOfNoOne(s, x) ==
  IF redis[x.promoted].up
  THEN {Outcome([x EXCEPT !.fstate = "WAIT_PROMOTION"], {SlaveOf(s, x.promoted, NoAddr)}, FALSE)}
  ELSE {Outcome(x, {}, FALSE), Outcome(AbortFailover(x), {}, TRUE)}

\* sentinelFailoverWaitPromotion
FailoverWaitPromotion(s, x) ==
  {Outcome(x, {}, FALSE), Outcome(AbortFailover(x), {}, TRUE)}

\* The loop of sentinelFailoverReconfNextSlave over the replicas in the order
\* of the dictionary.  A SLAVEOF sent too long ago counts as done, and is then
\* sent once more.
InProgress(x) == {r \in x.slaves : x.rflag[r] \cap {"sent", "inprog"} # {}}

ReconfOne(x, late, acc, r) ==
  LET flag == IF late /\ "sent" \in acc.rflag[r]
              THEN (acc.rflag[r] \ {"sent"}) \cup {"done"} ELSE acc.rflag[r]
      send == flag \cap {"sent", "inprog"} = {} /\ redis[r].up
  IN IF acc.n >= ParallelSyncs \/ r = x.promoted \/ "done" \in acc.rflag[r] THEN acc
     ELSE [n |-> IF send THEN acc.n + 1 ELSE acc.n,
           rflag |-> [acc.rflag EXCEPT ![r] = IF send THEN flag \cup {"sent"} ELSE flag],
           sent |-> IF send THEN acc.sent \cup {r} ELSE acc.sent]

ReconfSlaves(x, late) ==
  MapThenFoldSet(LAMBDA r, acc : ReconfOne(x, late, acc, r),
                 [n |-> Cardinality(InProgress(x)), rflag |-> x.rflag, sent |-> {}],
                 LAMBDA r : r, LAMBDA R : CHOOSE r \in R : TRUE, x.slaves)

\* sentinelFailoverDetectEnd: the failover ends when every reachable replica
\* is reconfigured, or when the time is over; then every replica that was not
\* told yet is told.  Unreachable replicas are those marked S_DOWN.
NotReconfigured(x) ==
  {r \in x.slaves \ {x.promoted} : redis[r].up /\ "done" \notin x.rflag[r]}

Untold(x) == {r \in x.slaves : redis[r].up /\ x.rflag[r] \cap {"sent", "done"} = {}}

\* sentinelFailoverReconfNextSlave
FailoverReconfNextSlave(s, x) ==
  LET Told(Q) == {SlaveOf(s, r, x.promoted) : r \in Q}
      Ended(y) == [y EXCEPT !.fstate = "UPDATE_CONFIG"]
  IN UNION {
       LET r == ReconfSlaves(x, late)
           y == [x EXCEPT !.rflag = r.rflag]
       IN IF ~redis[x.promoted].up THEN {Outcome(y, Told(r.sent), late)}
          ELSE {Outcome(Ended(y), Told(r.sent \cup Untold(y)), TRUE),
                Outcome(IF NotReconfigured(y) = {} THEN Ended(y) ELSE y, Told(r.sent), late)}
       : late \in BOOLEAN}

FailoverStateMachine(s, x) ==
  CASE x.fstate = None                 -> {Outcome(x, {}, FALSE)}
    [] x.fstate = "WAIT_START"         -> FailoverWaitStart(s, x)
    [] x.fstate = "SELECT_SLAVE"       -> FailoverSelectSlave(s, x)
    [] x.fstate = "SEND_SLAVEOF_NOONE" -> FailoverSendSlaveOfNoOne(s, x)
    [] x.fstate = "WAIT_PROMOTION"     -> FailoverWaitPromotion(s, x)
    [] x.fstate = "RECONF_SLAVES"      -> FailoverReconfNextSlave(s, x)

\* sentinelAskMasterStateToOtherSentinels: peers not heard of for long are
\* forgotten.  The question of a Sentinel that is no candidate is answered on
\* the spot; a request for a vote is on its way for some time, and is not
\* repeated (Timer) to a peer whose vote of this epoch has been received.
Peers(s, x, late) ==
  [t \in Sentinels |->
     IF t \in x.known /\ x.sdown /\ x.fstate = None
     THEN [x.peer[t] EXCEPT !.down = SaysDown(t, x.addr)]
     ELSE IF t \in x.known /\ late /\ link[s][t] # <<>>
     THEN [x.peer[t] EXCEPT !.down = FALSE, !.leader = Nobody]
     ELSE x.peer[t]]

Timer(s) ==
  \E down, late \in BOOLEAN :
  \E o \in FailoverStateMachine(s, StartIfNeeded(CheckDown(st[s], down))) :
    LET y == [o.x EXCEPT !.peer = Peers(s, o.x, late)]
        asks == {t \in y.known : y.sdown /\ y.fstate # None /\ Len(link[s][t]) < MaxPending
                                 /\ ~(y.peer[t].leader = s /\ y.peer[t].lepoch = y.epoch)}
        z == IF y.fstate = "UPDATE_CONFIG"
             THEN ResetMasterAndChangeAddress(y, y.promoted) ELSE y
    IN /\ ~st[s].tilt /\ Suspect(s, down)
       /\ IF late \/ o.late THEN Trouble ELSE UNCHANGED trouble
       /\ st' = [st EXCEPT ![s] = z]
       /\ link' = [link EXCEPT ![s] = [t \in Sentinels |->
                     IF t \in asks THEN Append(@[t], Question(s, y)) ELSE @[t]]]
       /\ disk' = IF z.addr # y.addr \/ z.lepoch # st[s].lepoch
                  THEN [disk EXCEPT ![s] = File(z)] ELSE disk
       /\ cmds' = cmds \cup o.out
       /\ won' = won \cup o.win
       /\ UNCHANGED <<setup, redis, admin>>

----------------------------------------------------------------------------
(* What a Sentinel hears: hello messages and INFO.                         *)

\* The configuration of y is more recent than that of x.
NewerConfig(x, y) == x.cepoch < y.cepoch

\* sentinelSendHello by s, sentinelProcessHelloMessage by t.  A newer epoch
\* and a new Sentinel are saved before the configuration is looked at, and a
\* newer configuration with the same address is not saved.
Hello(s, t) ==
  LET x == st[t]
      seen == [x EXCEPT !.known = @ \cup {s}, !.epoch = Max({@, st[s].epoch})]
      addr == CurrentAddr(st[s])
      newer == NewerConfig(x, st[s])
      y == IF newer THEN [seen EXCEPT !.cepoch = st[s].cepoch] ELSE seen
      moved == newer /\ addr # x.addr
      z == IF moved THEN ResetMasterAndChangeAddress(y, addr) ELSE y
  IN /\ s # t /\ z # x
     /\ st' = [st EXCEPT ![t] = z]
     /\ disk' = IF moved THEN [disk EXCEPT ![t] = File(z)]
                ELSE IF seen # x THEN [disk EXCEPT ![t] = File(seen)] ELSE disk
     /\ UNCHANGED <<setup, link, redis, cmds, trouble, admin, won>>

Role(r) == IF redis[r].of = NoAddr THEN "master" ELSE "slave"

\* sentinelRefreshInstanceInfo, INFO of the master: its role and its replicas.
InfoMaster(s) ==
  LET x == st[s]
      seen == {r \in Instances : redis[r].up /\ redis[r].of = x.addr}
      y == [x EXCEPT !.mrole = Role(x.addr), !.slaves = @ \cup seen]
  IN /\ redis[x.addr].up /\ y # x
     /\ st' = [st EXCEPT ![s] = y]
     /\ disk' = IF y.slaves # x.slaves THEN [disk EXCEPT ![s] = File(y)] ELSE disk
     /\ UNCHANGED <<setup, link, redis, cmds, trouble, admin, won>>

\* sentinelMasterLooksSane
MasterLooksSane(x) == x.mrole = "master" /\ ~x.sdown /\ ~x.odown

\* INFO of a replica that says it is a master: the promotion is complete (it is
\* saved and announced at once), or the instance has to be converted.
Promotion(x, r) ==
  /\ Role(r) = "master" /\ r = x.promoted /\ x.fstate = "WAIT_PROMOTION"

\* Mutant: the configuration keeps its epoch.
PromotedInOldEpoch(x) == [x EXCEPT !.fstate = "RECONF_SLAVES"]

Promoted(x) == [x EXCEPT !.cepoch = x.fepoch, !.fstate = "RECONF_SLAVES"]

InfoPromoted(s, r) ==
  LET y == Promoted(st[s]) IN
  /\ redis[r].up /\ r \in st[s].slaves /\ ~st[s].tilt
  /\ Promotion(st[s], r)
  /\ st' = [st EXCEPT ![s] = y]
  /\ disk' = [disk EXCEPT ![s] = File(y)]
  /\ UNCHANGED <<setup, link, redis, cmds, trouble, admin, won>>

InfoConvert(s, r) ==
  /\ redis[r].up /\ r \in st[s].slaves /\ ~st[s].tilt
  /\ Role(r) = "master" /\ r # st[s].promoted
  /\ MasterLooksSane(st[s])
  /\ cmds' = cmds \cup {SlaveOf(s, r, st[s].addr)}
  /\ UNCHANGED <<setup, st, disk, link, redis, trouble, admin, won>>

\* INFO of a replica that replicates somebody: repaired when it is not the
\* master, and its reconfiguration flags follow what it reports.
InfoReplica(s, r) ==
  \E fix, linkUp \in BOOLEAN :
    LET x == st[s]
        sent == "sent" \in x.rflag[r] /\ redis[r].of = x.promoted
        flag1 == IF sent THEN (x.rflag[r] \ {"sent"}) \cup {"inprog"} ELSE x.rflag[r]
        flag2 == IF "inprog" \in flag1 /\ linkUp
                 THEN (flag1 \ {"inprog"}) \cup {"done"} ELSE flag1
    IN /\ redis[r].up /\ r \in x.slaves /\ ~x.tilt /\ Role(r) = "slave"
       /\ fix => redis[r].of # x.addr /\ MasterLooksSane(x)
       /\ linkUp => redis[redis[r].of].up
       /\ st' = [st EXCEPT ![s].rflag[r] = flag2]
       /\ cmds' = IF fix THEN cmds \cup {SlaveOf(s, r, x.addr)} ELSE cmds
       /\ UNCHANGED <<setup, disk, link, redis, trouble, admin, won>>

----------------------------------------------------------------------------
(* The Redis instances, faults and commands.                               *)

\* MULTI, SLAVEOF, CONFIG REWRITE, CLIENT KILL, EXEC of sentinelSendSlaveOf:
\* the new role takes effect and survives a restart of the instance.
Execute(c) ==
  /\ redis[c.to].up
  /\ redis' = [redis EXCEPT ![c.to].of = c.of]
  /\ cmds' = cmds \ {c}
  /\ UNCHANGED <<setup, st, disk, link, trouble, admin, won>>

Outage(r) ==
  /\ redis[r].up /\ Trouble
  /\ redis' = [redis EXCEPT ![r].up = FALSE]
  /\ cmds' = {c \in cmds : c.to # r}
  /\ UNCHANGED <<setup, st, disk, link, admin, won>>

Return(r) ==
  /\ ~redis[r].up /\ Trouble
  /\ redis' = [redis EXCEPT ![r].up = TRUE]
  /\ UNCHANGED <<setup, st, disk, link, cmds, admin, won>>

\* A Sentinel that crashes starts again from its configuration file.
Crash(s) ==
  /\ Trouble
  /\ st' = [st EXCEPT ![s] = Fresh(disk[s])]
  /\ link' = [t \in Sentinels |-> [u \in Sentinels |->
                IF s \in {t, u} THEN <<>> ELSE link[t][u]]]
  /\ UNCHANGED <<setup, disk, redis, cmds, admin, won>>

\* failover_start_time is more than twice the failover time out ago.
CoolDown(s) ==
  /\ st[s].cool /\ st[s].fstate = None /\ Trouble
  /\ st' = [st EXCEPT ![s].cool = FALSE]
  /\ UNCHANGED <<setup, disk, link, redis, cmds, admin, won>>

\* SENTINEL FAILOVER
ForceFailover(s) ==
  /\ st[s].fstate = None /\ st[s].epoch < setup.epochs
  /\ \E E \in Eligible(st[s]) : E # {}
  /\ Trouble /\ admin' = TRUE
  /\ st' = [st EXCEPT ![s] = [StartFailover(@) EXCEPT !.force = TRUE]]
  /\ UNCHANGED <<setup, disk, link, redis, cmds, won>>

\* SENTINEL RESET
Reset(s) ==
  /\ Trouble /\ admin' = (admin \/ CurrentAddr(st[s]) # st[s].addr)
  /\ st' = [st EXCEPT ![s] = ResetMaster(@, FALSE)]
  /\ link' = [link EXCEPT ![s] = [t \in Sentinels |-> <<>>]]
  /\ UNCHANGED <<setup, disk, redis, cmds, won>>

\* sentinelCheckTiltCondition, and the end of the TILT period.
Tilt(s) ==
  /\ Trouble
  /\ st' = [st EXCEPT ![s].tilt = ~@]
  /\ UNCHANGED <<setup, disk, link, redis, cmds, admin, won>>

Next ==
  \/ \E s \in setup.group : Timer(s)
  \/ \E s, t \in setup.group : Answer(s, t) \/ Disconnect(s, t) \/ Hello(s, t)
  \/ \E s \in setup.group : InfoMaster(s)
  \/ \E s \in setup.group, r \in setup.redis :
       InfoPromoted(s, r) \/ InfoConvert(s, r) \/ InfoReplica(s, r)
  \/ \E c \in cmds : Execute(c)
  \/ \E r \in setup.redis : Outage(r) \/ Return(r)
  \/ \E s \in setup.group :
       Crash(s) \/ CoolDown(s) \/ ForceFailover(s) \/ Reset(s) \/ Tilt(s)

Spec == Init /\ [][Next]_vars

----------------------------------------------------------------------------
\* The epochs of the last vote and of the failover never run ahead of the
\* current epoch (sentinelVoteLeader, sentinelStartFailover), and the failover
\* is in one of its states.
TypeOK ==
  /\ \A s \in Sentinels :
       /\ st[s].fstate \in {FailoverStates[i] : i \in DOMAIN FailoverStates} \cup {None}
       /\ st[s].fepoch <= st[s].epoch /\ st[s].lepoch <= st[s].epoch
       /\ st[s].cepoch <= setup.epochs
  /\ \A r \in Instances : redis[r].of \in Instances \cup {NoAddr}

\* The elections in which the two epochs were the same.
Regular == {a \in won : ~a.mixed}

\* Of the elections whose votes are all of the epoch of the failover there is
\* at most one per epoch, whatever is lost, repeated or restarted: the votes
\* are saved before they are given (sentinelVoteLeader, sentinelFlushConfig).
RegularLeaderPerEpoch == \A a, b \in Regular : a.epoch = b.epoch => a.who = b.who

\* Two Sentinels with the same configuration epoch name the same master
\* (sentinelGetCurrentMasterAddress), as long as no administrator forces a
\* failover or resets a master in the middle of one and no leader was elected
\* with votes of another epoch.
ConfigAgreement ==
  ~admin /\ won = Regular =>
    \A s, t \in Sentinels :
      st[s].cepoch = st[t].cepoch => CurrentAddr(st[s]) = CurrentAddr(st[t])

\* master->promoted_slave, which the later states of the failover dereference
\* without a check, is set and is one of the replicas as long as they run, even
\* when a hello message, a reset or a restart cuts the failover short; and no
\* replica is marked as reconfigured outside a failover.
PromotedWhileNeeded ==
  \A s \in Sentinels :
    /\ (\E r \in Instances : st[s].rflag[r] # {}) => st[s].promoted # NoAddr
    /\ st[s].fstate \in {"SEND_SLAVEOF_NOONE", "WAIT_PROMOTION", "RECONF_SLAVES"}
         => st[s].promoted \in st[s].slaves

\* The epoch of the last vote never goes back, neither in memory nor in the
\* configuration file, restarts included: a Sentinel does not vote twice in an
\* epoch because it forgot.
VotesAreKept ==
  \A s \in Sentinels : st[s].lepoch <= st'[s].lepoch /\ disk[s].lepoch <= disk'[s].lepoch

\* The configuration epoch of a Sentinel never goes back (a hello message only
\* replaces an older configuration and a new one is saved before it is told to
\* anybody), as long as no administrator interferes: after a SENTINEL RESET in
\* the middle of a failover another Sentinel may learn a newer epoch with the
\* address it has, which it does not save.  (So it would if it missed a change of
\* master and the change back, which needs more failovers than the bounds allow.)
ConfigEpochGrows ==
  admin \/ \A s \in Sentinels : st[s].cepoch <= st'[s].cepoch

\* What a Sentinel knows of its master is sound at every step of a failover and
\* agrees with what the others of the same configuration epoch know.
ConfigSound == TypeOK /\ PromotedWhileNeeded /\ ConfigAgreement

\* No epoch a Sentinel voted or configured itself in is ever forgotten.
EpochsGrow == [][VotesAreKept /\ ConfigEpochGrows]_vars
=============================================================================
