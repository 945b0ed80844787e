--------------------------- MODULE Sentinel_proofs --------------------------
(***************************************************************************)
(* Sentinels elect at most one leader per epoch.  The argument is about   *)
(* votes: there is a ballot paper B, one vote of each Sentinel for each   *)
(* epoch, with which everything agrees that any Sentinel remembers of its *)
(* own vote or was told of the vote of another.  A vote is only added to  *)
(* it for an epoch later than all the Sentinel ever voted in, and this    *)
(* epoch is in the configuration file before anybody hears of the vote,   *)
(* so that neither a restart nor a lost answer makes a Sentinel fill in   *)
(* the same place twice.  Two winners of an epoch each had the votes of a *)
(* majority, so somebody voted for both.                                  *)
(***************************************************************************)
EXTENDS Sentinel, TLAPS

USE SMTT(30), ZenonT(30)

----------------------------------------------------------------------------
(* The record of a Sentinel.                                               *)

Fields ==
  {"epoch", "cepoch", "addr", "slaves", "known", "leader", "lepoch", "fepoch",
   "fstate", "force", "promoted", "sdown", "odown", "mrole", "cool", "tilt",
   "rflag", "peer"}

Stages == {"NONE", "WAIT_START", "SELECT_SLAVE", "SEND_SLAVEOF_NOONE",
           "WAIT_PROMOTION", "RECONF_SLAVES"}

IsVote(v) == v = [f \in {"down", "leader", "lepoch"} |-> v[f]] /\ v.lepoch \in Nat

IsPeers(p) == p = [t \in Sentinels |-> p[t]] /\ \A t \in Sentinels : IsVote(p[t])

IsState(x) == x = [f \in Fields |-> x[f]]

\* What the election needs to know of a record.
Sound(x) ==
  /\ IsState(x)
  /\ x.epoch \in Nat /\ x.fepoch \in Nat /\ x.lepoch \in Nat
  /\ x.fepoch <= x.epoch
  /\ IsPeers(x.peer)

\* y differs from x only in what no election looks at.
Kept(x, y) ==
  /\ Sound(y)
  /\ y.epoch = x.epoch /\ y.fepoch = x.fepoch /\ y.known = x.known
  /\ y.leader = x.leader /\ y.lepoch = x.lepoch /\ y.peer = x.peer

\* The larger of two numbers, as the code's assignments of the epochs use it.
LEMMA MaxOfTwo ==
  ASSUME NEW a \in Nat, NEW b \in Nat
  PROVE  /\ Max({a, b}) \in Nat /\ Max({a, b}) >= a /\ Max({a, b}) >= b
         /\ Max({a, b}) = a \/ Max({a, b}) = b
<1>1. \E x \in {a, b} : \A y \in {a, b} : x >= y
  OBVIOUS
<1>2. Max({a, b}) \in {a, b} /\ \A y \in {a, b} : Max({a, b}) >= y
  BY <1>1 DEF Max
<1> QED BY <1>2

\* Assigning fields that no election looks at keeps the rest of the record.
LEMMA Untouched ==
  ASSUME NEW x, Sound(x), NEW v, NEW w
  PROVE  /\ Kept(x, x)
         /\ Kept(x, [x EXCEPT !.fstate = v])
         /\ Kept(x, [x EXCEPT !.promoted = v, !.fstate = w])
         /\ Kept(x, [x EXCEPT !.rflag = v])
         /\ Kept(x, [x EXCEPT !.sdown = v, !.odown = w])
         /\ Kept(x, [x EXCEPT !.force = v])
         /\ Kept(x, [x EXCEPT !.cool = v])
         /\ Kept(x, [x EXCEPT !.tilt = v])
         /\ Kept(x, [x EXCEPT !.mrole = v, !.slaves = w])
         /\ Kept(x, [x EXCEPT !.cepoch = v, !.fstate = w])
         /\ Kept(x, [x EXCEPT !.cepoch = v])
         /\ Kept(x, AbortFailover(x))
<1>0. IsState(x)
  BY DEF Sound
<1>1. Kept(x, x)
  BY DEF Kept
<1>2. ASSUME NEW y, IsState(y), y.epoch = x.epoch, y.fepoch = x.fepoch, y.known = x.known,
             y.leader = x.leader, y.lepoch = x.lepoch, y.peer = x.peer
      PROVE  Kept(x, y)
  BY <1>2 DEF Kept, Sound
<1>3. Kept(x, [x EXCEPT !.fstate = v])
  <2>1. IsState([x EXCEPT !.fstate = v])
    BY <1>0 DEF IsState, Fields
  <2> QED BY <1>0, <1>2, <2>1 DEF IsState, Fields
<1>4. Kept(x, [x EXCEPT !.promoted = v, !.fstate = w])
  <2>1. IsState([x EXCEPT !.promoted = v, !.fstate = w])
    BY Zenon, <1>0 DEF IsState, Fields
  <2> QED BY Zenon, <1>0, <1>2, <2>1 DEF IsState, Fields
<1>5. Kept(x, [x EXCEPT !.rflag = v])
  <2>1. IsState([x EXCEPT !.rflag = v])
    BY <1>0 DEF IsState, Fields
  <2> QED BY <1>0, <1>2, <2>1 DEF IsState, Fields
<1>6. Kept(x, [x EXCEPT !.sdown = v, !.odown = w])
  <2>1. IsState([x EXCEPT !.sdown = v, !.odown = w])
    BY Zenon, <1>0 DEF IsState, Fields
  <2> QED BY Zenon, <1>0, <1>2, <2>1 DEF IsState, Fields
<1>7. Kept(x, [x EXCEPT !.force = v])
  <2>1. IsState([x EXCEPT !.force = v])
    BY <1>0 DEF IsState, Fields
  <2> QED BY <1>0, <1>2, <2>1 DEF IsState, Fields
<1>8. Kept(x, [x EXCEPT !.cool = v])
  <2>1. IsState([x EXCEPT !.cool = v])
    BY <1>0 DEF IsState, Fields
  <2> QED BY <1>0, <1>2, <2>1 DEF IsState, Fields
<1>9. Kept(x, [x EXCEPT !.tilt = v])
  <2>1. IsState([x EXCEPT !.tilt = v])
    BY <1>0 DEF IsState, Fields
  <2> QED BY <1>0, <1>2, <2>1 DEF IsState, Fields
<1>10. Kept(x, [x EXCEPT !.mrole = v, !.slaves = w])
  <2>1. IsState([x EXCEPT !.mrole = v, !.slaves = w])
    BY Zenon, <1>0 DEF IsState, Fields
  <2> QED BY Zenon, <1>0, <1>2, <2>1 DEF IsState, Fields
<1>11. Kept(x, [x EXCEPT !.cepoch = v, !.fstate = w])
  <2>1. IsState([x EXCEPT !.cepoch = v, !.fstate = w])
    BY Zenon, <1>0 DEF IsState, Fields
  <2> QED BY Zenon, <1>0, <1>2, <2>1 DEF IsState, Fields
<1>12. Kept(x, [x EXCEPT !.cepoch = v])
  <2>1. IsState([x EXCEPT !.cepoch = v])
    BY <1>0 DEF IsState, Fields
  <2> QED BY <1>0, <1>2, <2>1 DEF IsState, Fields
<1>13. Kept(x, AbortFailover(x))
  <2>1. IsState(AbortFailover(x))
    BY Zenon, <1>0 DEF IsState, Fields, AbortFailover
  <2> QED BY Zenon, <1>0, <1>2, <2>1 DEF IsState, Fields, AbortFailover
<1> QED BY <1>1, <1>3, <1>4, <1>5, <1>6, <1>7, <1>8, <1>9, <1>10, <1>11, <1>12, <1>13

\* sentinelResetMaster drops the Sentinel's own vote but not its epoch, and
\* what it knows of the others only when it is told to.
LEMMA ResetEffect ==
  ASSUME NEW x, Sound(x), NEW keep \in BOOLEAN
  PROVE  LET y == ResetMaster(x, keep) IN
         /\ Sound(y)
         /\ y.epoch = x.epoch /\ y.fepoch = x.fepoch /\ y.lepoch = x.lepoch
         /\ y.leader = Nobody /\ y.fstate = None
         /\ keep => y.known = x.known /\ y.peer = x.peer
         /\ ~keep => y.known = {} /\ y.peer = [t \in Sentinels |-> NoVote]
<1> DEFINE y == ResetMaster(x, keep)
<1>0. IsState(x)
  BY DEF Sound
<1>1. IsState(y)
  BY ZenonT(60), <1>0 DEF IsState, Fields, ResetMaster
<1>2. /\ y.epoch = x.epoch /\ y.fepoch = x.fepoch /\ y.lepoch = x.lepoch
      /\ y.leader = Nobody /\ y.fstate = None
  BY <1>0 DEF IsState, Fields, ResetMaster
<1>3. /\ keep => y.known = x.known /\ y.peer = x.peer
      /\ ~keep => y.known = {} /\ y.peer = [t \in Sentinels |-> NoVote]
  BY <1>0 DEF IsState, Fields, ResetMaster
<1>4. IsPeers([t \in Sentinels |-> NoVote])
  BY Zenon DEF IsPeers, IsVote, NoVote
<1>5. IsPeers(y.peer)
  BY <1>3, <1>4 DEF Sound
<1>6. Sound(y)
  BY <1>1, <1>2, <1>5 DEF Sound
<1> HIDE DEF y
<1> QED BY <1>2, <1>3, <1>6 DEF y

\* The same for sentinelResetMasterAndChangeAddress.
LEMMA MoveEffect ==
  ASSUME NEW x, Sound(x), NEW a
  PROVE  LET y == ResetMasterAndChangeAddress(x, a) IN
         /\ Sound(y)
         /\ y.epoch = x.epoch /\ y.fepoch = x.fepoch /\ y.lepoch = x.lepoch
         /\ y.leader = Nobody /\ y.fstate = None
         /\ y.known = x.known /\ y.peer = x.peer
<1>1. PICK r : r = ResetMaster(x, TRUE)
  BY Zenon
<1>2. /\ Sound(r) /\ r.epoch = x.epoch /\ r.fepoch = x.fepoch /\ r.lepoch = x.lepoch
      /\ r.leader = Nobody /\ r.fstate = None /\ r.known = x.known /\ r.peer = x.peer
  BY Zenon, <1>1, ResetEffect
<1>3. PICK b : b = (x.slaves \cup {x.addr}) \ {a}
  BY Zenon
<1>4. PICK y : y = [r EXCEPT !.addr = a, !.slaves = b]
  OBVIOUS
<1>5. IsState(r)
  BY <1>2 DEF Sound
<1>6. IsState(y)
  BY Zenon, <1>4, <1>5 DEF IsState, Fields
<1>7. /\ y.epoch = r.epoch /\ y.fepoch = r.fepoch /\ y.lepoch = r.lepoch
      /\ y.leader = r.leader /\ y.fstate = r.fstate /\ y.known = r.known /\ y.peer = r.peer
  BY <1>4, <1>5 DEF IsState, Fields
<1>8. Sound(y)
  BY <1>2, <1>6, <1>7 DEF Sound
<1>9. y = ResetMasterAndChangeAddress(x, a)
  BY <1>1, <1>3, <1>4 DEF ResetMasterAndChangeAddress
<1> QED BY <1>2, <1>7, <1>8, <1>9

\* y is x after voting for w, or after declining to.
Cast(x, y, w) ==
  \/ y.lepoch = x.lepoch /\ y.leader = x.leader
  \/ y.lepoch > x.lepoch /\ y.leader = w

\* sentinelVoteLeader: the vote changes only for a later epoch.
LEMMA VoteEffect ==
  ASSUME NEW s, NEW x, Sound(x), NEW e \in Nat, NEW w
  PROVE  LET y == VoteLeader(s, x, e, w) IN
         /\ Sound(y)
         /\ y.fepoch = x.fepoch /\ y.known = x.known /\ y.peer = x.peer
         /\ y.fstate = x.fstate
         /\ y.epoch >= x.epoch /\ (e <= x.epoch => y.epoch = x.epoch)
         /\ Cast(x, y, w)
<1>1. PICK m \in Nat : m = Max({x.epoch, e}) /\ m >= x.epoch /\ m >= e /\ (m = x.epoch \/ m = e)
  BY MaxOfTwo DEF Sound
<1>2. PICK v \in BOOLEAN : v <=> (x.lepoch < e /\ m <= e)
  BY Zenon
<1>3. PICK c : c = IF v /\ w # s THEN TRUE ELSE x.cool
  BY Zenon
<1>4. PICK l, p : l = (IF v THEN w ELSE x.leader) /\ p = (IF v THEN m ELSE x.lepoch)
  OBVIOUS
<1>5. PICK y : y = [x EXCEPT !.epoch = m, !.leader = l, !.lepoch = p, !.cool = c]
  OBVIOUS
<1>0. IsState(x)
  BY DEF Sound
<1>6. y = VoteLeader(s, x, e, w)
  BY Zenon, <1>0, <1>1, <1>2, <1>3, <1>4, <1>5 DEF VoteLeader, IsState, Fields
<1>7. IsState(y)
  BY Zenon, <1>0, <1>5 DEF IsState, Fields
<1>8. /\ y.epoch = m /\ y.leader = l /\ y.lepoch = p
      /\ y.fepoch = x.fepoch /\ y.known = x.known /\ y.peer = x.peer /\ y.fstate = x.fstate
  BY <1>0, <1>5 DEF IsState, Fields
<1>9. p \in Nat
  BY <1>1, <1>4 DEF Sound
<1>10. Sound(y)
  BY <1>1, <1>7, <1>8, <1>9 DEF Sound
<1>11. Cast(x, y, w)
  <2>1. CASE v
    BY <1>1, <1>2, <1>4, <1>8, <2>1 DEF Cast, Sound
  <2>2. CASE ~v
    BY <1>4, <1>8, <2>2 DEF Cast
  <2> QED BY <2>1, <2>2
<1>12. e <= x.epoch => y.epoch = x.epoch
  BY <1>1, <1>8 DEF Sound
<1> QED BY <1>1, <1>6, <1>8, <1>10, <1>11, <1>12

----------------------------------------------------------------------------
(* What the timer makes of the record.                                     *)

\* Starting a failover, or not: the epoch of the failover is the current one.
LEMMA StartEffect ==
  ASSUME NEW x, Sound(x), x.fstate \in Stages
  PROVE  LET y == StartIfNeeded(x) IN
         /\ Sound(y) /\ y.fstate \in Stages
         /\ y.known = x.known /\ y.leader = x.leader /\ y.lepoch = x.lepoch
         /\ y.peer = x.peer
<1>0. IsState(x)
  BY DEF Sound
<1>1. CASE CanStart(x)
  <2>1. PICK e \in Nat : e = x.epoch + 1
    BY DEF Sound
  <2>2. PICK y : y = [x EXCEPT !.fstate = "WAIT_START", !.epoch = e, !.fepoch = e, !.cool = TRUE]
    OBVIOUS
  <2>3. y = StartIfNeeded(x)
    BY <1>0, <1>1, <2>1, <2>2 DEF StartIfNeeded, StartFailover, IsState, Fields
  <2>4. IsState(y)
    BY Zenon, <1>0, <2>2 DEF IsState, Fields
  <2>5. /\ y.epoch = e /\ y.fepoch = e /\ y.fstate = "WAIT_START" /\ y.known = x.known
        /\ y.leader = x.leader /\ y.lepoch = x.lepoch /\ y.peer = x.peer
    BY <1>0, <2>2 DEF IsState, Fields
  <2>6. Sound(y)
    BY <2>4, <2>5 DEF Sound
  <2> QED BY <2>3, <2>5, <2>6 DEF Stages
<1>2. CASE ~CanStart(x)
  BY <1>2 DEF StartIfNeeded
<1> QED BY <1>1, <1>2

\* The outcome of s's timer, with record x, is a vote of s for w; when s has
\* won the election, the votes counted are as Winner says.
Elects(s, x, o, w) ==
  /\ Kept(VoteLeader(s, x, x.fepoch, w), o.x)
  /\ \A a \in o.win :
       /\ a.who = s /\ a.epoch = x.fepoch
       /\ ~a.mixed => VotesFor(x, s) = {} \/ x.epoch = x.fepoch
       /\ Winner(s, x, w) = s /\ o.x.fstate = "SELECT_SLAVE"

\* sentinelFailoverWaitStart votes, and moves on if the election is won.
LEMMA WaitStartEffect ==
  ASSUME NEW s, NEW x, Sound(x), x.fstate \in Stages, NEW o \in FailoverWaitStart(s, x)
  PROVE  o.x.fstate \in Stages /\ \E w : Elects(s, x, o, w)
<1>1. PICK w \in Favourites(s, x) :
        LET y == VoteLeader(s, x, x.fepoch, w)
            leader == Winner(s, x, w)
            mixed == VotesFor(x, s) # {} /\ x.epoch # x.fepoch
        IN o \in (IF leader = s \/ x.force
             THEN {[Outcome([y EXCEPT !.fstate = "SELECT_SLAVE"], {}, FALSE) EXCEPT !.win =
                     IF leader = s THEN {[who |-> s, epoch |-> x.fepoch, mixed |-> mixed]} ELSE {}]}
             ELSE {Outcome(y, {}, FALSE), Outcome(AbortFailover(y), {}, TRUE)})
  BY Zenon DEF FailoverWaitStart
<1>2. PICK y : y = VoteLeader(s, x, x.fepoch, w)
  OBVIOUS
<1>3. Sound(y) /\ y.fstate = x.fstate
  BY <1>2, VoteEffect DEF Sound
<1>4. PICK mixed : mixed = (VotesFor(x, s) # {} /\ x.epoch # x.fepoch)
  OBVIOUS
<1>5. CASE Winner(s, x, w) = s \/ x.force
  <2>1. PICK z : z = [y EXCEPT !.fstate = "SELECT_SLAVE"]
    BY Zenon
  <2>2. PICK win : win = IF Winner(s, x, w) = s
                         THEN {[who |-> s, epoch |-> x.fepoch, mixed |-> mixed]} ELSE {}
    BY Zenon
  <2>3. o = [Outcome(z, {}, FALSE) EXCEPT !.win = win]
    BY Zenon, <1>1, <1>2, <1>4, <1>5, <2>1, <2>2
  <2>4. o.x = z /\ o.win = win
    BY <2>3 DEF Outcome
  <2>5. Kept(y, z)
    BY Zenon, <1>3, <2>1, Untouched
  <2>6. z.fstate = "SELECT_SLAVE"
    BY <1>3, <2>1 DEF Sound, IsState, Fields
  <2>7. ASSUME NEW a \in win
        PROVE  /\ a.who = s /\ a.epoch = x.fepoch /\ Winner(s, x, w) = s
               /\ ~a.mixed => VotesFor(x, s) = {} \/ x.epoch = x.fepoch
    <3>1. Winner(s, x, w) = s /\ a = [who |-> s, epoch |-> x.fepoch, mixed |-> mixed]
      BY <2>2, <2>7, Zenon
    <3>2. a.mixed = mixed
      BY <3>1
    <3>3. ~a.mixed => VotesFor(x, s) = {} \/ x.epoch = x.fepoch
      BY <1>4, <3>2, Zenon
    <3> QED BY <3>1, <3>3
  <2>8. Elects(s, x, o, w)
    BY <1>2, <2>4, <2>5, <2>6, <2>7 DEF Elects
  <2> QED BY <2>4, <2>6, <2>8 DEF Stages
<1>6. CASE ~(Winner(s, x, w) = s \/ x.force)
  <2>1. o \in {Outcome(y, {}, FALSE), Outcome(AbortFailover(y), {}, TRUE)}
    BY Zenon, <1>1, <1>2, <1>6
  <2>2. (o.x = y \/ o.x = AbortFailover(y)) /\ o.win = {}
    BY <2>1 DEF Outcome
  <2>3. Kept(y, o.x)
    BY Zenon, <1>3, <2>2, Untouched
  <2>4. o.x.fstate \in Stages
    BY Zenon, <1>3, <2>2 DEF AbortFailover, Sound, IsState, Fields, Stages, None
  <2>5. Elects(s, x, o, w)
    BY <1>2, <2>2, <2>3 DEF Elects
  <2> QED BY <2>4, <2>5
<1> QED BY <1>5, <1>6

\* The other states of sentinelFailoverStateMachine cast no vote.
LEMMA QuietStates ==
  ASSUME NEW s, NEW x, Sound(x), x.fstate \in Stages, x.fstate # "WAIT_START",
         NEW o \in FailoverStateMachine(s, x)
  PROVE  /\ Kept(x, o.x) /\ o.win = {}
         /\ o.x.fstate \in Stages \cup {"UPDATE_CONFIG"}
<1>0. IsState(x)
  BY DEF Sound
<1>a. ASSUME NEW z, Kept(x, z), z.fstate \in Stages \cup {"UPDATE_CONFIG"},
             NEW out, NEW late, o = Outcome(z, out, late)
      PROVE  Kept(x, o.x) /\ o.win = {} /\ o.x.fstate \in Stages \cup {"UPDATE_CONFIG"}
  BY <1>a DEF Outcome
<1>b. Kept(x, AbortFailover(x)) /\ AbortFailover(x).fstate \in Stages
  BY Zenon, <1>0, Untouched DEF AbortFailover, IsState, Fields, Stages, None
<1>1. CASE x.fstate = "NONE"
  <2>1. o = Outcome(x, {}, FALSE)
    BY <1>1 DEF FailoverStateMachine, None
  <2> QED BY Zenon, <1>a, <2>1, Untouched
<1>2. CASE x.fstate = "SELECT_SLAVE"
  <2>1. o \in FailoverSelectSlave(s, x)
    BY <1>2 DEF FailoverStateMachine, None
  <2>2. PICK E \in Eligible(x) :
          o = IF E = {} THEN Outcome(AbortFailover(x), {}, TRUE)
              ELSE Outcome([x EXCEPT !.promoted = Best(E), !.fstate = "SEND_SLAVEOF_NOONE"], {}, FALSE)
    BY <2>1, Zenon DEF FailoverSelectSlave
  <2>3. PICK b : b = Best(E)
    OBVIOUS
  <2>4. PICK z : z = [x EXCEPT !.promoted = b, !.fstate = "SEND_SLAVEOF_NOONE"]
    OBVIOUS
  <2>5. Kept(x, z)
    BY Zenon, <2>4, Untouched
  <2>6. z.fstate \in Stages
    BY <1>0, <2>4 DEF IsState, Fields, Stages
  <2>7. o = Outcome(AbortFailover(x), {}, TRUE) \/ o = Outcome(z, {}, FALSE)
    BY Zenon, <2>2, <2>3, <2>4
  <2> QED BY Zenon, <1>a, <1>b, <2>5, <2>6, <2>7
<1>3. CASE x.fstate = "SEND_SLAVEOF_NOONE"
  <2>1. o \in FailoverSendSlaveOfNoOne(s, x)
    BY <1>3 DEF FailoverStateMachine, None
  <2>4. PICK z : z = [x EXCEPT !.fstate = "WAIT_PROMOTION"]
    BY Zenon
  <2>5. Kept(x, z)
    BY Zenon, <2>4, Untouched
  <2>6. z.fstate \in Stages
    BY <1>0, <2>4 DEF IsState, Fields, Stages
  <2>7. \/ o = Outcome(z, {SlaveOf(s, x.promoted, NoAddr)}, FALSE)
        \/ o = Outcome(x, {}, FALSE)
        \/ o = Outcome(AbortFailover(x), {}, TRUE)
    BY Zenon, <2>1, <2>4 DEF FailoverSendSlaveOfNoOne
  <2> QED BY Zenon, <1>a, <1>b, <2>5, <2>6, <2>7, Untouched
<1>4. CASE x.fstate = "WAIT_PROMOTION"
  <2>1. o \in FailoverWaitPromotion(s, x)
    BY <1>4 DEF FailoverStateMachine, None
  <2>2. o = Outcome(x, {}, FALSE) \/ o = Outcome(AbortFailover(x), {}, TRUE)
    BY Zenon, <2>1 DEF FailoverWaitPromotion
  <2> QED BY Zenon, <1>a, <1>b, <2>2, Untouched
<1>5. CASE x.fstate = "RECONF_SLAVES"
  <2>1. o \in FailoverReconfNextSlave(s, x)
    BY <1>5 DEF FailoverStateMachine, None
  <2>2. PICK late \in BOOLEAN :
          LET r == ReconfSlaves(x, late)
              y == [x EXCEPT !.rflag = r.rflag]
              Told(Q) == {SlaveOf(s, q, x.promoted) : q \in Q}
              Ended(u) == [u EXCEPT !.fstate = "UPDATE_CONFIG"]
          IN o \in (IF ~redis[x.promoted].up THEN {Outcome(y, Told(r.sent), late)}
                    ELSE {Outcome(Ended(y), Told(r.sent \cup Untold(y)), TRUE),
                          Outcome(IF NotReconfigured(y) = {} THEN Ended(y) ELSE y,
                                  Told(r.sent), late)})
    BY <2>1, Zenon DEF FailoverReconfNextSlave
  <2>3. PICK f : f = ReconfSlaves(x, late).rflag
    OBVIOUS
  <2>4. PICK y : y = [x EXCEPT !.rflag = f]
    BY Zenon
  <2>5. PICK z : z = [y EXCEPT !.fstate = "UPDATE_CONFIG"]
    BY Zenon
  <2>6. Kept(x, y) /\ y.fstate = x.fstate
    BY Zenon, <1>0, <2>4, Untouched DEF IsState, Fields
  <2>7. Kept(y, z) /\ z.fstate = "UPDATE_CONFIG"
    BY ZenonT(60), <2>5, <2>6, Untouched DEF Kept, Sound, IsState, Fields
  <2>8. Kept(x, z)
    BY <2>6, <2>7 DEF Kept
  <2>9. \E out, l : o = Outcome(y, out, l) \/ o = Outcome(z, out, l)
    BY <2>2, <2>3, <2>4, <2>5, Zenon
  <2> QED BY <1>a, <2>6, <2>7, <2>8, <2>9
<1> QED BY <1>1, <1>2, <1>3, <1>4, <1>5 DEF Stages

\* sentinelAskMasterStateToOtherSentinels forgets votes and invents none.
LEMMA PeersEffect ==
  ASSUME NEW s, NEW x, Sound(x), NEW late
  PROVE  LET p == Peers(s, x, late) IN
         /\ IsPeers(p)
         /\ \A t \in Sentinels :
              /\ p[t].lepoch = x.peer[t].lepoch
              /\ p[t].leader = x.peer[t].leader \/ p[t].leader = Nobody
<1>1. PICK p : p = Peers(s, x, late)
  OBVIOUS
<1>2. p = [t \in Sentinels |-> p[t]]
  BY <1>1, Zenon DEF Peers
<1>3. ASSUME NEW t \in Sentinels
      PROVE  /\ IsVote(p[t]) /\ p[t].lepoch = x.peer[t].lepoch
             /\ p[t].leader = x.peer[t].leader \/ p[t].leader = Nobody
  <2>1. PICK v : v = x.peer[t]
    OBVIOUS
  <2>2. IsVote(v)
    BY <2>1 DEF Sound, IsPeers
  <2>3. PICK d : d = SaysDown(t, x.addr)
    OBVIOUS
  <2>4. \/ p[t] = [v EXCEPT !.down = d]
        \/ p[t] = [v EXCEPT !.down = FALSE, !.leader = Nobody]
        \/ p[t] = v
    BY <1>1, <2>1, <2>3, Zenon DEF Peers
  <2>5. CASE p[t] = [v EXCEPT !.down = d]
    BY <2>1, <2>2, <2>5 DEF IsVote
  <2>6. CASE p[t] = [v EXCEPT !.down = FALSE, !.leader = Nobody]
    BY Zenon, <2>1, <2>2, <2>6 DEF IsVote
  <2>7. CASE p[t] = v
    BY <2>1, <2>2, <2>7
  <2> QED BY <2>4, <2>5, <2>6, <2>7
<1>4. IsPeers(p)
  BY <1>2, <1>3 DEF IsPeers
<1> QED BY <1>1, <1>3, <1>4

----------------------------------------------------------------------------
(* The invariant.                                                          *)

\* The questions on the links carry an epoch.
LinksSound ==
  \E A : link \in [Sentinels -> [Sentinels -> Seq([epoch : Nat, addr : A, who : A])]]

\* The records and files are sound, the epoch of the last vote is in the file
\* (sentinelFlushConfig), and a Sentinel knows others of the group, not itself.
Base ==
  /\ setup \in Setups
  /\ st = [s \in Sentinels |-> st[s]] /\ disk = [s \in Sentinels |-> disk[s]]
  /\ \A s \in Sentinels :
       /\ Sound(st[s]) /\ st[s].fstate \in Stages
       /\ disk[s].epoch \in Nat /\ disk[s].lepoch = st[s].lepoch
       /\ st[s].known \subseteq setup.group \ {s}
       /\ disk[s].known \subseteq setup.group \ {s}
  /\ LinksSound

\* On ballot paper B a majority of the group voted for the winner of a.
Elected(B, a) ==
  /\ a.epoch \in Nat
  /\ ~a.mixed =>
       \E Q \in SUBSET setup.group :
         /\ 2 * Cardinality(Q) > Cardinality(setup.group)
         /\ \A t \in Q : a.epoch <= st[t].lepoch /\ B[t][a.epoch] = a.who

\* Everything remembered of a vote agrees with ballot paper B, and no vote is
\* remembered that is later than the last one of the voter.
Ballot(B) ==
  /\ \A t \in Sentinels : st[t].leader # Nobody => B[t][st[t].lepoch] = st[t].leader
  /\ \A s, t \in Sentinels :
       st[s].peer[t].leader # Nobody =>
         /\ st[s].peer[t].lepoch <= st[t].lepoch
         /\ B[t][st[s].peer[t].lepoch] = st[s].peer[t].leader
  /\ \A a \in won : Elected(B, a)

IInv == Base /\ \E B : Ballot(B)

\* No SENTINEL RESET has made a Sentinel forget the others.
AllKnown ==
  \A s \in setup.group : /\ st[s].known = setup.group \ {s}
                         /\ disk[s].known = setup.group \ {s}

\* A quorum is a majority of any group.
MajorityQuorum == \A u \in Setups : 2 * Quorum > Cardinality(u.group)

----------------------------------------------------------------------------
(* What one step may do to one Sentinel.                                   *)

\* The Sentinel forgets or keeps its vote, or votes in a later epoch.
Votes(u) ==
  \/ /\ st'[u].lepoch = st[u].lepoch
     /\ st'[u].leader = st[u].leader \/ st'[u].leader = Nobody
  \/ st'[u].lepoch > st[u].lepoch

\* It forgets or keeps the vote of t it was told, or is told the present one.
Hears(u, t) ==
  \/ st'[u].peer[t].leader = Nobody
  \/ /\ st'[u].peer[t].leader = st[u].peer[t].leader
     /\ st'[u].peer[t].lepoch = st[u].peer[t].lepoch
  \/ /\ st'[u].peer[t].leader = st'[t].leader
     /\ st'[u].peer[t].lepoch = st'[t].lepoch

\* It forgets nobody, or what it knew is read from the file or written to it.
Grows(u) ==
  /\ st[u].known \subseteq st'[u].known \/ disk[u].known \subseteq st'[u].known
  /\ disk[u].known \subseteq disk'[u].known \/ st[u].known \subseteq disk'[u].known

Turn(u) ==
  /\ Sound(st'[u]) /\ st'[u].fstate \in Stages
  /\ disk'[u].epoch \in Nat /\ disk'[u].lepoch = st'[u].lepoch
  /\ st'[u].known \subseteq setup.group \ {u}
  /\ disk'[u].known \subseteq setup.group \ {u}
  /\ Votes(u)
  /\ \A t \in Sentinels : Hears(u, t)
  /\ Grows(u) \/ \E s \in setup.group : Reset(s)

\* What every step does.
Turns ==
  /\ setup' = setup
  /\ st' = [s \in Sentinels |-> st'[s]] /\ disk' = [s \in Sentinels |-> disk'[s]]
  /\ \A u \in Sentinels : Turn(u)
  /\ LinksSound'

\* The ballot paper with the votes cast in this step filled in.
Filled(B) ==
  [t \in Sentinels |-> [e \in Nat |->
     IF st'[t].leader # Nobody /\ e = st'[t].lepoch /\ e > st[t].lepoch
     THEN st'[t].leader ELSE B[t][e]]]

\* The invariant of the records follows from Turns.
LEMMA BaseStep ==
  ASSUME Base, Turns
  PROVE  Base'
BY DEF Base, Turns, Turn

\* Sentinels that do not take part in the step.
LEMMA Bystander ==
  ASSUME Base, NEW u \in Sentinels, st'[u] = st[u], disk'[u] = disk[u]
  PROVE  Turn(u)
<1>1. /\ Sound(st[u]) /\ st[u].fstate \in Stages
      /\ disk[u].epoch \in Nat /\ disk[u].lepoch = st[u].lepoch
      /\ st[u].known \subseteq setup.group \ {u}
      /\ disk[u].known \subseteq setup.group \ {u}
  BY DEF Base
<1>2. Votes(u)
  BY DEF Votes
<1>3. ASSUME NEW t \in Sentinels PROVE Hears(u, t)
  BY DEF Hears
<1>4. Grows(u)
  BY DEF Grows
<1>5. Sound(st'[u]) /\ st'[u].fstate \in Stages
  BY Zenon, <1>1
<1> QED BY <1>1, <1>2, <1>3, <1>4, <1>5 DEF Turn

\* Filling in later votes changes no place somebody remembers.
LEMMA BallotStep ==
  ASSUME Base, Turns, NEW B, Ballot(B)
  PROVE  /\ \A t \in Sentinels :
              st'[t].leader # Nobody => Filled(B)[t][st'[t].lepoch] = st'[t].leader
         /\ \A s, t \in Sentinels :
              st'[s].peer[t].leader # Nobody =>
                /\ st'[s].peer[t].lepoch <= st'[t].lepoch
                /\ Filled(B)[t][st'[s].peer[t].lepoch] = st'[s].peer[t].leader
         /\ \A t \in Sentinels, e \in Nat :
              e <= st[t].lepoch => e <= st'[t].lepoch /\ Filled(B)[t][e] = B[t][e]
<1>1. ASSUME NEW t \in Sentinels
      PROVE  st[t].lepoch \in Nat /\ st'[t].lepoch \in Nat /\ st[t].lepoch <= st'[t].lepoch
             /\ (st'[t].leader # Nobody /\ st'[t].lepoch = st[t].lepoch => st'[t].leader = st[t].leader)
  <2>1. Sound(st[t]) /\ Sound(st'[t]) /\ Votes(t)
    BY DEF Base, Turns, Turn
  <2>2. st[t].lepoch \in Nat /\ st'[t].lepoch \in Nat
    BY <2>1 DEF Sound
  <2> QED BY <2>1, <2>2 DEF Votes
<1>2. ASSUME NEW t \in Sentinels, NEW e \in Nat
      PROVE  Filled(B)[t][e] = IF st'[t].leader # Nobody /\ e = st'[t].lepoch /\ e > st[t].lepoch
                               THEN st'[t].leader ELSE B[t][e]
  BY Zenon DEF Filled
<1>3. ASSUME NEW t \in Sentinels, NEW e \in Nat, e <= st[t].lepoch
      PROVE  e <= st'[t].lepoch /\ Filled(B)[t][e] = B[t][e]
  <2>1. ~(e > st[t].lepoch)
    BY <1>1, <1>3
  <2>2. Filled(B)[t][e] = B[t][e]
    BY <1>2, <2>1
  <2> QED BY <1>1, <1>3, <2>2
<1>4. ASSUME NEW t \in Sentinels, st'[t].leader # Nobody
      PROVE  Filled(B)[t][st'[t].lepoch] = st'[t].leader
  <2>1. CASE st'[t].lepoch > st[t].lepoch
    BY Zenon, <1>1, <1>2, <1>4, <2>1
  <2>2. CASE st'[t].lepoch = st[t].lepoch
    <3>1. B[t][st[t].lepoch] = st[t].leader
      BY Zenon, <1>1, <1>4, <2>2 DEF Ballot
    <3>2. Filled(B)[t][st'[t].lepoch] = B[t][st[t].lepoch]
      BY <1>1, <1>3, <2>2
    <3> QED BY Zenon, <1>1, <1>4, <2>2, <3>1, <3>2
  <2> QED BY <1>1, <2>1, <2>2
<1>5. ASSUME NEW s \in Sentinels, NEW t \in Sentinels, st'[s].peer[t].leader # Nobody
      PROVE  /\ st'[s].peer[t].lepoch <= st'[t].lepoch
             /\ Filled(B)[t][st'[s].peer[t].lepoch] = st'[s].peer[t].leader
  <2>0. Hears(s, t)
    BY Zenon DEF Turns, Turn
  <2>1. CASE /\ st'[s].peer[t].leader = st[s].peer[t].leader
             /\ st'[s].peer[t].lepoch = st[s].peer[t].lepoch
    <3>1. PICK e : e = st[s].peer[t].lepoch
      OBVIOUS
    <3>2. e \in Nat
      BY Zenon, <3>1 DEF Base, Sound, IsPeers, IsVote
    <3>3. e <= st[t].lepoch /\ B[t][e] = st[s].peer[t].leader
      BY Zenon, <1>5, <2>1, <3>1 DEF Ballot
    <3> QED BY <1>3, <2>1, <3>1, <3>2, <3>3
  <2>2. CASE /\ st'[s].peer[t].leader = st'[t].leader
             /\ st'[s].peer[t].lepoch = st'[t].lepoch
    BY <1>1, <1>4, <1>5, <2>2
  <2> QED BY <1>5, <2>0, <2>1, <2>2 DEF Hears
<1> QED BY <1>3, <1>4, <1>5

----------------------------------------------------------------------------
(* The steps.                                                              *)

\* A step of one Sentinel, with record z and file d after it.
LEMMA OneTurn ==
  ASSUME Base, NEW s \in Sentinels, NEW z, NEW d,
         setup' = setup, LinksSound',
         st' = [st EXCEPT ![s] = z],
         disk' = [disk EXCEPT ![s] = d],
         Sound(z), z.fstate \in Stages,
         d.epoch \in Nat, d.lepoch = z.lepoch,
         z.known \subseteq setup.group \ {s}, d.known \subseteq setup.group \ {s},
         \/ z.lepoch = st[s].lepoch /\ z.leader \in {st[s].leader, Nobody}
         \/ z.lepoch > st[s].lepoch,
         \A t \in Sentinels :
           \/ z.peer[t].leader = Nobody
           \/ z.peer[t].leader = st[s].peer[t].leader /\ z.peer[t].lepoch = st[s].peer[t].lepoch,
         \/ /\ st[s].known \subseteq z.known \/ disk[s].known \subseteq z.known
            /\ disk[s].known \subseteq d.known \/ st[s].known \subseteq d.known
         \/ \E u \in setup.group : Reset(u)
  PROVE  Turns
<1>1. st' = [u \in Sentinels |-> IF u = s THEN z ELSE st[u]]
  BY DEF Base
<1>2. disk' = [u \in Sentinels |-> IF u = s THEN d ELSE disk[u]]
  BY DEF Base
<1>3. st' = [u \in Sentinels |-> st'[u]] /\ disk' = [u \in Sentinels |-> disk'[u]]
  BY <1>1, <1>2, Zenon
<1>4. st'[s] = z /\ disk'[s] = d
  BY Zenon, <1>1, <1>2
<1>5. Turn(s)
  <2>1. Votes(s)
    BY Zenon, <1>4 DEF Votes
  <2>2. ASSUME NEW t \in Sentinels PROVE Hears(s, t)
    BY Zenon, <1>4 DEF Hears
  <2>3. Grows(s) \/ \E u \in setup.group : Reset(u)
    BY <1>4 DEF Grows
  <2>4. Sound(st'[s]) /\ st'[s].fstate \in Stages
    BY Zenon, <1>4
  <2> QED BY Zenon, <1>4, <2>1, <2>2, <2>3, <2>4 DEF Turn
<1>6. ASSUME NEW u \in Sentinels, u # s PROVE Turn(u)
  BY <1>1, <1>2, <1>6, Bystander
<1> QED BY Zenon, <1>3, <1>5, <1>6 DEF Turns

\* Steps that neither vote nor hear of a vote, whether they save or not.
LEMMA KeptTurn ==
  ASSUME Base, NEW s \in Sentinels, NEW z, Kept(st[s], z), z.fstate \in Stages,
         setup' = setup, link' = link,
         st' = [st EXCEPT ![s] = z],
         disk' = disk \/ disk' = [disk EXCEPT ![s] = File(z)]
  PROVE  Turns
<1>1. LinksSound'
  BY Zenon DEF Base, LinksSound
<1>2. /\ Sound(z) /\ z.epoch \in Nat /\ z.lepoch = st[s].lepoch /\ z.leader = st[s].leader
      /\ z.known = st[s].known /\ z.peer = st[s].peer
  BY DEF Kept, Sound
<1>3. /\ st[s].known \subseteq setup.group \ {s} /\ disk[s].known \subseteq setup.group \ {s}
      /\ disk[s].epoch \in Nat /\ disk[s].lepoch = st[s].lepoch
  BY DEF Base
<1>4. CASE disk' = disk
  <2>1. PICK d : d = disk[s]
    OBVIOUS
  <2>2. disk' = [disk EXCEPT ![s] = d]
    BY <1>4, <2>1 DEF Base
  <2> QED BY ZenonT(60), <1>1, <1>2, <1>3, <2>1, <2>2, OneTurn
<1>5. CASE disk' = [disk EXCEPT ![s] = File(z)]
  <2>1. PICK d : d = File(z)
    OBVIOUS
  <2>2. d.epoch = z.epoch /\ d.lepoch = z.lepoch /\ d.known = z.known
    BY <2>1 DEF File
  <2>3. disk' = [disk EXCEPT ![s] = d]
    BY <1>5, <2>1
  <2>4. /\ d.epoch \in Nat /\ d.lepoch = z.lepoch /\ d.known \subseteq setup.group \ {s}
        /\ st[s].known \subseteq z.known /\ st[s].known \subseteq d.known
        /\ z.known \subseteq setup.group \ {s}
    BY <1>2, <1>3, <2>2
  <2> QED BY Zenon, <1>1, <1>2, <2>3, <2>4, OneTurn
<1> QED BY <1>4, <1>5

\* Steps that touch no Sentinel.
LEMMA NoTurn ==
  ASSUME Base, setup' = setup, st' = st, disk' = disk, LinksSound'
  PROVE  Turns
BY Bystander DEF Turns, Base

\* INFO of the master and of the replicas, the end of the period between two
\* failovers, and TILT.
LEMMA InfoTurn ==
  ASSUME Base, NEW s \in Sentinels,
         \/ InfoMaster(s) \/ CoolDown(s) \/ Tilt(s)
         \/ \E r : InfoPromoted(s, r) \/ InfoReplica(s, r)
  PROVE  Turns
<1>0. Sound(st[s]) /\ st[s].fstate \in Stages /\ IsState(st[s]) /\ st = [u \in Sentinels |-> st[u]]
  BY DEF Base, Sound
<1>1. CASE InfoMaster(s)
  <2>1. PICK v, w : [st[s] EXCEPT !.mrole = Role(st[s].addr), !.slaves = @ \cup
                       {r \in Instances : redis[r].up /\ redis[r].of = st[s].addr}]
                    = [st[s] EXCEPT !.mrole = v, !.slaves = w]
    BY Zenon
  <2>2. PICK z : z = [st[s] EXCEPT !.mrole = v, !.slaves = w]
    OBVIOUS
  <2>3. /\ st' = [st EXCEPT ![s] = z] /\ setup' = setup /\ link' = link
        /\ disk' = disk \/ disk' = [disk EXCEPT ![s] = File(z)]
    BY Zenon, <1>1, <2>1, <2>2 DEF InfoMaster
  <2>4. Kept(st[s], z)
    BY Zenon, <1>0, <2>2, Untouched
  <2>5. z.fstate = st[s].fstate
    BY <1>0, <2>2 DEF IsState, Fields
  <2> QED BY <1>0, <2>3, <2>4, <2>5, KeptTurn
<1>2. CASE CoolDown(s)
  <2>1. PICK z : z = [st[s] EXCEPT !.cool = FALSE]
    BY Zenon
  <2>2. /\ st' = [st EXCEPT ![s] = z] /\ setup' = setup /\ link' = link /\ disk' = disk
    BY <1>2, <2>1 DEF CoolDown
  <2>3. Kept(st[s], z) /\ z.fstate = st[s].fstate
    BY Zenon, <1>0, <2>1, Untouched DEF IsState, Fields
  <2> QED BY <1>0, <2>2, <2>3, KeptTurn
<1>3. CASE Tilt(s)
  <2>1. PICK v : v = ~st[s].tilt
    OBVIOUS
  <2>2. PICK z : z = [st[s] EXCEPT !.tilt = v]
    BY Zenon
  <2>3. /\ st' = [st EXCEPT ![s] = z] /\ setup' = setup /\ link' = link /\ disk' = disk
    BY <1>3, <2>1, <2>2 DEF Tilt
  <2>4. Kept(st[s], z) /\ z.fstate = st[s].fstate
    BY Zenon, <1>0, <2>2, Untouched DEF IsState, Fields
  <2> QED BY <1>0, <2>3, <2>4, KeptTurn
<1>4. ASSUME NEW r, InfoPromoted(s, r)
      PROVE  Turns
  <2>1. PICK z : z = Promoted(st[s])
    BY Zenon
  <2>2. /\ st' = [st EXCEPT ![s] = z] /\ setup' = setup /\ link' = link
        /\ disk' = [disk EXCEPT ![s] = File(z)]
    BY <1>4, <2>1 DEF InfoPromoted
  <2>3. PICK v : v = st[s].fepoch
    OBVIOUS
  <2>4. z = [st[s] EXCEPT !.cepoch = v, !.fstate = "RECONF_SLAVES"]
    BY <2>1, <2>3 DEF Promoted
  <2>5. Kept(st[s], z)
    BY Zenon, <1>0, <2>4, Untouched
  <2>6. z.fstate = "RECONF_SLAVES"
    BY <1>0, <2>4 DEF IsState, Fields
  <2>7. z.fstate \in Stages
    BY <2>6 DEF Stages
  <2> QED BY Zenon, <2>2, <2>5, <2>7, KeptTurn
<1>5. ASSUME NEW r, InfoReplica(s, r)
      PROVE  Turns
  <2>1. PICK v : st' = [st EXCEPT ![s].rflag[r] = v]
    BY <1>5, Zenon DEF InfoReplica
  <2>2. PICK f : f = [st[s].rflag EXCEPT ![r] = v]
    BY Zenon
  <2>3. PICK z : z = [st[s] EXCEPT !.rflag = f]
    BY Zenon
  <2>4. st' = [st EXCEPT ![s] = z]
    BY <2>1, <2>2, <2>3
  <2>5. setup' = setup /\ link' = link /\ disk' = disk
    BY Zenon, <1>5 DEF InfoReplica
  <2>6. Kept(st[s], z) /\ z.fstate = st[s].fstate
    BY Zenon, <1>0, <2>3, Untouched DEF IsState, Fields
  <2> QED BY <1>0, <2>4, <2>5, <2>6, KeptTurn
<1> QED BY <1>1, <1>2, <1>3, <1>4, <1>5

\* The steps of the Redis instances, and a link that breaks.
LEMMA OthersTurn ==
  ASSUME Base,
         \/ \E c : Execute(c)
         \/ \E r : Outage(r) \/ Return(r)
         \/ \E s, r : InfoConvert(s, r)
         \/ \E s \in Sentinels, t \in Sentinels : Disconnect(s, t)
  PROVE  Turns
<1>1. CASE \/ \E c : Execute(c)
           \/ \E r : Outage(r) \/ Return(r)
           \/ \E s, r : InfoConvert(s, r)
  <2>1. setup' = setup /\ st' = st /\ disk' = disk /\ link' = link
    BY Zenon, <1>1 DEF Execute, Outage, Return, InfoConvert
  <2>2. LinksSound'
    BY Zenon, <2>1 DEF Base, LinksSound
  <2> QED BY <2>1, <2>2, NoTurn
<1>2. ASSUME NEW s \in Sentinels, NEW t \in Sentinels, Disconnect(s, t)
      PROVE  Turns
  <2>1. setup' = setup /\ st' = st /\ disk' = disk /\ link' = [link EXCEPT ![s][t] = <<>>]
    BY <1>2 DEF Disconnect
  <2>2. PICK A : link \in [Sentinels -> [Sentinels -> Seq([epoch : Nat, addr : A, who : A])]]
    BY Zenon DEF Base, LinksSound
  <2>3. PICK S : S = Seq([epoch : Nat, addr : A, who : A])
    OBVIOUS
  <2>4. <<>> \in S
    BY <2>3
  <2>5. link' \in [Sentinels -> [Sentinels -> S]]
    BY Zenon, <2>1, <2>2, <2>3, <2>4
  <2>6. LinksSound'
    BY Zenon, <2>3, <2>5 DEF LinksSound
  <2> QED BY <2>1, <2>6, NoTurn
<1> QED BY <1>1, <1>2

\* SENTINEL FAILOVER starts a failover in an epoch of its own.
LEMMA ForceTurn ==
  ASSUME Base, NEW s \in Sentinels, ForceFailover(s)
  PROVE  Turns
<1>0. Sound(st[s]) /\ IsState(st[s])
  BY DEF Base, Sound
<1>1. PICK e \in Nat : e = st[s].epoch + 1
  BY <1>0 DEF Sound
<1>2. PICK z : z = [st[s] EXCEPT !.fstate = "WAIT_START", !.epoch = e, !.fepoch = e,
                                 !.cool = TRUE, !.force = TRUE]
  OBVIOUS
<1>3. [StartFailover(st[s]) EXCEPT !.force = TRUE] = z
  BY <1>0, <1>1, <1>2 DEF StartFailover, IsState, Fields
<1>4. st' = [st EXCEPT ![s] = z] /\ disk' = disk /\ setup' = setup /\ link' = link
  BY Zenon, <1>3 DEF ForceFailover
<1>5. IsState(z)
  BY Zenon, <1>0, <1>2 DEF IsState, Fields
<1>6. /\ z.epoch = e /\ z.fepoch = e /\ z.fstate = "WAIT_START" /\ z.known = st[s].known
      /\ z.leader = st[s].leader /\ z.lepoch = st[s].lepoch /\ z.peer = st[s].peer
  BY <1>0, <1>2 DEF IsState, Fields
<1>7. Sound(z)
  BY <1>0, <1>5, <1>6 DEF Sound
<1>8. PICK d : d = disk[s]
  OBVIOUS
<1>9. disk' = [disk EXCEPT ![s] = d]
  BY <1>4, <1>8 DEF Base
<1>10. /\ d.epoch \in Nat /\ d.lepoch = z.lepoch /\ d.known \subseteq setup.group \ {s}
       /\ z.known \subseteq setup.group \ {s}
       /\ st[s].known \subseteq z.known /\ disk[s].known \subseteq d.known
  BY <1>6, <1>8 DEF Base
<1>11. LinksSound'
  BY Zenon, <1>4 DEF Base, LinksSound
<1>12. z.fstate \in Stages
  BY <1>6 DEF Stages
<1> QED BY Zenon, <1>4, <1>6, <1>7, <1>9, <1>10, <1>11, <1>12, OneTurn

\* A restart: the vote is forgotten, its epoch is read from the file.
LEMMA CrashTurn ==
  ASSUME Base, NEW s \in Sentinels, Crash(s)
  PROVE  Turns
<1>1. PICK z : z = Fresh(disk[s])
  BY Zenon
<1>2. /\ z.epoch = disk[s].epoch /\ z.lepoch = disk[s].lepoch /\ z.known = disk[s].known
      /\ z.fepoch = 0 /\ z.leader = Nobody /\ z.fstate = None
      /\ z.peer = [t \in Sentinels |-> NoVote]
  BY <1>1 DEF Fresh
<1>3. IsState(z)
  BY Zenon, <1>1 DEF Fresh, IsState, Fields
<1>4. disk[s].epoch \in Nat /\ disk[s].lepoch \in Nat /\ disk[s].lepoch = st[s].lepoch
  BY DEF Base, Sound
<1>5. IsPeers([t \in Sentinels |-> NoVote])
  BY Zenon DEF IsPeers, IsVote, NoVote
<1>6. Sound(z)
  BY <1>2, <1>3, <1>4, <1>5 DEF Sound
<1>7. PICK d : d = disk[s]
  BY Zenon
<1>8. /\ st' = [st EXCEPT ![s] = z] /\ disk' = disk /\ setup' = setup
      /\ link' = [t \in Sentinels |-> [u \in Sentinels |->
                    IF s \in {t, u} THEN <<>> ELSE link[t][u]]]
  BY <1>1 DEF Crash
<1>9. disk' = [disk EXCEPT ![s] = d]
  BY <1>7, <1>8 DEF Base
<1>10. LinksSound'
  <2>1. PICK A : link \in [Sentinels -> [Sentinels -> Seq([epoch : Nat, addr : A, who : A])]]
    BY Zenon DEF Base, LinksSound
  <2>2. PICK S : S = Seq([epoch : Nat, addr : A, who : A])
    OBVIOUS
  <2>3. <<>> \in S
    BY <2>2
  <2>4. link' \in [Sentinels -> [Sentinels -> S]]
    BY Zenon, <1>8, <2>1, <2>2, <2>3
  <2> QED BY Zenon, <2>2, <2>4 DEF LinksSound
<1>11. /\ d.epoch \in Nat /\ d.lepoch = z.lepoch /\ d.known \subseteq setup.group \ {s}
       /\ z.known \subseteq setup.group \ {s}
       /\ disk[s].known \subseteq z.known /\ disk[s].known \subseteq d.known
  BY Zenon, <1>2, <1>4, <1>7 DEF Base
<1>12. z.fstate \in Stages
  BY <1>2 DEF Stages, None
<1>13. \A t \in Sentinels : z.peer[t].leader = Nobody
  BY <1>2 DEF NoVote
<1>14. z.lepoch = st[s].lepoch /\ z.leader \in {st[s].leader, Nobody}
  BY <1>2, <1>4
<1> QED BY Zenon, <1>6, <1>8, <1>9, <1>10, <1>11, <1>12, <1>13, <1>14, OneTurn

\* SENTINEL RESET: the only step after which a Sentinel knows fewer others.
LEMMA ResetTurn ==
  ASSUME Base, NEW s \in Sentinels, s \in setup.group, Reset(s)
  PROVE  Turns
<1>0. Sound(st[s])
  BY DEF Base
<1>1. PICK z : z = ResetMaster(st[s], FALSE)
  BY Zenon
<1>2. /\ Sound(z) /\ z.epoch = st[s].epoch /\ z.lepoch = st[s].lepoch
      /\ z.leader = Nobody /\ z.fstate = None /\ z.known = {}
      /\ z.peer = [t \in Sentinels |-> NoVote]
  BY Zenon, <1>0, <1>1, ResetEffect
<1>3. /\ st' = [st EXCEPT ![s] = z] /\ disk' = disk /\ setup' = setup
      /\ link' = [link EXCEPT ![s] = [t \in Sentinels |-> <<>>]]
  BY <1>1 DEF Reset
<1>4. PICK d : d = disk[s]
  OBVIOUS
<1>5. disk' = [disk EXCEPT ![s] = d]
  BY <1>3, <1>4 DEF Base
<1>6. LinksSound'
  <2>1. PICK A : link \in [Sentinels -> [Sentinels -> Seq([epoch : Nat, addr : A, who : A])]]
    BY Zenon DEF Base, LinksSound
  <2>2. PICK S : S = Seq([epoch : Nat, addr : A, who : A])
    OBVIOUS
  <2>3. <<>> \in S
    BY <2>2
  <2>4. link' \in [Sentinels -> [Sentinels -> S]]
    BY Zenon, <1>3, <2>1, <2>2, <2>3
  <2> QED BY Zenon, <2>2, <2>4 DEF LinksSound
<1>7. /\ d.epoch \in Nat /\ d.lepoch = z.lepoch /\ d.known \subseteq setup.group \ {s}
      /\ z.known \subseteq setup.group \ {s}
  BY <1>2, <1>4 DEF Base
<1>8. z.fstate \in Stages
  BY <1>2 DEF Stages, None
<1>9. \A t \in Sentinels : z.peer[t].leader = Nobody
  BY <1>2 DEF NoVote
<1>10. z.lepoch = st[s].lepoch /\ z.leader \in {st[s].leader, Nobody}
  BY <1>2
<1>11. \E u \in setup.group : Reset(u)
  OBVIOUS
<1> QED BY Zenon, <1>2, <1>3, <1>5, <1>6, <1>7, <1>8, <1>9, <1>10, <1>11, OneTurn

-----------------------------------------------------------------------------
(* Messages between Sentinels: hello, and a vote that is asked for.        *)

\* A hello message: the epoch may grow, one Sentinel more may be known, and a
\* newer configuration makes the vote forgotten.
LEMMA HelloTurn ==
  ASSUME Base, NEW s \in setup.group, NEW t \in Sentinels, s \in Sentinels, Hello(s, t)
  PROVE  Turns
<1>0. Sound(st[t]) /\ IsState(st[t]) /\ Sound(st[s]) /\ st[t].fstate \in Stages
  BY Zenon DEF Base, Sound
<1>1. PICK m \in Nat : m = Max({st[t].epoch, st[s].epoch}) /\ m >= st[t].epoch
  BY <1>0, MaxOfTwo DEF Sound
<1>2. PICK k : k = st[t].known \cup {s}
  BY Zenon
<1>3. PICK seen : seen = [st[t] EXCEPT !.known = k, !.epoch = m]
  OBVIOUS
<1>4. IsState(seen)
  BY Zenon, <1>0, <1>3 DEF IsState, Fields
<1>5. /\ seen.epoch = m /\ seen.known = k /\ seen.fepoch = st[t].fepoch
      /\ seen.leader = st[t].leader /\ seen.lepoch = st[t].lepoch
      /\ seen.peer = st[t].peer /\ seen.fstate = st[t].fstate
  BY <1>0, <1>3 DEF IsState, Fields
<1>6. Sound(seen)
  BY <1>0, <1>1, <1>4, <1>5 DEF Sound
<1>7. PICK addr, newer, c :
        addr = CurrentAddr(st[s]) /\ newer = NewerConfig(st[t], st[s]) /\ c = st[s].cepoch
  BY Zenon
<1>8. PICK y : y = IF newer THEN [seen EXCEPT !.cepoch = c] ELSE seen
  BY Zenon
<1>9. Kept(seen, y) /\ y.fstate = seen.fstate
  BY Zenon, <1>4, <1>6, <1>8, Untouched DEF IsState, Fields
<1>10. PICK z : z = IF newer /\ addr # st[t].addr THEN ResetMasterAndChangeAddress(y, addr) ELSE y
  BY Zenon
<1>11. /\ Sound(z) /\ z.epoch = m /\ z.lepoch = st[t].lepoch /\ z.known = k
       /\ z.peer = st[t].peer /\ z.fstate \in Stages
       /\ z.leader = st[t].leader \/ z.leader = Nobody
  <2>1. CASE z = y
    BY Zenon, <1>0, <1>5, <1>9, <2>1 DEF Kept
  <2>2. CASE z = ResetMasterAndChangeAddress(y, addr)
    <3>1. Sound(y)
      BY Zenon, <1>9 DEF Kept
    <3>2. /\ Sound(z) /\ z.epoch = y.epoch /\ z.lepoch = y.lepoch /\ z.known = y.known
          /\ z.peer = y.peer /\ z.fstate = None /\ z.leader = Nobody
      BY <2>2, <3>1, MoveEffect
    <3> QED BY Zenon, <1>5, <1>9, <3>2 DEF Kept, Stages, None
  <2> QED BY Zenon, <1>10, <2>1, <2>2
<1>12. /\ s # t /\ setup' = setup /\ link' = link /\ st' = [st EXCEPT ![t] = z]
       /\ \/ disk' = [disk EXCEPT ![t] = File(z)]
          \/ disk' = [disk EXCEPT ![t] = File(seen)]
          \/ disk' = disk
  BY Zenon, <1>1, <1>2, <1>3, <1>7, <1>8, <1>10 DEF Hello
<1>13. PICK d : /\ disk' = [disk EXCEPT ![t] = d]
                /\ d = File(z) \/ d = File(seen) \/ d = disk[t]
  BY <1>12 DEF Base
<1>14. /\ st[t].known \subseteq setup.group \ {t} /\ disk[t].known \subseteq setup.group \ {t}
       /\ disk[t].epoch \in Nat /\ disk[t].lepoch = st[t].lepoch
  BY Zenon DEF Base
<1>15. k \subseteq setup.group \ {t} /\ st[t].known \subseteq k
  BY Zenon, <1>2, <1>12, <1>14
<1>16. \/ d.epoch = m /\ d.lepoch = st[t].lepoch /\ d.known = k
       \/ d.epoch = disk[t].epoch /\ d.lepoch = st[t].lepoch /\ d.known = disk[t].known
  BY <1>5, <1>11, <1>13, <1>14 DEF File
<1>17. /\ d.epoch \in Nat /\ d.lepoch = z.lepoch /\ d.known \subseteq setup.group \ {t}
       /\ z.known \subseteq setup.group \ {t}
       /\ st[t].known \subseteq z.known
       /\ disk[t].known \subseteq d.known \/ st[t].known \subseteq d.known
  BY <1>11, <1>14, <1>15, <1>16
<1>18. LinksSound'
  BY Zenon, <1>12 DEF Base, LinksSound
<1>19. z.lepoch = st[t].lepoch /\ z.leader \in {st[t].leader, Nobody}
  BY <1>11
<1> QED BY Zenon, <1>11, <1>12, <1>13, <1>17, <1>18, <1>19, OneTurn

\* An answer: t votes and saves, and s, which may have lost the link, hears of
\* the vote.
LEMMA AnswerTurn ==
  ASSUME Base, NEW s \in Sentinels, NEW t \in Sentinels, Answer(s, t)
  PROVE  Turns
<1>0. Sound(st[t]) /\ IsState(st[t]) /\ Sound(st[s]) /\ st[t].fstate \in Stages
  BY DEF Base, Sound
<1> DEFINE q == link[s][t][1]
           y == Vote(t, q)
<1>7. PICK lost \in BOOLEAN :
        /\ st' = [[st EXCEPT ![t] = y]
                    EXCEPT ![s].peer[t] = IF lost THEN @ ELSE Heard(@, Reply(t, q))]
        /\ link' = [link EXCEPT ![s][t] = IF lost THEN <<>> ELSE Tail(@)]
  BY Zenon DEF Answer
<1>1. q = link[s][t][1]
  OBVIOUS
<1>5. y = Vote(t, q)
  BY Zenon
<1> HIDE DEF q, y
<1>2. PICK A : link \in [Sentinels -> [Sentinels -> Seq([epoch : Nat, addr : A, who : A])]]
  BY Zenon DEF Base, LinksSound
<1>3. q \in [epoch : Nat, addr : A, who : A]
  <2>0. PICK R : R = [epoch : Nat, addr : A, who : A]
    BY Zenon
  <2>1. PICK l \in Seq(R) : l = link[s][t]
    BY ZenonT(60), <1>2, <2>0
  <2>2. l # <<>>
    BY <2>1 DEF Answer
  <2>3. l[1] \in R
    BY <2>2
  <2> QED BY <1>1, <2>0, <2>1, <2>3
<1>4. q.epoch \in Nat
  BY Zenon, <1>3
<1>6. /\ Sound(y) /\ y.known = st[t].known /\ y.peer = st[t].peer /\ y.fstate = st[t].fstate
      /\ Cast(st[t], y, q.who)
  <2>1. CASE q.addr = st[t].addr
    <3>1. y = VoteLeader(t, st[t], q.epoch, q.who)
      BY Zenon, <1>5, <2>1 DEF Vote
    <3> QED BY <1>0, <1>4, <3>1, VoteEffect
  <2>2. CASE q.addr # st[t].addr
    BY <1>0, <1>5, <2>2 DEF Vote, Cast
  <2> QED BY Zenon, <2>1, <2>2
<1>8. PICK x : x = IF s = t THEN y ELSE st[s]
  OBVIOUS
<1>9. Sound(x) /\ x.known = st[s].known /\ x.peer = st[s].peer /\ x.fstate = st[s].fstate
  BY <1>0, <1>6, <1>8
<1>10. PICK a : a = IF lost THEN x.peer[t] ELSE Heard(x.peer[t], Reply(t, q))
  OBVIOUS
<1>11. PICK p : p = [x.peer EXCEPT ![t] = a]
  BY Zenon
<1>12. PICK z : z = [x EXCEPT !.peer = p]
  BY Zenon
<1>13. st' = [u \in Sentinels |-> IF u = s THEN z ELSE IF u = t THEN y ELSE st[u]]
  <2>1. st = [u \in Sentinels |-> st[u]]
    BY DEF Base
  <2>2. PICK f : f = [st EXCEPT ![t] = y]
    BY Zenon
  <2>3. f = [u \in Sentinels |-> IF u = t THEN y ELSE st[u]]
    BY Zenon, <2>1, <2>2
  <2>4. f[s] = x
    BY <1>8, <2>3
  <2>6. st' = [f EXCEPT ![s] = [f[s] EXCEPT !.peer = [f[s].peer EXCEPT ![t] =
                   IF lost THEN f[s].peer[t] ELSE Heard(f[s].peer[t], Reply(t, q))]]]
    BY <1>7, <2>2, Zenon
  <2>5. st' = [f EXCEPT ![s] = z]
    BY Zenon, <1>10, <1>11, <1>12, <2>4, <2>6
  <2> QED BY <2>3, <2>5
<1>14. /\ disk' = IF y.epoch # st[t].epoch \/ y.lepoch # st[t].lepoch
                   THEN [disk EXCEPT ![t] = File(y)] ELSE disk
       /\ setup' = setup
  BY <1>1, <1>5 DEF Answer
<1>15. PICK d : /\ disk' = [u \in Sentinels |-> IF u = t THEN d ELSE disk[u]]
                /\ \/ d.epoch = y.epoch /\ d.lepoch = y.lepoch /\ d.known = y.known
                   \/ d = disk[t] /\ y.lepoch = st[t].lepoch
  <2>1. disk = [u \in Sentinels |-> disk[u]]
    BY DEF Base
  <2>2. CASE disk' = [disk EXCEPT ![t] = File(y)]
    <3>1. PICK d : d = File(y)
      BY Zenon
    <3>2. d.epoch = y.epoch /\ d.lepoch = y.lepoch /\ d.known = y.known
      BY <3>1 DEF File
    <3>3. disk' = [u \in Sentinels |-> IF u = t THEN d ELSE disk[u]]
      BY <2>1, <2>2, <3>1
    <3> QED BY <3>2, <3>3
  <2>3. CASE disk' = disk /\ y.lepoch = st[t].lepoch
    <3>1. PICK d : d = disk[t]
      OBVIOUS
    <3>2. disk' = [u \in Sentinels |-> IF u = t THEN d ELSE disk[u]]
      BY <2>1, <2>3, <3>1
    <3> QED BY <2>3, <3>1, <3>2
  <2> QED BY Zenon, <1>14, <2>2, <2>3
<1>16. st' = [u \in Sentinels |-> st'[u]] /\ disk' = [u \in Sentinels |-> disk'[u]]
  BY <1>13, <1>15, Zenon
<1>17. LinksSound'
  <2>1. PICK R : R = [epoch : Nat, addr : A, who : A]
    BY Zenon
  <2>0. link[s][t] # <<>>
    BY DEF Answer
  <2>2. link[s][t] \in Seq(R) /\ link[s][t] # <<>>
    BY Zenon, <1>2, <2>0, <2>1
  <2>3. Tail(link[s][t]) \in Seq(R) /\ <<>> \in Seq(R)
    BY <2>2
  <2>4. PICK S : S = Seq(R)
    OBVIOUS
  <2>5. PICK l : l = IF lost THEN <<>> ELSE Tail(link[s][t])
    BY Zenon
  <2>7. l \in S
    BY Zenon, <2>3, <2>4, <2>5
  <2>8. link' = [link EXCEPT ![s][t] = l]
    BY <1>7, <2>5
  <2>6. link' \in [Sentinels -> [Sentinels -> S]]
    BY Zenon, <1>2, <2>1, <2>4, <2>7, <2>8
  <2> QED BY ZenonT(60), <2>1, <2>4, <2>6 DEF LinksSound
<1>18. /\ st[t].known \subseteq setup.group \ {t} /\ disk[t].known \subseteq setup.group \ {t}
       /\ disk[t].epoch \in Nat /\ disk[t].lepoch = st[t].lepoch
       /\ st[s].known \subseteq setup.group \ {s} /\ disk[s].known \subseteq setup.group \ {s}
       /\ disk[s].epoch \in Nat /\ disk[s].lepoch = st[s].lepoch
       /\ st[s].fstate \in Stages
  BY Zenon DEF Base
<1>19. y.epoch \in Nat
  BY Zenon, <1>6 DEF Sound
<1>20. ASSUME NEW u \in Sentinels, st'[u].known = st[u].known
       PROVE  /\ disk'[u].epoch \in Nat /\ disk'[u].known \subseteq setup.group \ {u}
              /\ st'[u].known \subseteq setup.group \ {u}
              /\ Grows(u)
  <2>1. /\ st[u].known \subseteq setup.group \ {u} /\ disk[u].known \subseteq setup.group \ {u}
        /\ disk[u].epoch \in Nat
    BY Zenon DEF Base
  <2>2. CASE u = t
    BY Zenon, <1>6, <1>15, <1>19, <1>20, <2>1, <2>2 DEF Grows
  <2>3. CASE u # t
    BY Zenon, <1>15, <1>20, <2>1, <2>3 DEF Grows
  <2> QED BY Zenon, <2>2, <2>3
\* What s hears is what t now says of itself.
<1>21. /\ IsVote(a)
       /\ \/ a.leader = Nobody
          \/ a.leader = x.peer[t].leader /\ a.lepoch = x.peer[t].lepoch
          \/ a.leader = y.leader /\ a.lepoch = y.lepoch
  <2>1. IsVote(x.peer[t])
    BY <1>9 DEF Sound, IsPeers
  <2>2. PICK v : v = x.peer[t]
    OBVIOUS
  <2>3. PICK r : r = Reply(t, q)
    OBVIOUS
  <2>4. PICK dn : dn = SaysDown(t, q.addr)
    BY Zenon
  <2>5. \/ r = [down |-> dn, leader |-> y.leader, lepoch |-> y.lepoch]
        \/ r = [down |-> dn, leader |-> Nobody, lepoch |-> 0]
    BY Zenon, <1>5, <2>3, <2>4 DEF Reply
  <2>6. y.lepoch \in Nat
    BY Zenon, <1>6 DEF Sound
  <2>7. \/ r.leader = y.leader /\ r.lepoch = y.lepoch
        \/ r.leader = Nobody /\ r.lepoch = 0
    BY <2>5
  <2>8. r = [f \in {"down", "leader", "lepoch"} |-> r[f]]
    BY <2>5
  <2>9. IsVote(r)
    BY <2>6, <2>7, <2>8 DEF IsVote
  <2>10. PICK rd : rd = r.down
    OBVIOUS
  <2>11. \/ a = v
         \/ a = [v EXCEPT !.down = rd]
         \/ a = r
    BY Zenon, <1>10, <2>2, <2>3, <2>10 DEF Heard
  <2>12. CASE a = [v EXCEPT !.down = rd]
    BY <2>1, <2>2, <2>12 DEF IsVote
  <2> QED BY Zenon, <2>1, <2>2, <2>7, <2>9, <2>11, <2>12
<1>22. z.peer = p /\ IsState(z) /\ z.epoch = x.epoch /\ z.fepoch = x.fepoch /\ z.lepoch = x.lepoch
       /\ z.leader = x.leader /\ z.known = x.known /\ z.fstate = x.fstate
  <2>1. IsState(x)
    BY <1>9 DEF Sound
  <2>2. IsState(z)
    BY Zenon, <1>12, <2>1 DEF IsState, Fields
  <2> QED BY Zenon, <1>12, <2>1, <2>2 DEF IsState, Fields
<1>23. p = [u \in Sentinels |-> IF u = t THEN a ELSE x.peer[u]]
  BY <1>9, <1>11 DEF Sound, IsPeers
<1>24. IsPeers(p)
  <2>1. p = [u \in Sentinels |-> p[u]]
    BY <1>23, Zenon
  <2>2. ASSUME NEW u \in Sentinels PROVE IsVote(p[u])
    BY Zenon, <1>9, <1>21, <1>23 DEF Sound, IsPeers
  <2> QED BY <2>1, <2>2 DEF IsPeers
<1>25. Sound(z)
  BY <1>9, <1>22, <1>24 DEF Sound
<1>26. st'[s] = z /\ (s # t => st'[t] = y)
  BY Zenon, <1>13
<1>27. st'[t].leader = y.leader /\ st'[t].lepoch = y.lepoch
  BY Zenon, <1>8, <1>22, <1>26
<1>28. Votes(t)
  BY Zenon, <1>6, <1>27 DEF Votes, Cast
<1>29. disk'[t].lepoch = st'[t].lepoch
  BY Zenon, <1>15, <1>18, <1>27
<1>30. Turn(s)
  <2>1. Sound(st'[s]) /\ st'[s].fstate \in Stages /\ st'[s].known = st[s].known
    BY Zenon, <1>9, <1>18, <1>22, <1>25, <1>26
  <2>2. disk'[s].lepoch = st'[s].lepoch
    BY Zenon, <1>8, <1>15, <1>18, <1>22, <1>26, <1>29
  <2>3. Votes(s)
    BY Zenon, <1>8, <1>22, <1>26, <1>28 DEF Votes
  <2>4. ASSUME NEW v \in Sentinels PROVE Hears(s, v)
    <3>1. CASE v = t
      BY ZenonT(60), <1>9, <1>21, <1>22, <1>23, <1>26, <1>27, <3>1 DEF Hears
    <3>2. CASE v # t
      BY ZenonT(60), <1>9, <1>22, <1>23, <1>26, <3>2 DEF Hears
    <3> QED BY Zenon, <3>1, <3>2
  <2> QED BY Zenon, <1>20, <2>1, <2>2, <2>3, <2>4 DEF Turn
<1>31. ASSUME s # t PROVE Turn(t)
  <2>1. st'[t] = y
    BY Zenon, <1>26, <1>31
  <2>2. Sound(st'[t]) /\ st'[t].fstate \in Stages /\ st'[t].known = st[t].known
    BY Zenon, <1>0, <1>6, <2>1
  <2>3. ASSUME NEW v \in Sentinels PROVE Hears(t, v)
    BY <1>6, <2>1 DEF Hears
  <2> QED BY Zenon, <1>20, <1>28, <1>29, <2>2, <2>3 DEF Turn
<1>32. ASSUME NEW u \in Sentinels, u # s, u # t PROVE Turn(u)
  <2>1. st'[u] = st[u] /\ disk'[u] = disk[u]
    BY Zenon, <1>13, <1>15, <1>32
  <2> QED BY Zenon, <2>1, Bystander
<1> QED BY Zenon, <1>14, <1>16, <1>17, <1>30, <1>31, <1>32 DEF Turns

-----------------------------------------------------------------------------
(* The timer.                                                              *)

\* What the timer starts from: the failure detector and, perhaps, the start of
\* a failover, neither of which is a vote.
Started(s, x) ==
  /\ Sound(x) /\ x.fstate \in Stages
  /\ x.known = st[s].known /\ x.leader = st[s].leader /\ x.lepoch = st[s].lepoch
  /\ x.peer = st[s].peer

\* What the checks at the start of the timer (CheckDown, StartIfNeeded) leave
\* alone: at most they move on to the next epoch for a failover of their own.
LEMMA TimerStart ==
  ASSUME Base, NEW s \in Sentinels, NEW down
  PROVE  Started(s, StartIfNeeded(CheckDown(st[s], down)))
<1>0. Sound(st[s]) /\ st[s].fstate \in Stages /\ IsState(st[s])
  BY DEF Base, Sound
<1>1. PICK w : w = (down /\ 1 + Cardinality({t \in st[s].known : st[s].peer[t].down}) >= Quorum)
  BY Zenon
<1>2. PICK x : x = [st[s] EXCEPT !.sdown = down, !.odown = w]
  OBVIOUS
<1>3. x = CheckDown(st[s], down)
  BY <1>1, <1>2, Zenon DEF CheckDown
<1>4. Kept(st[s], x) /\ x.fstate = st[s].fstate
  BY Zenon, <1>0, <1>2, Untouched DEF IsState, Fields
<1>5. Sound(x) /\ x.fstate \in Stages
  BY <1>0, <1>4 DEF Kept
<1>6. PICK y : y = StartIfNeeded(x)
  OBVIOUS
<1>7. /\ Sound(y) /\ y.fstate \in Stages
      /\ y.known = x.known /\ y.leader = x.leader /\ y.lepoch = x.lepoch /\ y.peer = x.peer
  BY Zenon, <1>5, <1>6, StartEffect
<1> QED BY Zenon, <1>3, <1>4, <1>6, <1>7 DEF Started, Kept

\* The outcome of the state machine is a vote, or no vote, for some w.
LEMMA MachineEffect ==
  ASSUME NEW s, NEW x, Sound(x), x.fstate \in Stages, NEW o \in FailoverStateMachine(s, x)
  PROVE  /\ Sound(o.x) /\ o.x.fstate \in Stages \cup {"UPDATE_CONFIG"}
         /\ o.x.known = x.known /\ o.x.peer = x.peer
         /\ \E w : Cast(x, o.x, w)
         /\ o.win = {} \/ \E w : Elects(s, x, o, w)
<1>1. CASE x.fstate = "WAIT_START"
  <2>1. o \in FailoverWaitStart(s, x)
    BY <1>1 DEF FailoverStateMachine, None
  <2>2. PICK w : o.x.fstate \in Stages /\ Elects(s, x, o, w)
    BY <2>1, WaitStartEffect
  <2>3. PICK y : y = VoteLeader(s, x, x.fepoch, w)
    BY Zenon
  <2>4. Sound(y) /\ y.known = x.known /\ y.peer = x.peer /\ Cast(x, y, w)
    BY <2>3, VoteEffect DEF Sound
  <2>5. Kept(y, o.x)
    BY Zenon, <2>2, <2>3 DEF Elects
  <2>6. Cast(x, o.x, w)
    BY Zenon, <2>4, <2>5 DEF Kept, Cast
  <2> QED BY <2>2, <2>4, <2>5, <2>6 DEF Kept
<1>2. CASE x.fstate # "WAIT_START"
  <2>1. Kept(x, o.x) /\ o.win = {} /\ o.x.fstate \in Stages \cup {"UPDATE_CONFIG"}
    BY Zenon, <1>2, QuietStates
  <2>2. \A w : Cast(x, o.x, w)
    BY Zenon, <2>1 DEF Kept, Cast
  <2> QED BY Zenon, <2>1, <2>2 DEF Kept
<1> QED BY Zenon, <1>1, <1>2

\* From the outcome v of the state machine, the record y from which the timer
\* asks and the record z it leaves behind.
Asked(s, v, late, y, z) ==
  /\ y = [v EXCEPT !.peer = Peers(s, v, late)]
  /\ z = IF y.fstate = "UPDATE_CONFIG"
         THEN ResetMasterAndChangeAddress(y, y.promoted) ELSE y

\* What the timer saves.
Saves(s, y, z) ==
  disk' = IF z.addr # y.addr \/ z.lepoch # st[s].lepoch
          THEN [disk EXCEPT ![s] = File(z)] ELSE disk

\* The votes the timer forgets and the end of the failover.
LEMMA TimerRecord ==
  ASSUME NEW s \in Sentinels, NEW v, Sound(v), v.fstate \in Stages \cup {"UPDATE_CONFIG"},
         NEW late, NEW y, NEW z,
         Asked(s, v, late, y, z)
  PROVE  /\ Sound(y) /\ Sound(z) /\ z.fstate \in Stages
         /\ z.known = v.known /\ z.lepoch = v.lepoch
         /\ z.leader = v.leader \/ z.leader = Nobody
         /\ v.fstate # "UPDATE_CONFIG" => z.leader = v.leader
         /\ \A t \in Sentinels :
              /\ z.peer[t].lepoch = v.peer[t].lepoch
              /\ z.peer[t].leader = v.peer[t].leader \/ z.peer[t].leader = Nobody
<1>0. IsState(v)
  BY DEF Sound
<1>2. PICK p : p = Peers(s, v, late)
  BY Zenon
<1>3. /\ IsPeers(p)
      /\ \A t \in Sentinels :
           /\ p[t].lepoch = v.peer[t].lepoch
           /\ p[t].leader = v.peer[t].leader \/ p[t].leader = Nobody
  BY <1>2, PeersEffect
<1>4. y = [v EXCEPT !.peer = p]
  BY <1>2 DEF Asked
<1>5. IsState(y)
  BY <1>0, <1>4 DEF IsState, Fields
<1>6. /\ y.peer = p /\ y.epoch = v.epoch /\ y.fepoch = v.fepoch /\ y.lepoch = v.lepoch
      /\ y.leader = v.leader /\ y.known = v.known /\ y.fstate = v.fstate
  BY Zenon, <1>0, <1>4 DEF IsState, Fields
<1>7. Sound(y)
  BY Zenon, <1>3, <1>5, <1>6 DEF Sound
<1>8. CASE y.fstate = "UPDATE_CONFIG"
  <2>1. PICK a : a = y.promoted
    OBVIOUS
  <2>2. PICK r : r = ResetMasterAndChangeAddress(y, a)
    BY Zenon
  <2>3. /\ Sound(r) /\ r.fstate = None /\ r.known = y.known /\ r.peer = y.peer
        /\ r.lepoch = y.lepoch /\ r.leader = Nobody
    BY <1>7, <2>2, MoveEffect
  <2>4. z = r
    BY Zenon, <1>8, <2>1, <2>2 DEF Asked
  <2> QED BY Zenon, <1>3, <1>6, <1>7, <1>8, <2>3, <2>4 DEF Stages, None
<1>9. CASE y.fstate # "UPDATE_CONFIG"
  <2>1. z = y
    BY Zenon, <1>9 DEF Asked
  <2> QED BY <1>3, <1>6, <1>7, <1>9, <2>1
<1> QED BY <1>8, <1>9

\* Of this: the vote the timer leaves.
LEMMA TimerVote ==
  ASSUME NEW s \in Sentinels, NEW v, Sound(v), v.fstate \in Stages \cup {"UPDATE_CONFIG"},
         NEW late, NEW y, NEW z,
         Asked(s, v, late, y, z)
  PROVE  /\ Sound(y) /\ z.lepoch = v.lepoch
         /\ v.fstate # "UPDATE_CONFIG" => z.leader = v.leader
BY TimerRecord

\* What the timer asks: a question carries the current epoch.
LEMMA TimerAsks ==
  ASSUME Base, NEW s \in Sentinels, NEW y, Sound(y), NEW asks,
         link' = [link EXCEPT ![s] = [t \in Sentinels |->
                    IF t \in asks THEN Append(@[t], Question(s, y)) ELSE @[t]]]
  PROVE  LinksSound'
<1>1. PICK A : link \in [Sentinels -> [Sentinels -> Seq([epoch : Nat, addr : A, who : A])]]
  BY Zenon DEF Base, LinksSound
<1>2. PICK C : C = A \cup {y.addr, s}
  BY Zenon
<1>3. PICK R, T : R = [epoch : Nat, addr : A, who : A] /\ T = [epoch : Nat, addr : C, who : C]
  BY Zenon
<1>4. R \subseteq T
  BY <1>2, <1>3
<1>5. PICK q : q = Question(s, y)
  BY Zenon
<1>6. q \in T
  BY Zenon, <1>2, <1>3, <1>5 DEF Question, Sound
<1>7. ASSUME NEW l \in Seq(R) PROVE l \in Seq(T) /\ Append(l, q) \in Seq(T)
  BY <1>4, <1>6
<1>8. \A u, v \in Sentinels : link[u][v] \in Seq(R)
  BY Zenon, <1>1, <1>3
<1>9. /\ DOMAIN link' = Sentinels
      /\ \A u \in Sentinels :
           link'[u] = IF u = s THEN [t \in Sentinels |->
                                      IF t \in asks THEN Append(link[s][t], q) ELSE link[s][t]]
                      ELSE link[u]
      /\ link' = [u \in Sentinels |-> link'[u]]
  BY Zenon, <1>1, <1>5
<1>10. PICK S : S = Seq(T)
  OBVIOUS
<1>11. link' \in [Sentinels -> [Sentinels -> S]]
  <2>1. ASSUME NEW u \in Sentinels PROVE link'[u] \in [Sentinels -> S]
    <3>1. CASE u = s
      <4>1. PICK g : g = [t \in Sentinels |->
                           IF t \in asks THEN Append(link[s][t], q) ELSE link[s][t]]
        BY Zenon
      <4>2. ASSUME NEW t \in Sentinels
            PROVE  (IF t \in asks THEN Append(link[s][t], q) ELSE link[s][t]) \in S
        BY Zenon, <1>7, <1>8, <1>10
      <4>3. g \in [Sentinels -> S]
        BY <4>1, <4>2
      <4> QED BY Zenon, <1>9, <3>1, <4>1, <4>3
    <3>2. CASE u # s
      BY Zenon, <1>1, <1>3, <1>7, <1>8, <1>9, <1>10, <3>2
    <3> QED BY Zenon, <3>1, <3>2
  <2> QED BY Zenon, <1>9, <2>1
<1> QED BY Zenon, <1>3, <1>10, <1>11 DEF LinksSound

\* The whole timer, but for the election: s takes a turn.
LEMMA TimerRest ==
  ASSUME Base, NEW s \in Sentinels, NEW x, Started(s, x), NEW v, Sound(v),
         v.fstate \in Stages \cup {"UPDATE_CONFIG"},
         v.known = x.known, v.peer = x.peer, \E w : Cast(x, v, w),
         NEW late, NEW y, NEW z,
         Asked(s, v, late, y, z),
         setup' = setup, LinksSound',
         st' = [st EXCEPT ![s] = z],
         Saves(s, y, z)
  PROVE  Turns
<1>1. /\ Sound(z) /\ z.fstate \in Stages
      /\ z.known = st[s].known /\ z.lepoch = v.lepoch
      /\ z.leader = v.leader \/ z.leader = Nobody
      /\ \A t \in Sentinels :
           /\ z.peer[t].lepoch = st[s].peer[t].lepoch
           /\ z.peer[t].leader = st[s].peer[t].leader \/ z.peer[t].leader = Nobody
  <2>1. /\ Sound(z) /\ z.fstate \in Stages
        /\ z.known = v.known /\ z.lepoch = v.lepoch
        /\ z.leader = v.leader \/ z.leader = Nobody
        /\ \A t \in Sentinels :
             /\ z.peer[t].lepoch = v.peer[t].lepoch
             /\ z.peer[t].leader = v.peer[t].leader \/ z.peer[t].leader = Nobody
    BY TimerRecord
  <2>2. v.known = st[s].known /\ v.peer = st[s].peer
    BY DEF Started
  <2> QED BY ZenonT(60), <2>1, <2>2
<1>10. PICK d : /\ disk' = [disk EXCEPT ![s] = d]
                /\ \/ d = File(z)
                   \/ d = disk[s] /\ z.lepoch = st[s].lepoch
  BY ZenonT(60) DEF Base, Saves
<1>11. /\ st[s].known \subseteq setup.group \ {s} /\ disk[s].known \subseteq setup.group \ {s}
       /\ disk[s].epoch \in Nat /\ disk[s].lepoch = st[s].lepoch
  BY Zenon DEF Base
<1>12. \/ d.epoch = z.epoch /\ d.lepoch = z.lepoch /\ d.known = z.known
       \/ d = disk[s] /\ z.lepoch = st[s].lepoch
  BY <1>10 DEF File
<1>13. z.epoch \in Nat
  BY ZenonT(60), <1>1 DEF Sound
<1>14. /\ d.epoch \in Nat /\ d.lepoch = z.lepoch /\ d.known \subseteq setup.group \ {s}
       /\ z.known \subseteq setup.group \ {s} /\ st[s].known \subseteq z.known
       /\ disk[s].known \subseteq d.known \/ st[s].known \subseteq d.known
  BY ZenonT(60), <1>1, <1>11, <1>12, <1>13
<1>15. \/ z.lepoch = st[s].lepoch /\ z.leader \in {st[s].leader, Nobody}
       \/ z.lepoch > st[s].lepoch
  <2>1. x.lepoch = st[s].lepoch /\ x.leader = st[s].leader
    BY Zenon DEF Started
  <2>2. \/ v.lepoch = x.lepoch /\ v.leader = x.leader
        \/ v.lepoch > x.lepoch
    BY Zenon DEF Cast
  <2> QED BY Zenon, <1>1, <2>1, <2>2
<1>16. \A t \in Sentinels :
         \/ z.peer[t].leader = Nobody
         \/ z.peer[t].leader = st[s].peer[t].leader /\ z.peer[t].lepoch = st[s].peer[t].lepoch
  BY Zenon, <1>1
<1> QED BY Zenon, <1>1, <1>10, <1>14, <1>15, <1>16, OneTurn

-----------------------------------------------------------------------------
(* Winning an election.                                                    *)

\* What counting votes takes: every set of Sentinels is finite, a vote more or
\* less counts for one, and two majorities meet.
Cards ==
  /\ \A S \in SUBSET Sentinels : Cardinality(S) \in Nat
  /\ \A S \in SUBSET Sentinels, t \in Sentinels :
       t \notin S => Cardinality(S \cup {t}) = Cardinality(S) + 1
  /\ \A S \in SUBSET Sentinels, t \in Sentinels :
       t \in S => Cardinality(S \ {t}) = Cardinality(S) - 1
  /\ \A U, S, T \in SUBSET Sentinels :
       S \subseteq U /\ T \subseteq U /\ Cardinality(S) + Cardinality(T) > Cardinality(U)
         => S \cap T # {}

\* Q voted for s in the election s counts (y is the state of s after its own
\* vote): a majority of the known Sentinels and the quorum.
Voters(s, x, y, Q) ==
  /\ Q \in SUBSET (x.known \cup {s}) /\ Cardinality(Q) \in Nat
  /\ Cardinality(Q) >= Quorum /\ 2 * Cardinality(Q) > Cardinality(x.known) + 1
  /\ \A t \in Q \ {s} : t \in VotesFor(x, s)
  /\ s \in Q => y.leader = s /\ y.lepoch = x.fepoch

\* sentinelGetLeader: the winner has the votes of Q, a majority of the known
\* Sentinels and the quorum; each of Q said so, but for s, which just voted.
LEMMA WinnerVotes ==
  ASSUME Cards, NEW s \in Sentinels, NEW x, Sound(x), x.known \subseteq Sentinels, s \notin x.known,
         NEW w, Winner(s, x, w) = s
  PROVE  \E Q : Voters(s, x, VoteLeader(s, x, x.fepoch, w), Q)
<1>0. Cardinality(x.known) \in Nat /\ s # Nobody /\ Quorum \in Nat
  BY Zenon, SentinelAssumption DEF Cards
<1>1. PICK y : y = VoteLeader(s, x, x.fepoch, w)
  BY Zenon
<1>2. y.known = x.known /\ y.peer = x.peer /\ y.epoch = x.epoch
  BY <1>1, VoteEffect DEF Sound
<1>3. \A c : VotesFor(y, c) = VotesFor(x, c)
  BY Zenon, <1>2 DEF VotesFor
<1>4. PICK S : S = VotesFor(x, s)
  BY Zenon
<1>5. S \subseteq x.known
  BY Zenon, <1>4 DEF VotesFor
<1>6. S \in SUBSET Sentinels /\ Cardinality(S) \in Nat /\ s \notin S
  BY Zenon, <1>5 DEF Cards
<1>7. PICK n \in Nat : n = Cardinality(x.known)
  BY Zenon, <1>0
<1>8. PICK h \in Nat : h = (n + 1) \div 2 + 1 /\ 2 * h > n + 1
  OBVIOUS
<1>9. PICK m \in Nat : m = Max({h, Quorum}) /\ m >= h /\ m >= Quorum
  BY Zenon, <1>0, MaxOfTwo
<1>10. PICK mine : mine = IF y.lepoch = x.fepoch THEN y.leader ELSE Nobody
  BY Zenon
<1>11. \/ mine = s /\ Cardinality(VotesFor(y, s)) + 1 >= m
       \/ Cardinality(VotesFor(y, s)) >= m
  <2> DEFINE Count(c) == Cardinality(VotesFor(y, c)) + (IF c = mine THEN 1 ELSE 0)
  <2>1. PICK best : best = IF mine # Nobody /\ Count(mine) > Cardinality(VotesFor(y, w))
                           THEN mine ELSE w
    BY Zenon
  <2>2. PICK total : total = IF best = mine THEN Count(mine) ELSE Cardinality(VotesFor(y, w))
    OBVIOUS
  <2>3. Winner(s, x, w) = IF total >= Max({(Cardinality(x.known) + 1) \div 2 + 1, Quorum})
                          THEN best ELSE Nobody
    BY <1>1, <1>10, <2>1, <2>2, Zenon DEF Winner
  <2>4. best = s /\ total >= m
    BY Zenon, <1>0, <1>7, <1>8, <1>9, <2>3
  <2>5. CASE mine = s
    BY Zenon, <2>2, <2>4, <2>5
  <2>6. CASE mine # s
    BY Zenon, <2>1, <2>2, <2>4, <2>6
  <2> QED BY Zenon, <2>5, <2>6
<1>12. Cardinality(VotesFor(y, s)) = Cardinality(S)
  BY Zenon, <1>3, <1>4
<1>13. CASE mine = s /\ Cardinality(S) + 1 >= m
  <2>1. PICK Q : Q = S \cup {s}
    BY Zenon
  <2>2. Cardinality(Q) = Cardinality(S) + 1
    BY Zenon, <1>6, <2>1 DEF Cards
  <2>3. Q \in SUBSET (x.known \cup {s}) /\ \A t \in Q \ {s} : t \in VotesFor(x, s)
    BY Zenon, <1>4, <1>5, <2>1
  <2>4. y.leader = s /\ y.lepoch = x.fepoch
    BY Zenon, <1>0, <1>10, <1>13
  <2>5. /\ Cardinality(Q) \in Nat /\ Cardinality(Q) >= Quorum
        /\ 2 * Cardinality(Q) > Cardinality(x.known) + 1
    BY <1>0, <1>6, <1>7, <1>8, <1>9, <1>13, <2>2
  <2> QED BY <1>1, <2>3, <2>4, <2>5 DEF Voters
<1>14. CASE Cardinality(S) >= m
  <2>1. S \in SUBSET (x.known \cup {s}) /\ \A t \in S \ {s} : t \in VotesFor(x, s)
    BY Zenon, <1>4, <1>5
  <2>2. Cardinality(S) >= Quorum /\ 2 * Cardinality(S) > Cardinality(x.known) + 1
    BY <1>0, <1>6, <1>7, <1>8, <1>9, <1>14
  <2> QED BY Zenon, <1>1, <1>6, <2>1, <2>2 DEF Voters
<1> QED BY Zenon, <1>11, <1>12, <1>13, <1>14

\* The votes s counted are on the ballot paper, its own included, and they are
\* those of a majority of the group.
LEMMA NewWinner ==
  ASSUME Cards, Base, Turns, NEW B, Ballot(B), MajorityQuorum \/ AllKnown,
         NEW s \in setup.group, s \in Sentinels, NEW x, Started(s, x),
         NEW o, NEW w, Elects(s, x, o, w), NEW a \in o.win,
         st'[s].lepoch = o.x.lepoch, st'[s].leader = o.x.leader
  PROVE  /\ a.epoch \in Nat
         /\ ~a.mixed =>
              \E Q \in SUBSET setup.group :
                /\ 2 * Cardinality(Q) > Cardinality(setup.group)
                /\ \A t \in Q : a.epoch <= st'[t].lepoch /\ Filled(B)[t][a.epoch] = a.who
<1>1. /\ a.who = s /\ a.epoch = x.fepoch /\ Winner(s, x, w) = s
      /\ ~a.mixed => VotesFor(x, s) = {} \/ x.epoch = x.fepoch
      /\ Kept(VoteLeader(s, x, x.fepoch, w), o.x)
  BY Zenon DEF Elects
<1>2. Sound(x) /\ x.known = st[s].known /\ x.peer = st[s].peer /\ x.fepoch \in Nat
  BY Zenon DEF Started, Sound
<1>3. /\ setup.group \subseteq Sentinels /\ Cardinality(setup.group) \in Nat
      /\ setup \in Setups
  BY Zenon, SentinelAssumption DEF Base, Cards
<1>4. x.known \subseteq setup.group /\ s \notin x.known /\ x.known \subseteq Sentinels
  BY Zenon, <1>2, <1>3 DEF Base
<1>5. PICK y : y = VoteLeader(s, x, x.fepoch, w)
  OBVIOUS
<1>6. PICK Q : Voters(s, x, y, Q)
  <2>1. \E R : Voters(s, x, VoteLeader(s, x, x.fepoch, w), R)
    BY Zenon, <1>1, <1>2, <1>4, WinnerVotes
  <2> QED BY Zenon, <1>5, <2>1
<1>7. Q \in SUBSET setup.group
  BY Zenon, <1>4, <1>6 DEF Voters
<1>8. 2 * Cardinality(Q) > Cardinality(setup.group)
  <2>1. CASE MajorityQuorum
    <3>1. 2 * Quorum > Cardinality(setup.group) /\ Quorum \in Nat
      BY Zenon, <1>3, <2>1, SentinelAssumption DEF MajorityQuorum
    <3> QED BY <1>3, <1>6, <3>1 DEF Voters
  <2>2. CASE AllKnown
    <3>1. x.known = setup.group \ {s}
      BY Zenon, <1>2, <2>2 DEF AllKnown
    <3>2. Cardinality(x.known) = Cardinality(setup.group) - 1
      BY Zenon, <1>3, <3>1 DEF Cards
    <3> QED BY <1>3, <1>6, <3>2 DEF Voters
  <2> QED BY Zenon, <2>1, <2>2
<1>9. ASSUME ~a.mixed, NEW t \in Q
      PROVE  a.epoch <= st'[t].lepoch /\ Filled(B)[t][a.epoch] = a.who
  <2>1. CASE t = s
    <3>1. y.leader = s /\ y.lepoch = x.fepoch
      BY Zenon, <1>6, <2>1, <1>9 DEF Voters
    <3>2. st'[s].leader = s /\ st'[s].lepoch = x.fepoch
      BY Zenon, <1>1, <1>5, <3>1 DEF Kept
    <3>3. s # Nobody
      BY Zenon, SentinelAssumption
    <3>4. Filled(B)[s][st'[s].lepoch] = st'[s].leader
      BY Zenon, <3>2, <3>3, BallotStep
    <3>5. a.epoch = st'[t].lepoch /\ a.epoch \in Nat /\ a.who = st'[t].leader
      BY Zenon, <1>1, <1>2, <2>1, <3>2
    <3>6. a.epoch <= st'[t].lepoch
      BY <3>5
    <3> QED BY Zenon, <2>1, <3>4, <3>5, <3>6
  <2>2. CASE t # s
    <3>1. t \in VotesFor(x, s)
      BY Zenon, <1>6, <1>9, <2>2 DEF Voters
    <3>2. x.epoch = x.fepoch
      BY Zenon, <1>1, <1>9, <3>1
    <3>3. x.peer[t].leader = s /\ x.peer[t].lepoch = x.fepoch /\ t \in x.known
      BY Zenon, <3>1, <3>2 DEF VotesFor
    <3>4. t \in Sentinels /\ s # Nobody
      BY Zenon, <1>4, <3>3, SentinelAssumption
    <3>5. st[s].peer[t].leader = s /\ st[s].peer[t].lepoch = x.fepoch
      BY Zenon, <1>2, <3>3
    <3>6. x.fepoch <= st[t].lepoch /\ B[t][x.fepoch] = s
      BY Zenon, <3>4, <3>5 DEF Ballot
    <3>7. x.fepoch <= st'[t].lepoch /\ Filled(B)[t][x.fepoch] = B[t][x.fepoch]
      BY <1>2, <3>4, <3>6, BallotStep
    <3> QED BY Zenon, <1>1, <3>6, <3>7
  <2> QED BY Zenon, <2>1, <2>2
<1> QED BY Zenon, <1>1, <1>2, <1>7, <1>8, <1>9

-----------------------------------------------------------------------------
(* Every step.                                                             *)

\* Every election won in this step is on the ballot paper.
NewWins(B) ==
  \A a \in won' \ won :
    /\ a.epoch \in Nat
    /\ ~a.mixed =>
         \E Q \in SUBSET setup.group :
           /\ 2 * Cardinality(Q) > Cardinality(setup.group)
           /\ \A t \in Q : a.epoch <= st'[t].lepoch /\ Filled(B)[t][a.epoch] = a.who

\* The timer (sentinelHandleRedisInstance) as a whole.
LEMMA TimerTurn ==
  ASSUME Cards, Base, NEW s \in setup.group, s \in Sentinels, Timer(s)
  PROVE  /\ Turns
         /\ MajorityQuorum \/ AllKnown => \A B : Ballot(B) => NewWins(B)
<1>a. PICK down \in BOOLEAN, late \in BOOLEAN :
       \E o \in FailoverStateMachine(s, StartIfNeeded(CheckDown(st[s], down))) :
         LET y == [o.x EXCEPT !.peer = Peers(s, o.x, late)]
             asks == {t \in y.known : y.sdown /\ y.fstate # None /\ Len(link[s][t]) < MaxPending
                                      /\ ~(y.peer[t].leader = s /\ y.peer[t].lepoch = y.epoch)}
             z == IF y.fstate = "UPDATE_CONFIG"
                  THEN ResetMasterAndChangeAddress(y, y.promoted) ELSE y
         IN /\ ~st[s].tilt /\ Suspect(s, down)
            /\ IF late \/ o.late THEN Trouble ELSE UNCHANGED trouble
            /\ st' = [st EXCEPT ![s] = z]
            /\ link' = [link EXCEPT ![s] = [t \in Sentinels |->
                          IF t \in asks THEN Append(@[t], Question(s, y)) ELSE @[t]]]
            /\ disk' = IF z.addr # y.addr \/ z.lepoch # st[s].lepoch
                       THEN [disk EXCEPT ![s] = File(z)] ELSE disk
            /\ cmds' = cmds \cup o.out
            /\ won' = won \cup o.win
            /\ UNCHANGED <<setup, redis, admin>>
  BY Zenon DEF Timer
<1>1. PICK o \in FailoverStateMachine(s, StartIfNeeded(CheckDown(st[s], down))) :
         LET y == [o.x EXCEPT !.peer = Peers(s, o.x, late)]
             asks == {t \in y.known : y.sdown /\ y.fstate # None /\ Len(link[s][t]) < MaxPending
                                      /\ ~(y.peer[t].leader = s /\ y.peer[t].lepoch = y.epoch)}
             z == IF y.fstate = "UPDATE_CONFIG"
                  THEN ResetMasterAndChangeAddress(y, y.promoted) ELSE y
         IN /\ ~st[s].tilt /\ Suspect(s, down)
            /\ IF late \/ o.late THEN Trouble ELSE UNCHANGED trouble
            /\ st' = [st EXCEPT ![s] = z]
            /\ link' = [link EXCEPT ![s] = [t \in Sentinels |->
                          IF t \in asks THEN Append(@[t], Question(s, y)) ELSE @[t]]]
            /\ disk' = IF z.addr # y.addr \/ z.lepoch # st[s].lepoch
                       THEN [disk EXCEPT ![s] = File(z)] ELSE disk
            /\ cmds' = cmds \cup o.out
            /\ won' = won \cup o.win
            /\ UNCHANGED <<setup, redis, admin>>
  BY Zenon, <1>a
<1> DEFINE v == o.x
           y == [v EXCEPT !.peer = Peers(s, v, late)]
           asks == {t \in y.known : y.sdown /\ y.fstate # None /\ Len(link[s][t]) < MaxPending
                                    /\ ~(y.peer[t].leader = s /\ y.peer[t].lepoch = y.epoch)}
           z == IF y.fstate = "UPDATE_CONFIG"
                THEN ResetMasterAndChangeAddress(y, y.promoted) ELSE y
<1>10. /\ st' = [st EXCEPT ![s] = z]
       /\ link' = [link EXCEPT ![s] = [t \in Sentinels |->
                     IF t \in asks THEN Append(@[t], Question(s, y)) ELSE @[t]]]
       /\ disk' = IF z.addr # y.addr \/ z.lepoch # st[s].lepoch
                  THEN [disk EXCEPT ![s] = File(z)] ELSE disk
       /\ won' = won \cup o.win
       /\ setup' = setup
  BY Zenon, <1>1
<1>5. v = o.x
  BY Zenon
<1>11. Asked(s, v, late, y, z)
  BY Zenon DEF Asked
<1> HIDE DEF v, y, asks, z
<1>2. PICK x : x = StartIfNeeded(CheckDown(st[s], down)) /\ o \in FailoverStateMachine(s, x)
  BY Zenon
<1>3. Started(s, x)
  BY Zenon, <1>2, TimerStart
<1>4. o \in FailoverStateMachine(s, x)
  BY Zenon, <1>2
<1>6. /\ Sound(v) /\ v.fstate \in Stages \cup {"UPDATE_CONFIG"}
      /\ v.known = x.known /\ v.peer = x.peer /\ \E w : Cast(x, v, w)
      /\ o.win = {} \/ \E w : Elects(s, x, o, w)
  <2>1. Sound(x) /\ x.fstate \in Stages
    BY <1>3 DEF Started
  <2> QED BY <1>4, <1>5, <2>1, MachineEffect
<1>12. Saves(s, y, z)
  BY Zenon, <1>10 DEF Saves
<1>13. /\ Sound(y) /\ z.lepoch = v.lepoch
       /\ v.fstate # "UPDATE_CONFIG" => z.leader = v.leader
  <2>1. Sound(v) /\ v.fstate \in Stages \cup {"UPDATE_CONFIG"}
    BY Zenon, <1>6
  <2> QED BY Zenon, <1>11, <2>1, TimerVote
<1>14. LinksSound'
  BY ZenonT(60), <1>10, <1>13, TimerAsks
<1>15. Turns
  BY ZenonT(60), <1>3, <1>6, <1>10, <1>11, <1>12, <1>14, TimerRest
<1>16. ASSUME MajorityQuorum \/ AllKnown, NEW B, Ballot(B)
       PROVE  NewWins(B)
  <2>1. CASE o.win = {}
    BY Zenon, <1>10, <2>1 DEF NewWins
  <2>2. ASSUME NEW w, Elects(s, x, o, w), NEW a \in o.win
        PROVE  /\ a.epoch \in Nat
               /\ ~a.mixed =>
                    \E Q \in SUBSET setup.group :
                      /\ 2 * Cardinality(Q) > Cardinality(setup.group)
                      /\ \A t \in Q : a.epoch <= st'[t].lepoch /\ Filled(B)[t][a.epoch] = a.who
    <3>1. o.x.fstate = "SELECT_SLAVE"
      BY Zenon, <2>2 DEF Elects
    <3>2. st'[s] = z
      BY Zenon, <1>10 DEF Base
    <3>3. st'[s].lepoch = o.x.lepoch /\ st'[s].leader = o.x.leader
      BY Zenon, <1>5, <1>13, <3>1, <3>2
    <3> QED BY ZenonT(60), <1>3, <1>15, <1>16, <2>2, <3>3, NewWinner
  <2>3. CASE \E w : Elects(s, x, o, w)
    <3>1. \A a \in won' \ won : a \in o.win
      BY <1>10
    <3> QED BY Zenon, <2>2, <2>3, <3>1 DEF NewWins
  <2> QED BY ZenonT(60), <1>6, <2>1, <2>3
<1> QED BY <1>15, <1>16

\* Every step is a turn.
LEMMA StepTurns ==
  ASSUME Cards, Base, [Next]_vars
  PROVE  /\ Turns
         /\ MajorityQuorum \/ AllKnown => \A B : Ballot(B) => NewWins(B)
<1>0. setup.group \subseteq Sentinels
  BY Zenon, SentinelAssumption DEF Base
<1>1. ASSUME NEW s \in setup.group, Timer(s)
      PROVE  /\ Turns
             /\ MajorityQuorum \/ AllKnown => \A B : Ballot(B) => NewWins(B)
  BY Zenon, <1>0, <1>1, TimerTurn
<1>2. ASSUME Turns, won' = won
      PROVE  /\ Turns
             /\ MajorityQuorum \/ AllKnown => \A B : Ballot(B) => NewWins(B)
  BY Zenon, <1>2 DEF NewWins
<1>3. ASSUME NEW s \in setup.group, NEW t \in setup.group,
             Answer(s, t) \/ Disconnect(s, t) \/ Hello(s, t)
      PROVE  Turns /\ won' = won
  <2>1. s \in Sentinels /\ t \in Sentinels
    BY Zenon, <1>0
  <2>2. CASE Answer(s, t)
    BY Zenon, <2>1, <2>2, AnswerTurn DEF Answer
  <2>3. CASE Disconnect(s, t)
    BY Zenon, <2>1, <2>3, OthersTurn DEF Disconnect
  <2>4. CASE Hello(s, t)
    BY Zenon, <2>1, <2>4, HelloTurn DEF Hello
  <2> QED BY Zenon, <1>3, <2>2, <2>3, <2>4
<1>4. ASSUME NEW s \in setup.group, NEW r,
             InfoMaster(s) \/ InfoPromoted(s, r) \/ InfoConvert(s, r) \/ InfoReplica(s, r)
      PROVE  Turns /\ won' = won
  <2>1. s \in Sentinels
    BY <1>0
  <2>2. CASE InfoMaster(s)
    BY Zenon, <2>1, <2>2, InfoTurn DEF InfoMaster
  <2>3. CASE InfoPromoted(s, r)
    BY Zenon, <2>1, <2>3, InfoTurn DEF InfoPromoted
  <2>4. CASE InfoConvert(s, r)
    BY Zenon, <2>1, <2>4, OthersTurn DEF InfoConvert
  <2>5. CASE InfoReplica(s, r)
    BY Zenon, <2>1, <2>5, InfoTurn DEF InfoReplica
  <2> QED BY Zenon, <1>4, <2>2, <2>3, <2>4, <2>5
<1>5. ASSUME NEW c, Execute(c)
      PROVE  Turns /\ won' = won
  BY Zenon, <1>5, OthersTurn DEF Execute
<1>6. ASSUME NEW r, Outage(r) \/ Return(r)
      PROVE  Turns /\ won' = won
  BY Zenon, <1>6, OthersTurn DEF Outage, Return
<1>7. ASSUME NEW s \in setup.group,
             Crash(s) \/ CoolDown(s) \/ ForceFailover(s) \/ Reset(s) \/ Tilt(s)
      PROVE  Turns /\ won' = won
  <2>1. s \in Sentinels
    BY <1>0
  <2>2. CASE Crash(s)
    BY Zenon, <2>1, <2>2, CrashTurn DEF Crash
  <2>3. CASE CoolDown(s)
    BY Zenon, <2>1, <2>3, InfoTurn DEF CoolDown
  <2>4. CASE ForceFailover(s)
    BY Zenon, <2>1, <2>4, ForceTurn DEF ForceFailover
  <2>5. CASE Reset(s)
    BY Zenon, <2>1, <2>5, ResetTurn DEF Reset
  <2>6. CASE Tilt(s)
    BY Zenon, <2>1, <2>6, InfoTurn DEF Tilt
  <2> QED BY Zenon, <1>7, <2>2, <2>3, <2>4, <2>5, <2>6
<1>8. ASSUME UNCHANGED vars
      PROVE  Turns /\ won' = won
  <2>1. setup' = setup /\ st' = st /\ disk' = disk /\ link' = link /\ won' = won
    BY <1>8 DEF vars
  <2>2. LinksSound'
    BY Zenon, <2>1 DEF Base, LinksSound
  <2> QED BY Zenon, <2>1, <2>2, NoTurn
<1> QED BY <1>1, <1>2, <1>3, <1>4, <1>5, <1>6, <1>7, <1>8, Zenon DEF Next

----------------------------------------------------------------------------
(* The results.                                                            *)

\* Every step keeps the invariant, as long as a winner needs a majority.
LEMMA InvStep ==
  ASSUME Cards, IInv, [Next]_vars, MajorityQuorum \/ AllKnown
  PROVE  IInv'
<1>1. Base /\ Turns /\ \A B : Ballot(B) => NewWins(B)
  BY Zenon, StepTurns DEF IInv
<1>2. PICK B : Ballot(B)
  BY Zenon DEF IInv
<1>3. NewWins(B)
  BY Zenon, <1>1, <1>2
<1>4. Base'
  BY Zenon, <1>1, BaseStep
<1>5. PICK C : C = Filled(B)
  BY ZenonT(60)
<1>6. /\ \A t \in Sentinels : st'[t].leader # Nobody => C[t][st'[t].lepoch] = st'[t].leader
      /\ \A s, t \in Sentinels :
           st'[s].peer[t].leader # Nobody =>
             /\ st'[s].peer[t].lepoch <= st'[t].lepoch
             /\ C[t][st'[s].peer[t].lepoch] = st'[s].peer[t].leader
      /\ \A t \in Sentinels, e \in Nat :
           e <= st[t].lepoch => e <= st'[t].lepoch /\ C[t][e] = B[t][e]
  BY <1>1, <1>2, <1>5, BallotStep
<1>7. setup' = setup /\ setup.group \subseteq Sentinels
  BY <1>1, SentinelAssumption DEF Turns, Base
<1>8. ASSUME NEW a \in won'
      PROVE  /\ a.epoch \in Nat
             /\ ~a.mixed =>
                  \E Q \in SUBSET setup.group :
                    /\ 2 * Cardinality(Q) > Cardinality(setup.group)
                    /\ \A t \in Q : a.epoch <= st'[t].lepoch /\ C[t][a.epoch] = a.who
  <2>1. CASE a \in won
    <3>1. Elected(B, a)
      BY <1>2, <2>1 DEF Ballot
    <3>2. a.epoch \in Nat
      BY <3>1 DEF Elected
    <3>3. ASSUME ~a.mixed
          PROVE  \E Q \in SUBSET setup.group :
                    /\ 2 * Cardinality(Q) > Cardinality(setup.group)
                    /\ \A t \in Q : a.epoch <= st'[t].lepoch /\ C[t][a.epoch] = a.who
      <4>1. PICK Q \in SUBSET setup.group :
               /\ 2 * Cardinality(Q) > Cardinality(setup.group)
               /\ \A t \in Q : a.epoch <= st[t].lepoch /\ B[t][a.epoch] = a.who
        BY <3>1, <3>3, Zenon DEF Elected
      <4>2. \A t \in Q : a.epoch <= st'[t].lepoch /\ C[t][a.epoch] = a.who
        BY <1>6, <1>7, <3>2, <4>1
      <4> QED BY <4>1, <4>2, Zenon
    <3> QED BY <3>2, <3>3, Zenon
  <2>2. CASE a \notin won
    BY <1>3, <1>5, <2>2, Zenon DEF NewWins
  <2> QED BY Zenon, <2>1, <2>2
<1>9. \A a \in won' : Elected(C, a)'
  BY <1>7, <1>8, Zenon DEF Elected
<1>10. Ballot(C)'
  BY Zenon, <1>6, <1>9 DEF Ballot
<1> QED BY Zenon, <1>4, <1>10 DEF IInv

\* Without SENTINEL RESET every Sentinel goes on knowing all the others.
LEMMA KnownStep ==
  ASSUME Cards, IInv, AllKnown, [Next /\ \A s \in setup.group : ~Reset(s)]_vars
  PROVE  AllKnown'
<1>0. setup' = setup /\ setup.group \subseteq Sentinels /\ \A u \in Sentinels : Turn(u)
  BY Zenon, StepTurns, SentinelAssumption DEF IInv, Turns, Base
<1>1. CASE UNCHANGED vars
  BY <1>1 DEF vars, AllKnown
<1>2. CASE \A s \in setup.group : ~Reset(s)
  <2>1. ASSUME NEW s \in setup.group
        PROVE  st'[s].known = setup.group \ {s} /\ disk'[s].known = setup.group \ {s}
    <3>1. /\ Grows(s) /\ st'[s].known \subseteq setup.group \ {s}
          /\ disk'[s].known \subseteq setup.group \ {s}
      BY Zenon, <1>0, <1>2 DEF Turn
    <3>2. st[s].known = setup.group \ {s} /\ disk[s].known = setup.group \ {s}
      BY Zenon DEF AllKnown
    <3> QED BY Zenon, <3>1, <3>2 DEF Grows
  <2> QED BY Zenon, <1>0, <2>1 DEF AllKnown
<1> QED BY Zenon, <1>1, <1>2

-----------------------------------------------------------------------------
(* The theorems.                                                           *)

\* The Sentinels start from one configuration file and have not voted.
LEMMA InitInv ==
  ASSUME Init
  PROVE  IInv /\ AllKnown
<1>0. setup \in Setups /\ won = {} /\ setup.group \subseteq Sentinels
  BY SentinelAssumption DEF Init
<1>1. disk = [s \in Sentinels |-> FirstFile(s)]
  BY DEF Init
<1>2. st = [s \in Sentinels |-> [Fresh(FirstFile(s)) EXCEPT !.tilt = s \in setup.tilted]]
  BY DEF Init
<1>3. st = [s \in Sentinels |-> st[s]] /\ disk = [s \in Sentinels |-> disk[s]]
  BY <1>1, <1>2, Zenon
<1>4. ASSUME NEW s \in Sentinels
      PROVE  /\ disk[s].epoch = 0 /\ disk[s].lepoch = 0 /\ disk[s].known = setup.group \ {s}
             /\ Sound(st[s]) /\ st[s].fstate \in Stages /\ st[s].lepoch = 0
             /\ st[s].known = setup.group \ {s} /\ st[s].leader = Nobody
             /\ st[s].peer = [t \in Sentinels |-> NoVote]
  <2>1. PICK d : d = FirstFile(s)
    OBVIOUS
  <2>2. disk[s] = d
    BY Zenon, <1>1, <2>1
  <2>3. d.epoch = 0 /\ d.lepoch = 0 /\ d.known = setup.group \ {s}
    BY Zenon, <2>1 DEF FirstFile
  <2>4. PICK x : x = Fresh(d)
    BY Zenon
  <2>5. PICK v : v = (s \in setup.tilted)
    OBVIOUS
  <2>6. st[s] = [x EXCEPT !.tilt = v]
    BY <1>2, <2>1, <2>4, <2>5, Zenon
  <2>7. IsState(x)
    BY Zenon, <2>4 DEF Fresh, IsState, Fields
  <2>8. /\ x.epoch = 0 /\ x.lepoch = 0 /\ x.fepoch = 0 /\ x.leader = Nobody /\ x.fstate = None
        /\ x.known = setup.group \ {s} /\ x.peer = [t \in Sentinels |-> NoVote]
    BY Zenon, <2>3, <2>4 DEF Fresh
  <2>9. IsPeers([t \in Sentinels |-> NoVote])
    BY Zenon DEF IsPeers, IsVote, NoVote
  <2>10. Sound(x)
    BY <2>7, <2>8, <2>9 DEF Sound
  <2>11. Kept(x, st[s])
    <3>1. Kept(x, [x EXCEPT !.tilt = v])
      BY Zenon, <2>10, Untouched
    <3> QED BY <2>6, <3>1
  <2>12. st[s].fstate = None
    BY <2>6, <2>7, <2>8 DEF IsState, Fields
  <2>13. Sound(st[s]) /\ st[s].lepoch = 0 /\ st[s].known = setup.group \ {s}
         /\ st[s].leader = Nobody /\ st[s].peer = [t \in Sentinels |-> NoVote]
    BY Zenon, <2>8, <2>11 DEF Kept
  <2>14. st[s].fstate \in Stages
    BY Zenon, <2>12 DEF Stages, None
  <2> QED BY Zenon, <2>2, <2>3, <2>13, <2>14
<1>5. LinksSound
  <2>1. link = [s \in Sentinels |-> [t \in Sentinels |-> <<>>]]
    BY DEF Init
  <2>2. PICK S : S = Seq([epoch : Nat, addr : {}, who : {}])
    OBVIOUS
  <2>3. <<>> \in S
    BY <2>2
  <2>4. link \in [Sentinels -> [Sentinels -> S]]
    BY Zenon, <2>1, <2>3
  <2> QED BY Zenon, <2>2, <2>4 DEF LinksSound
<1>6. Base
  BY <1>0, <1>3, <1>4, <1>5 DEF Base
<1>7. ASSUME NEW s \in Sentinels, NEW t \in Sentinels PROVE st[s].peer[t].leader = Nobody
  BY <1>4 DEF NoVote
<1>8. Ballot([t \in Sentinels |-> [e \in Nat |-> Nobody]])
  BY Zenon, <1>0, <1>4, <1>7 DEF Ballot
<1>9. AllKnown
  BY <1>0, <1>4 DEF AllKnown
<1> QED BY Zenon, <1>6, <1>8, <1>9 DEF IInv

\* Two majorities of a group have a member in common, and it voted once.
LEMMA OneLeader ==
  ASSUME Cards, IInv
  PROVE  RegularLeaderPerEpoch
<1>1. PICK B : Ballot(B)
  BY DEF IInv
<1>2. setup.group \in SUBSET Sentinels /\ Cardinality(setup.group) \in Nat
  BY SentinelAssumption DEF IInv, Base, Cards
<1>3. ASSUME NEW a \in Regular, NEW b \in Regular, a.epoch = b.epoch
      PROVE  a.who = b.who
  <2>1. Elected(B, a) /\ Elected(B, b) /\ ~a.mixed /\ ~b.mixed
    BY <1>1, Zenon DEF Ballot, Regular
  <2>2. PICK P \in SUBSET setup.group :
          /\ 2 * Cardinality(P) > Cardinality(setup.group)
          /\ \A t \in P : a.epoch <= st[t].lepoch /\ B[t][a.epoch] = a.who
    BY <2>1, Zenon DEF Elected
  <2>3. PICK Q \in SUBSET setup.group :
          /\ 2 * Cardinality(Q) > Cardinality(setup.group)
          /\ \A t \in Q : b.epoch <= st[t].lepoch /\ B[t][b.epoch] = b.who
    BY <2>1, Zenon DEF Elected
  <2>4. /\ P \in SUBSET Sentinels /\ Cardinality(P) \in Nat
        /\ Q \in SUBSET Sentinels /\ Cardinality(Q) \in Nat
    BY <1>2 DEF Cards
  <2>5. Cardinality(P) + Cardinality(Q) > Cardinality(setup.group)
    BY <1>2, <2>2, <2>3, <2>4
  <2>6. P \cap Q # {}
    BY <1>2, <2>4, <2>5 DEF Cards
  <2> QED BY <1>3, <2>2, <2>3, <2>6
<1> QED BY <1>3 DEF RegularLeaderPerEpoch

INSTANCE FiniteSetTheorems

\* There are finitely many Sentinels, so votes can be counted.
LEMMA Counting == Cards
<1>1. IsFiniteSet(Sentinels)
  BY SentinelAssumption
<1>2. ASSUME NEW S \in SUBSET Sentinels PROVE IsFiniteSet(S) /\ Cardinality(S) \in Nat
  BY <1>1, FS_Subset, FS_CardinalityType
<1>3. ASSUME NEW S \in SUBSET Sentinels, NEW t \in Sentinels, t \notin S
      PROVE  Cardinality(S \cup {t}) = Cardinality(S) + 1
  BY <1>2, <1>3, FS_AddElement
<1>4. ASSUME NEW S \in SUBSET Sentinels, NEW t \in Sentinels, t \in S
      PROVE  Cardinality(S \ {t}) = Cardinality(S) - 1
  BY ZenonT(60), <1>2, <1>4, FS_RemoveElement
<1>5. ASSUME NEW U \in SUBSET Sentinels, NEW S \in SUBSET Sentinels, NEW T \in SUBSET Sentinels,
             S \subseteq U, T \subseteq U, Cardinality(S) + Cardinality(T) > Cardinality(U)
      PROVE  S \cap T # {}
  BY Zenon, <1>2, <1>5, FS_MajoritiesIntersect
<1> QED BY <1>2, <1>3, <1>4, <1>5 DEF Cards

\* When the quorum is a majority of the group, no two Sentinels win a regular
\* election of the same epoch (sentinelGetLeader), whatever is lost, delayed,
\* repeated or restarted, and whatever administrators do.
THEOREM QuorumElectsOneLeader == MajorityQuorum => (Spec => []RegularLeaderPerEpoch)
<1> SUFFICES ASSUME MajorityQuorum PROVE Spec => []RegularLeaderPerEpoch
  BY Zenon
<1>1. Init => IInv
  BY Zenon, InitInv
<1>2. IInv /\ [Next]_vars => IInv'
  BY Zenon, Counting, InvStep
<1>3. IInv => RegularLeaderPerEpoch
  BY Zenon, Counting, OneLeader
<1> QED BY <1>1, <1>2, <1>3, PTL DEF Spec

\* Whatever the quorum, as long as nobody uses SENTINEL RESET: then the majority
\* of the known Sentinels, which sentinelGetLeader asks for as well, is one of
\* the group.
THEOREM MajorityElectsOneLeader ==
  Spec /\ [][\A s \in setup.group : ~Reset(s)]_vars => []RegularLeaderPerEpoch
<1>1. Init => IInv /\ AllKnown
  BY Zenon, InitInv
<1>2. IInv /\ AllKnown /\ [Next]_vars /\ [\A s \in setup.group : ~Reset(s)]_vars
        => (IInv /\ AllKnown)'
  <2> SUFFICES ASSUME IInv, AllKnown, [Next]_vars, [\A s \in setup.group : ~Reset(s)]_vars
               PROVE  IInv' /\ AllKnown'
    BY Zenon
  <2>1. [Next /\ \A s \in setup.group : ~Reset(s)]_vars
    OBVIOUS
  <2> QED BY Zenon, <2>1, Counting, InvStep, KnownStep
<1>3. IInv => RegularLeaderPerEpoch
  BY Zenon, Counting, OneLeader
<1> QED BY <1>1, <1>2, <1>3, PTL DEF Spec

\* The epoch of the last vote never goes back, in memory or in the file
\* (sentinelVoteLeader, sentinelFlushConfig, loading at the start).
THEOREM VotesAreKeptAlways == Spec => [][VotesAreKept]_vars
<1>1. Init => Base
  BY Zenon, InitInv DEF IInv
<1>2. Base /\ [Next]_vars => Base' /\ [VotesAreKept]_vars
  <2> SUFFICES ASSUME Base, [Next]_vars PROVE Base' /\ VotesAreKept
    BY Zenon
  <2>1. Turns
    BY Zenon, Counting, StepTurns
  <2>2. Base'
    BY Zenon, <2>1, BaseStep
  <2>3. ASSUME NEW s \in Sentinels
        PROVE  st[s].lepoch <= st'[s].lepoch /\ disk[s].lepoch <= disk'[s].lepoch
    <3>1. /\ disk[s].lepoch = st[s].lepoch /\ disk'[s].lepoch = st'[s].lepoch
          /\ Votes(s) /\ Sound(st[s]) /\ Sound(st'[s])
      BY Zenon, <2>1 DEF Turns, Turn, Base
    <3>2. st[s].lepoch \in Nat /\ st'[s].lepoch \in Nat
      BY Zenon, <3>1 DEF Sound
    <3>3. st[s].lepoch <= st'[s].lepoch
      BY <3>1, <3>2 DEF Votes
    <3> QED BY Zenon, <3>1, <3>3
  <2> QED BY Zenon, <2>2, <2>3 DEF VotesAreKept
<1> QED BY <1>1, <1>2, PTL DEF Spec
=============================================================================
