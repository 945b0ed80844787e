------------------------- MODULE PsyncTypes_proofs --------------------------
(***************************************************************************)
(* Replication IDs and offsets keep instances together, for any number of  *)
(* instances, writes, promotions, demotions, lost links and restarts: the  *)
(* inductive invariant, and what one step does to links, roles, offsets    *)
(* and places. PsyncPlaces_proofs, PsyncStreams_proofs and Psync_proofs go *)
(* on from here.                                                           *)
(*                                                                         *)
(* The idea of the proof: there is a history H that says, for every        *)
(* replication ID and every offset under it, which dataset that place      *)
(* stands for. Every instance, every RDB file, every backlog and every     *)
(* stream on its way to a replica agrees with H; only the master that drew *)
(* an ID extends its history, and always beyond every place anyone knows.  *)
(***************************************************************************)
EXTENDS Psync, TLAPS

USE SMTT(30), ZenonT(30)

\* The states of a replica's link, and the RDB files a master sends.
States == {"none", "connect", "psync", "transfer", "connected"}

RdbFile == [data : Seq(Nat), replid : Ids, offset : Nat, info : BOOLEAN]

\* The variables have their types, and the configuration does not change.
TypeInv == TypeOK /\ setup \in Setup

\* The head of what is on its way to n: a +CONTINUE, or a +FULLRESYNC.
Resumes(n) == chan[n] # <<>> /\ Head(chan[n]).t = "cont"

Reloads(n) == chan[n] # <<>> /\ Head(chan[n]).t = "full"

\* A stream of writes is on its way to n.  It continues the history StreamId(n)
\* after StreamOff(n), and takes n to End(n); Cmd(n, o) is the write at offset o.
Flowing(n) == repl_state[n] = "connected" \/ Resumes(n) \/ Reloads(n)

\* The items before the first write: the answer to the PSYNC while it is unread.
Skip(n) == IF repl_state[n] = "connected" THEN 0 ELSE 1

\* The history the stream belongs to.
StreamId(n) ==
    IF repl_state[n] = "connected" THEN replid[n]
    ELSE IF Resumes(n) THEN Head(chan[n]).replid ELSE Head(chan[n]).rdb.replid

\* The offset after which it starts.
StreamOff(n) ==
    IF repl_state[n] = "connected" \/ Resumes(n) THEN master_repl_offset[n]
    ELSE Head(chan[n]).rdb.offset

\* The offset at which it ends.
End(n) == StreamOff(n) + Len(chan[n]) - Skip(n)

\* The write at offset o.
Cmd(n, o) == chan[n][o - StreamOff(n) + Skip(n)].w

-----------------------------------------------------------------------------
(* Backlogs, types and messages.                                           *)

\* One more item at the end of a window, and the first one dropped or not.
LEMMA FeedItems ==
    ASSUME NEW old \in Seq(Nat), NEW w \in Nat
    PROVE  /\ Append(old, w) \in Seq(Nat) /\ Len(Append(old, w)) = Len(old) + 1
           /\ Tail(Append(old, w)) \in Seq(Nat) /\ Len(Tail(Append(old, w))) = Len(old)
           /\ \A i \in 1 .. Len(old) + 1 :
                  Append(old, w)[i] = IF i = Len(old) + 1 THEN w ELSE old[i]
           /\ \A i \in 1 .. Len(old) :
                  Tail(Append(old, w))[i] = IF i = Len(old) THEN w ELSE old[i + 1]
<1>1. /\ Append(old, w) \in Seq(Nat) /\ Len(Append(old, w)) = Len(old) + 1
      /\ \A i \in 1 .. Len(old) + 1 : Append(old, w)[i] = IF i = Len(old) + 1 THEN w ELSE old[i]
  OBVIOUS
<1>2. PICK its \in Seq(Nat) : its = Append(old, w)
  BY Zenon, <1>1
<1>3. its # <<>> /\ Len(its) = Len(old) + 1
  BY <1>1, <1>2
<1>4. /\ Tail(its) \in Seq(Nat) /\ Len(Tail(its)) = Len(old)
      /\ \A i \in 1 .. Len(old) : Tail(its)[i] = its[i + 1]
  BY <1>3
<1>5. ASSUME NEW i \in 1 .. Len(old)
      PROVE  Tail(its)[i] = IF i = Len(old) THEN w ELSE old[i + 1]
  BY <1>1, <1>2, <1>4, <1>5
<1> QED BY Zenon, <1>1, <1>2, <1>4, <1>5

\* A backlog that is fed one write holds the last of them, each at its offset.
Grown(k, old, w, j, its) ==
    /\ Feed([off |-> k, items |-> old], w) = [off |-> j, items |-> its]
    /\ j >= k /\ j + Len(its) = k + Len(old) + 1
    /\ \A o \in j .. k + Len(old) :
           its[o - j + 1] = IF o = k + Len(old) THEN w ELSE old[o - k + 1]

\* feedReplicationBacklog makes a backlog grow in this way.
LEMMA FeedBacklog ==
    ASSUME NEW k \in Nat, NEW old \in Seq(Nat), NEW w \in Nat
    PROVE  \E j \in Nat, its \in Seq(Nat) : Grown(k, old, w, j, its)
<1>1. PICK l \in Nat : l = Len(old)
  OBVIOUS
<1>2. \/ Feed([off |-> k, items |-> old], w) = [off |-> k + 1, items |-> Tail(Append(old, w))]
      \/ Feed([off |-> k, items |-> old], w) = [off |-> k, items |-> Append(old, w)]
  BY DEF Feed
<1>3. CASE Feed([off |-> k, items |-> old], w) = [off |-> k + 1, items |-> Tail(Append(old, w))]
  <2>1. PICK j \in Nat : j = k + 1
    OBVIOUS
  <2>2. PICK its \in Seq(Nat) : its = Tail(Append(old, w))
    BY Zenon, FeedItems
  <2>3. Len(its) = l /\ \A i \in 1 .. l : its[i] = IF i = l THEN w ELSE old[i + 1]
    BY <1>1, <2>2, FeedItems
  <2>4. j >= k /\ j + Len(its) = k + l + 1
    BY <2>1, <2>3
  <2>5. ASSUME NEW o \in j .. k + l
        PROVE  its[o - j + 1] = IF o = k + l THEN w ELSE old[o - k + 1]
    <3>1. PICK i \in 1 .. l : i = o - k
      BY <2>1, <2>5
    <3>2. o - j + 1 = i /\ o - k + 1 = i + 1 /\ (o = k + l) = (i = l)
      BY <2>1, <2>5, <3>1
    <3>3. its[i] = IF i = l THEN w ELSE old[i + 1]
      BY <2>3
    <3> QED BY <3>2, <3>3
  <2>6. Feed([off |-> k, items |-> old], w) = [off |-> j, items |-> its]
    BY <1>3, <2>1, <2>2
  <2> QED BY <1>1, <2>4, <2>5, <2>6 DEF Grown
<1>4. CASE Feed([off |-> k, items |-> old], w) = [off |-> k, items |-> Append(old, w)]
  <2>1. PICK its \in Seq(Nat) : its = Append(old, w)
    BY Zenon, FeedItems
  <2>2. Len(its) = l + 1 /\ \A i \in 1 .. l + 1 : its[i] = IF i = l + 1 THEN w ELSE old[i]
    BY <1>1, <2>1, FeedItems
  <2>3. k >= k /\ k + Len(its) = k + l + 1
    BY <2>2
  <2>4. ASSUME NEW o \in k .. k + l
        PROVE  its[o - k + 1] = IF o = k + l THEN w ELSE old[o - k + 1]
    <3>1. PICK i \in 1 .. l + 1 : i = o - k + 1
      BY <2>4
    <3>2. (o = k + l) = (i = l + 1)
      BY <2>4, <3>1
    <3>3. its[i] = IF i = l + 1 THEN w ELSE old[i]
      BY <2>2
    <3> QED BY <3>1, <3>2, <3>3
  <2> QED BY Zenon, <1>1, <1>4, <2>1, <2>3, <2>4 DEF Grown
<1> QED BY <1>2, <1>3, <1>4

\* The two fields of a backlog.
LEMMA BacklogFields ==
    ASSUME TypeInv, NEW n \in Nodes
    PROVE  \E k \in Nat, its \in Seq(Nat) :
               backlog[n] = [off |-> k, items |-> its] /\ backlog[n].off = k /\ backlog[n].items = its
<1>1. backlog[n] \in [off : Nat, items : Seq(Nat)]
  BY DEF TypeInv, TypeOK
<1>2. PICK k \in Nat : k = backlog[n].off
  BY <1>1
<1>3. PICK its \in Seq(Nat) : its = backlog[n].items
  BY <1>1
<1>4. backlog[n] = [off |-> backlog[n].off, items |-> backlog[n].items]
  BY <1>1, Zenon
<1> QED BY <1>2, <1>3, <1>4

\* The values the types are made of.
LEMMA Values ==
    /\ None \notin Nodes /\ NoId \in Ids
    /\ NoMaster \in [replid : Ids, reploff : Int]
    /\ NoReq \in [replid : Ids, offset : Int]
    /\ NoBacklog \in [off : Nat, items : Seq(Nat)]
    /\ \A o \in Nat : EmptyBacklog(o) \in [off : Nat, items : Seq(Nat)]
<1>1. None \notin Nodes /\ NoId \in Ids
  BY PsyncAssumption DEF NoId, Ids
<1>2. NoMaster \in [replid : Ids, reploff : Int] /\ NoReq \in [replid : Ids, offset : Int]
  BY <1>1 DEF NoMaster, NoReq
<1>3. <<>> \in Seq(Nat) /\ \A o \in Nat : o + 1 \in Nat
  OBVIOUS
<1>4. NoBacklog \in [off : Nat, items : Seq(Nat)]
  BY <1>3 DEF NoBacklog
<1>5. \A o \in Nat : EmptyBacklog(o) \in [off : Nat, items : Seq(Nat)]
  BY <1>3 DEF EmptyBacklog
<1> QED BY <1>1, <1>2, <1>4, <1>5

\* What a step leaves alone has its type.
LEMMA Types ==
    ASSUME TypeInv
    PROVE  /\ masterhost \in [Nodes -> Nodes \cup {None}] /\ repl_state \in [Nodes -> States]
           /\ replid \in [Nodes -> Ids] /\ replid2 \in [Nodes -> Ids]
           /\ second_replid_offset \in [Nodes -> Int]
           /\ master_repl_offset \in [Nodes -> Nat]
           /\ backlog \in [Nodes -> [off : Nat, items : Seq(Nat)]]
           /\ master \in [Nodes -> [replid : Ids, reploff : Int]]
           /\ data \in [Nodes -> Seq(Nat)]
           /\ disk \in [Nodes -> [data : Seq(Nat), replid : Ids, offset : Int, info : BOOLEAN]]
           /\ link \in [Nodes -> {"down", "open", "eof"}]
           /\ slave \in [Nodes -> {"none", "wait", "online"}]
           /\ chan \in [Nodes -> Seq(Messages)]
           /\ req \in [Nodes -> [replid : Ids, offset : Int]]
           /\ nextid \in [Nodes -> Nat] /\ nwrites \in Nat
           /\ nreconf \in Nat /\ nfaults \in Nat /\ nsaves \in Nat /\ ncrashes \in Nat
           /\ Members \subseteq Nodes
<1>1. Members \subseteq Nodes
  BY DEF TypeInv, Setup, Members
<1> QED BY Zenon, <1>1 DEF TypeInv, TypeOK, States

\* The numbers among them, for arithmetic.
LEMMA NumTypes ==
    ASSUME TypeInv
    PROVE  /\ master_repl_offset \in [Nodes -> Nat] /\ second_replid_offset \in [Nodes -> Int]
           /\ nextid \in [Nodes -> Nat] /\ nwrites \in Nat
           /\ nreconf \in Nat /\ nfaults \in Nat /\ nsaves \in Nat /\ ncrashes \in Nat
BY Types

\* What a message holds, by its kind.
LEMMA MessageFields ==
    ASSUME NEW m \in Messages
    PROVE  /\ m.t \in {"cmd", "cont", "err", "full"}
           /\ m.t = "cmd" => m.w \in Nat
           /\ m.t = "cont" => m.replid \in Ids
           /\ m.t = "full" => m.rdb \in RdbFile
<1>1. CASE m \in [t : {"cmd"}, w : Nat]
  BY <1>1
<1>2. CASE m \in [t : {"cont"}, replid : Ids]
  BY <1>2
<1>3. CASE m \in [t : {"err"}]
  BY <1>3
<1>4. CASE m \in [t : {"full"}, rdb : RdbFile]
  BY <1>4
<1> QED BY <1>1, <1>2, <1>3, <1>4, Zenon DEF Messages, RdbFile

\* The messages there are.
LEMMA MessageKinds ==
    /\ [t |-> "err"] \in Messages
    /\ \A w \in Nat : [t |-> "cmd", w |-> w] \in Messages
    /\ \A id \in Ids : [t |-> "cont", replid |-> id] \in Messages
    /\ \A r \in RdbFile : [t |-> "full", rdb |-> r] \in Messages
<1>1. [t |-> "err"] \in [t : {"err"}]
  OBVIOUS
<1>2. \A w \in Nat : [t |-> "cmd", w |-> w] \in [t : {"cmd"}, w : Nat]
  OBVIOUS
<1>3. \A id \in Ids : [t |-> "cont", replid |-> id] \in [t : {"cont"}, replid : Ids]
  OBVIOUS
<1>4. \A r \in RdbFile : [t |-> "full", rdb |-> r] \in [t : {"full"}, rdb : RdbFile]
  OBVIOUS
<1> QED BY <1>1, <1>2, <1>3, <1>4, Zenon DEF Messages, RdbFile

\* Reading the head of a sequence of messages.
LEMMA HeadTail ==
    ASSUME NEW c \in Seq(Messages), c # <<>>
    PROVE  /\ Head(c) = c[1] /\ Head(c) \in Messages /\ Tail(c) \in Seq(Messages)
           /\ Len(c) \in Nat /\ Len(c) >= 1 /\ Len(Tail(c)) = Len(c) - 1
           /\ \A i \in 1 .. Len(c) - 1 : Tail(c)[i] = c[i + 1]
OBVIOUS

-----------------------------------------------------------------------------
(* The inductive invariant, first what it says without the history.        *)

\* The states of the two ends of a link and what is on its way fit together.
LinkOk(n) ==
    /\ repl_state[n] = "none" <=> masterhost[n] = None
    /\ link[n] = "down" <=> repl_state[n] \in {"none", "connect"}
    /\ link[n] = "down" => chan[n] = <<>>
    /\ link[n] # "open" => slave[n] = "none" /\ req[n] = NoReq
    /\ req[n] # NoReq => repl_state[n] = "psync" /\ chan[n] = <<>> /\ slave[n] = "none"
    /\ slave[n] = "wait" => repl_state[n] = "psync" /\ chan[n] = <<>>
    /\ slave[n] # "none" => masterhost[n] # n

LinkInv == \A n \in Nodes : LinkOk(n)

\* What is on its way to n: one answer to its PSYNC, then only writes.
ChanOk(n) ==
    /\ repl_state[n] = "psync" => \/ chan[n] = <<>> \/ chan[n] = <<[t |-> "err"]>>
                                  \/ Resumes(n) /\ master[n] # NoMaster
                                  \/ Reloads(n)
    /\ repl_state[n] = "transfer" => Reloads(n)
    /\ \A i \in 1 .. Len(chan[n]) : i > 1 \/ repl_state[n] = "connected" => chan[n][i].t = "cmd"
    /\ Reloads(n) => Head(chan[n]).rdb.info

ChanInv == \A n \in Nodes : ChanOk(n)

\* Who has a cached master, and who has a backlog.
RoleOk(n) ==
    /\ masterhost[n] = None => master[n] = NoMaster
    /\ repl_state[n] = "connected" => HasBacklog(n) /\ master[n] # NoMaster
    /\ repl_state[n] = "transfer" => ~ HasBacklog(n) /\ master[n] = NoMaster
    /\ slave[n] # "none" => HasBacklog(masterhost[n])
    /\ req[n] # NoReq => req[n] = PsyncRequest(n)

RoleInv == \A n \in Nodes : RoleOk(n)

\* The offsets of an instance, of its backlog, its files and its replicas agree.
OffsetOk(n) ==
    /\ master[n] # NoMaster => /\ master[n].reploff = master_repl_offset[n]
                               /\ master[n].replid = replid[n]
    /\ HasBacklog(n) => backlog[n].off + Len(backlog[n].items) = master_repl_offset[n] + 1
    /\ disk[n].info => disk[n].offset \in Nat
    /\ second_replid_offset[n] <= master_repl_offset[n] + 1

OffsetInv == \A n \in Nodes : OffsetOk(n)

\* A replica that is fed ends where its master is.
OnlineOk(n) == slave[n] = "online" =>
    /\ Flowing(n) /\ StreamId(n) = replid[masterhost[n]]
    /\ End(n) = master_repl_offset[masterhost[n]]

OnlineInv == \A n \in Nodes : OnlineOk(n)

\* An ID is known only once it was drawn, and a master uses the last it drew.
Known(id) == id[1] \in Nodes /\ id[2] < nextid[id[1]]

\* All IDs an instance holds, has saved or is sent are known.
KnownOk(n) ==
    /\ Known(replid[n])
    /\ Known(replid2[n]) \/ replid2[n] = NoId
    /\ disk[n].info => Known(disk[n].replid)
    /\ Flowing(n) => Known(StreamId(n))
    /\ masterhost[n] = None => replid[n] = Id(n, nextid[n] - 1)

KnownInv == \A n \in Nodes : KnownOk(n)

\* n knows of no place of history id after o; or of none at all.
Behind(n, id, o) ==
    /\ replid[n] = id => master_repl_offset[n] <= o
    /\ replid2[n] = id => second_replid_offset[n] <= o + 1
    /\ disk[n].info /\ disk[n].replid = id => disk[n].offset <= o
    /\ Flowing(n) /\ StreamId(n) = id => End(n) <= o

\* n refers to no place of history id.
Foreign(n, id) ==
    /\ replid[n] # id /\ replid2[n] # id
    /\ disk[n].info => disk[n].replid # id
    /\ Flowing(n) => StreamId(n) # id

\* Only n refers to places of its history.
Private(n) == \A x \in Nodes \ {n} : Foreign(x, replid[n])

\* Nobody is ahead of a master in its own history; without a backlog, when its
\* offset does not follow its writes, nobody else knows that history.
AheadOk(m) == masterhost[m] = None =>
    /\ \A n \in Nodes : Behind(n, replid[m], master_repl_offset[m])
    /\ ~ HasBacklog(m) => /\ Private(m) /\ replid2[m] # replid[m]
                          /\ disk[m].info => disk[m].replid # replid[m]

AheadInv == \A m \in Nodes : AheadOk(m)

-----------------------------------------------------------------------------
(* The histories.                                                          *)

\* The histories: for every ID and offset, the dataset at that place.
Histories == [Ids -> [Nat -> Seq(Nat)]]

\* The offset of n stands for its dataset.
Placed(n) == HasBacklog(n) \/ master[n] # NoMaster

\* The history of replid2 is that of replid up to the second offset.
SameUpTo(H, n) ==
    \A o \in Nat : o < second_replid_offset[n] => H[replid2[n]][o] = H[replid[n]][o]

\* All that node n holds, and all that is on its way to it, agrees with H: its dataset
\* and its backlog, its file, and its stream.
PlaceAgrees(H, n) ==
    /\ Placed(n) => H[replid[n]][master_repl_offset[n]] = data[n]
    /\ HasBacklog(n) => \A o \in backlog[n].off .. master_repl_offset[n] :
           H[replid[n]][o] = Append(H[replid[n]][o - 1], backlog[n].items[o - backlog[n].off + 1])

\* So does the RDB file on its disk,
DiskAgrees(H, n) ==
    disk[n].info => H[disk[n].replid][disk[n].offset] = disk[n].data

\* and every write on its way, from the dataset it starts with.
StreamAgrees(H, n) ==
    /\ Resumes(n) => \A o \in 0 .. master_repl_offset[n] :
           H[StreamId(n)][o] = H[replid[n]][o]
    /\ Reloads(n) => H[StreamId(n)][StreamOff(n)] = Head(chan[n]).rdb.data
    /\ Flowing(n) => \A o \in StreamOff(n) + 1 .. End(n) :
           H[StreamId(n)][o] = Append(H[StreamId(n)][o - 1], Cmd(n, o))

\* The second ID may be wrong only while nobody can make use of it.
SecondInv(H, n) ==
    ~ SameUpTo(H, n) => ~ HasBacklog(n) /\ Private(n) /\ ~ Resumes(n)

\* All of these.
Agrees(H, n) ==
    PlaceAgrees(H, n) /\ DiskAgrees(H, n) /\ StreamAgrees(H, n) /\ SecondInv(H, n)

\* There are histories with which all instances agree.
HistoryInv == \E H \in Histories : \A n \in Nodes : Agrees(H, n)

\* What the invariant says without the histories.
Base == /\ TypeInv /\ LinkInv /\ ChanInv /\ RoleInv /\ OffsetInv /\ OnlineInv
        /\ KnownInv /\ AheadInv

\* The inductive invariant.
IInv == Base /\ HistoryInv

-----------------------------------------------------------------------------
(* The steps, and how each changes the two ends of a link.                 *)

\* What addReplyReplicationBacklog sends.
LEMMA ContinuationType ==
    ASSUME Base, NEW m \in Nodes, NEW offset \in Int,
           HasBacklog(m), offset >= backlog[m].off,
           offset <= backlog[m].off + Len(backlog[m].items)
    PROVE  /\ Continuation(m, offset) \in Seq(Messages)
           /\ Len(Continuation(m, offset)) = master_repl_offset[m] + 1 - offset
           /\ \A i \in 1 .. master_repl_offset[m] + 1 - offset :
                  Continuation(m, offset)[i] =
                      [t |-> "cmd", w |-> backlog[m].items[offset - backlog[m].off + i]]
<1>1. PICK k \in Nat, its \in Seq(Nat) :
          backlog[m] = [off |-> k, items |-> its] /\ backlog[m].off = k /\ backlog[m].items = its
  BY Zenon, BacklogFields DEF Base
<1>2. PICK l \in Nat : l = Len(its)
  OBVIOUS
<1>3. PICK e \in Nat : e = master_repl_offset[m]
  BY Types DEF Base
<1>4. k + l = e + 1 /\ k <= offset /\ offset <= k + l
  BY <1>1, <1>2, <1>3 DEF Base, OffsetInv, OffsetOk
<1>5. PICK s \in Nat : s = offset - k
  BY <1>4
<1>6. PICK j \in Nat : j = l - s
  BY <1>4, <1>5
<1>7. j = e + 1 - offset
  BY <1>4, <1>5, <1>6
<1>8. Continuation(m, offset) = [i \in 1 .. j |-> [t |-> "cmd", w |-> its[s + i]]]
  BY <1>1, <1>2, <1>5, <1>6 DEF Continuation
<1>9. ASSUME NEW i \in 1 .. j PROVE [t |-> "cmd", w |-> its[s + i]] \in Messages
  <2>1. s + i \in 1 .. l
    BY <1>6
  <2>2. its[s + i] \in Nat
    BY <1>2, <2>1
  <2> QED BY <2>2, MessageKinds
<1>10. PICK c : c = [i \in 1 .. j |-> [t |-> "cmd", w |-> its[s + i]]]
  BY Zenon
<1>11. c \in Seq(Messages) /\ Len(c) = j
  <2>1. c \in [1 .. j -> Messages]
    BY Zenon, <1>9, <1>10
  <2> QED BY <2>1
<1>12. \A i \in 1 .. j : c[i] = [t |-> "cmd", w |-> its[s + i]]
  BY <1>10
<1> QED BY <1>1, <1>3, <1>5, <1>7, <1>8, <1>10, <1>11, <1>12

\* The snapshot of an instance is an RDB file.
LEMMA SnapshotType ==
    ASSUME TypeInv, NEW n \in Nodes
    PROVE  Snapshot(n) \in RdbFile
<1>1. data[n] \in Seq(Nat) /\ replid[n] \in Ids /\ master_repl_offset[n] \in Nat
  BY Types
<1>2. SavesInfo(n) \in BOOLEAN
  BY Zenon DEF SavesInfo
<1> QED BY <1>1, <1>2 DEF Snapshot, RdbFile

\* A step of instance n, or of its master's end of the link.
Step(n) ==
    \/ Connect(n) \/ SyncCommand(n) \/ StartBgsave(n)
    \/ ContinueReply(n) \/ FullResyncReply(n) \/ ErrorReply(n)
    \/ LoadRdb(n) \/ LoadRdbFails(n) \/ Apply(n)
    \/ Write(n) \/ LinkLost(n) \/ DropSlave(n) \/ BacklogExpire(n) \/ ResizeBacklog(n)
    \/ (\E h \in Nodes \ {n} : SetMaster(n, h)) \/ UnsetMaster(n) \/ SaveRdb(n)
    \/ (\E h \in (Nodes \ {n}) \cup {None} : CrashRestart(n, h))

\* The shapes of the variables, for steps that do not look into the values.
Requests == [replid : Ids, offset : Int]

\* Backlogs,
Windows == [off : Nat, items : Seq(Nat)]

\* cached masters,
Clients == [replid : Ids, reploff : Int]

\* and files.
Files == [data : Seq(Nat), replid : Ids, offset : Int, info : BOOLEAN]

\* The types once more, with these names.
LEMMA Shapes ==
    ASSUME TypeInv
    PROVE  /\ masterhost \in [Nodes -> Nodes \cup {None}] /\ repl_state \in [Nodes -> States]
           /\ replid \in [Nodes -> Ids] /\ replid2 \in [Nodes -> Ids]
           /\ second_replid_offset \in [Nodes -> Int]
           /\ master_repl_offset \in [Nodes -> Nat]
           /\ backlog \in [Nodes -> Windows] /\ master \in [Nodes -> Clients]
           /\ data \in [Nodes -> Seq(Nat)] /\ disk \in [Nodes -> Files]
           /\ link \in [Nodes -> {"down", "open", "eof"}]
           /\ slave \in [Nodes -> {"none", "wait", "online"}]
           /\ chan \in [Nodes -> Seq(Messages)] /\ req \in [Nodes -> Requests]
           /\ nextid \in [Nodes -> Nat]
           /\ None \notin Nodes
BY Zenon, Types, Values DEF Requests, Windows, Clients, Files

\* The links stay consistent.
LEMMA LinkStep ==
    ASSUME Base, NEW n \in Nodes, Step(n)
    PROVE  LinkInv'
<1> USE DEF Base
<1>1. CASE Connect(n)
  BY <1>1, Shapes DEF Connect, LinkInv, LinkOk, idVars
<1>2. CASE SyncCommand(n)
  <2>0. /\ repl_state[n] = "psync" /\ chan[n] = <<>> /\ link[n] = "open" /\ masterhost[n] # None
        /\ slave[n] = "none"
    BY <1>2 DEF SyncCommand, LinkInv, LinkOk
  <2>1. /\ req' = [req EXCEPT ![n] = NoReq]
        /\ UNCHANGED <<masterhost, repl_state, link>>
    BY Zenon, <1>2 DEF SyncCommand
  <2>2. \/ slave' = slave
        \/ slave' = [slave EXCEPT ![n] = "online"] /\ masterhost[n] # n
        \/ slave' = [slave EXCEPT ![n] = "wait"] /\ masterhost[n] # n /\ chan' = chan
    BY Zenon, <1>2, <2>0 DEF SyncCommand, SyncRefused, SyncPartial, SyncFull
  <2>3. \A x \in Nodes \ {n} : chan'[x] = chan[x]
    BY <1>2, Shapes DEF SyncCommand, SyncRefused, SyncPartial, SyncFull
  <2> SUFFICES ASSUME NEW x \in Nodes PROVE LinkOk(x)'
    BY DEF LinkInv
  <2>9. LinkOk(x) /\ LinkOk(n)
    BY DEF LinkInv
  <2> QED BY ZenonT(60), <2>9, <2>0, <2>1, <2>2, <2>3, Shapes DEF LinkOk
<1>3. CASE StartBgsave(n)
  <2> DEFINE W == {x \in Slaves(n) : slave[x] = "wait"}
  <2>1. \/ /\ slave' = [x \in Nodes |-> IF x \in W THEN "online" ELSE slave[x]]
           /\ \A x \in Nodes \ W : chan'[x] = chan[x]
           /\ UNCHANGED <<link, req>>
        \/ CloseLinks({}, W) /\ UNCHANGED chan
    BY <1>3 DEF StartBgsave
  <2>2. UNCHANGED <<masterhost, repl_state>>
    BY <1>3 DEF StartBgsave
  <2>3. \A x \in W : x \in Nodes /\ slave[x] = "wait"
    BY DEF Slaves
  <2> HIDE DEF W
  <2> SUFFICES ASSUME NEW x \in Nodes PROVE LinkOk(x)'
    BY DEF LinkInv
  <2>9. LinkOk(x) /\ LinkOk(n)
    BY DEF LinkInv
  <2> QED BY Zenon, <2>9, <2>1, <2>2, <2>3, Shapes DEF LinkOk, CloseLinks
<1>4. CASE ContinueReply(n)
  BY ZenonT(60), <1>4, Shapes DEF ContinueReply, LinkInv, LinkOk, Slaves, CloseLinks
<1>5. CASE FullResyncReply(n)
  <2>1. /\ repl_state[n] = "psync" /\ chan[n] # <<>> /\ masterhost' = masterhost
        /\ \/ /\ repl_state' = [repl_state EXCEPT ![n] = "transfer"]
              /\ CloseLinks({}, Slaves(n)) /\ chan' = chan
           \/ /\ repl_state' = [repl_state EXCEPT ![n] = "connect"]
              /\ CloseLinks({n}, Slaves(n)) /\ chan' = Unread({n})
    BY Zenon, <1>5 DEF FullResyncReply, LeftBehind
  <2>2. \A x \in Slaves(n) : x \in Nodes /\ slave[x] # "none" /\ x # n
    BY DEF Slaves, LinkInv, LinkOk
  <2> SUFFICES ASSUME NEW x \in Nodes PROVE LinkOk(x)'
    BY DEF LinkInv
  <2>9. LinkOk(x) /\ LinkOk(n)
    BY DEF LinkInv
  <2>3. CASE x = n
    BY ZenonT(60), <2>9, <2>1, <2>2, <2>3, Shapes DEF LinkOk, CloseLinks, Unread
  <2>4. CASE x # n
    BY ZenonT(60), <2>9, <2>1, <2>2, <2>4, Shapes DEF LinkOk, CloseLinks, Unread
  <2> QED BY <2>3, <2>4
<1>6. CASE ErrorReply(n)
  BY <1>6, Shapes DEF ErrorReply, LinkInv, LinkOk, CloseLinks, Unread
<1>7. CASE LoadRdb(n)
  BY ZenonT(60), <1>7, Shapes DEF LoadRdb, LinkInv, LinkOk
<1>8. CASE LoadRdbFails(n)
  BY <1>8, Shapes DEF LoadRdbFails, LinkInv, LinkOk, CloseLinks, Unread
<1>9. CASE Apply(n)
  BY ZenonT(60), <1>9, Shapes DEF Apply, LinkInv, LinkOk, ToSlaves
<1>10. CASE Write(n)
  BY Zenon, <1>10, Shapes DEF Write, LinkInv, LinkOk, ToSlaves
<1>11. CASE LinkLost(n)
  BY ZenonT(60), <1>11, Shapes DEF LinkLost, LinkInv, LinkOk, CloseLinks, Unread
<1>12. CASE DropSlave(n)
  BY Zenon, <1>12, Shapes DEF DropSlave, LinkInv, LinkOk, CloseLinks
<1>13. CASE BacklogExpire(n) \/ ResizeBacklog(n) \/ SaveRdb(n)
  BY <1>13, Shapes DEF BacklogExpire, ResizeBacklog, SaveRdb, LinkInv, LinkOk, linkVars
<1>14. ASSUME NEW h \in Nodes \ {n}, SetMaster(n, h) PROVE LinkInv'
  BY ZenonT(60), <1>14, Shapes DEF SetMaster, LinkInv, LinkOk, Slaves, CloseLinks, Unread
<1>15. CASE UnsetMaster(n)
  BY ZenonT(60), <1>15, Shapes DEF UnsetMaster, LinkInv, LinkOk, Slaves, CloseLinks, Unread
<1>16. ASSUME NEW h \in (Nodes \ {n}) \cup {None}, CrashRestart(n, h) PROVE LinkInv'
  BY ZenonT(60), <1>16, Shapes DEF CrashRestart, LinkInv, LinkOk, CloseLinks, Unread
<1> QED BY Zenon, <1>1, <1>2, <1>3, <1>4, <1>5, <1>6, <1>7, <1>8, <1>9, <1>10, <1>11, <1>12, <1>13,
           <1>14, <1>15, <1>16 DEF Step

-----------------------------------------------------------------------------
(* Writes are fed to the replicas and to the backlog.                      *)

\* Who is fed by n.
Fed(n) == {x \in Nodes : masterhost[x] = n /\ slave[x] = "online"}

\* A replica that is fed has a stream, and is not its own master.
LEMMA FedFlowing ==
    ASSUME Base, NEW n \in Nodes, NEW x \in Fed(n)
    PROVE  x \in Nodes /\ masterhost[x] = n /\ slave[x] = "online" /\ Flowing(x) /\ x # n
BY DEF Base, OnlineInv, OnlineOk, LinkInv, LinkOk, Fed

\* A write of a master, and one that a replica passes on, in the same form.
Feeds(n, w) ==
    /\ Write(n) => w = nwrites + 1
    /\ Apply(n) => w = Head(chan[n]).w /\ Head(chan[n]).t = "cmd"
    /\ data' = [data EXCEPT ![n] = Append(@, w)]
    /\ FeedStream(n, w)
    /\ \A x \in Fed(n) : chan'[x] = Append(chan[x], [t |-> "cmd", w |-> w])
    /\ \A x \in Nodes \ Fed(n) : x # n => chan'[x] = chan[x]
    /\ chan'[n] = IF Write(n) THEN chan[n] ELSE Tail(chan[n])
    /\ UNCHANGED <<masterhost, repl_state, idVars, disk, link, slave, req>>

\* A master's write and a write that a replica applies are fed in the same way.
LEMMA Feeding ==
    ASSUME Base, NEW n \in Nodes, Write(n) \/ Apply(n)
    PROVE  \E w \in Nat : Feeds(n, w)
<1>1. CASE Write(n)
  <2>1. PICK w \in Nat : w = nwrites + 1
    BY NumTypes DEF Base
  <2>2. chan' = ToSlaves(n, w, chan)
    BY <1>1, <2>1 DEF Write
  <2>3. \A x \in Nodes : (x \in Slaves(n) /\ slave[x] = "online") <=> x \in Fed(n)
    BY DEF Slaves, Fed
  <2>4. n \notin Fed(n)
    BY Zenon, FedFlowing
  <2>5. /\ \A x \in Fed(n) : chan'[x] = Append(chan[x], [t |-> "cmd", w |-> w])
        /\ \A x \in Nodes \ Fed(n) : chan'[x] = chan[x]
    BY Zenon, <2>2, <2>3 DEF ToSlaves, Fed
  <2>6. ~ Apply(n)
    BY <1>1 DEF Base, Write, Apply, LinkInv, LinkOk
  <2> QED BY Zenon, <1>1, <2>1, <2>4, <2>5, <2>6 DEF Write, Feeds
<1>2. CASE Apply(n)
  <2>0. chan[n] # <<>> /\ chan[n] \in Seq(Messages) /\ repl_state[n] = "connected" /\ chan \in [Nodes -> Seq(Messages)]
    BY <1>2, Shapes DEF Base, Apply
  <2>1. Head(chan[n]) = chan[n][1] /\ 1 \in 1 .. Len(chan[n]) /\ Head(chan[n]) \in Messages
    BY <2>0, HeadTail
  <2>2. Head(chan[n]).t = "cmd"
    BY Zenon, <2>0, <2>1 DEF Base, ChanInv, ChanOk
  <2>3. PICK w \in Nat : w = Head(chan[n]).w
    BY <2>1, <2>2, MessageFields
  <2>4. PICK ch : ch = [chan EXCEPT ![n] = Tail(@)]
    BY Zenon
  <2>5. chan' = ToSlaves(n, w, ch)
    BY Zenon, <1>2, <2>3, <2>4 DEF Apply
  <2>6. \A x \in Nodes : (x \in Slaves(n) /\ slave[x] = "online") <=> x \in Fed(n)
    BY DEF Slaves, Fed
  <2>7. n \notin Fed(n)
    BY FedFlowing
  <2>8. /\ \A x \in Fed(n) : chan'[x] = Append(ch[x], [t |-> "cmd", w |-> w])
        /\ \A x \in Nodes \ Fed(n) : chan'[x] = ch[x]
    BY <2>5, <2>6 DEF ToSlaves, Fed
  <2>9. ch[n] = Tail(chan[n]) /\ \A x \in Nodes : x # n => ch[x] = chan[x]
    BY <2>0, <2>4
  <2>10. /\ \A x \in Fed(n) : chan'[x] = Append(chan[x], [t |-> "cmd", w |-> w])
         /\ \A x \in Nodes \ Fed(n) : x # n => chan'[x] = chan[x]
         /\ chan'[n] = Tail(chan[n])
    BY Zenon, <2>7, <2>8, <2>9 DEF Fed
  <2>11. ~ Write(n)
    BY <1>2 DEF Base, Write, Apply, LinkInv, LinkOk
  <2> QED BY Zenon, <1>2, <2>2, <2>3, <2>10, <2>11 DEF Apply, Feeds
<1> QED BY <1>1, <1>2

\* What a write does to the backlog and the offset of the instance it is fed to.
BacklogFed(n, w) ==
    /\ \A x \in Nodes : x # n => /\ backlog'[x] = backlog[x] /\ HasBacklog(x)' = HasBacklog(x)
                                 /\ master_repl_offset'[x] = master_repl_offset[x]
    /\ HasBacklog(n)' = HasBacklog(n)
    /\ ~ HasBacklog(n) => /\ backlog'[n] = backlog[n]
                          /\ master_repl_offset'[n] = master_repl_offset[n]
    /\ HasBacklog(n) =>
         /\ master_repl_offset'[n] = master_repl_offset[n] + 1
         /\ backlog'[n].off >= backlog[n].off
         /\ backlog'[n].off + Len(backlog'[n].items) = backlog[n].off + Len(backlog[n].items) + 1
         /\ \A o \in backlog'[n].off .. backlog[n].off + Len(backlog[n].items) :
                backlog'[n].items[o - backlog'[n].off + 1] =
                    IF o = backlog[n].off + Len(backlog[n].items) THEN w
                    ELSE backlog[n].items[o - backlog[n].off + 1]

\* replicationFeedSlaves does that to them.
LEMMA BacklogIsFed ==
    ASSUME TypeInv, NEW n \in Nodes, NEW w \in Nat, FeedStream(n, w)
    PROVE  BacklogFed(n, w)
<1>0. /\ backlog \in [Nodes -> Windows] /\ master_repl_offset \in [Nodes -> Nat]
  BY Zenon, Shapes
<1>1. CASE HasBacklog(n)
  <2>1. PICK k \in Nat, old \in Seq(Nat) :
            backlog[n] = [off |-> k, items |-> old] /\ backlog[n].off = k /\ backlog[n].items = old
    BY Zenon, BacklogFields
  <2>2. PICK j \in Nat, its \in Seq(Nat) : Grown(k, old, w, j, its)
    BY Zenon, FeedBacklog
  <2>3. backlog' = [backlog EXCEPT ![n] = [off |-> j, items |-> its]]
    BY Zenon, <1>1, <2>1, <2>2 DEF FeedStream, Grown
  <2>4. master_repl_offset' = [master_repl_offset EXCEPT ![n] = @ + 1]
    BY <1>1 DEF FeedStream
  <2>5. backlog'[n].off = j /\ backlog'[n].items = its
        /\ \A x \in Nodes : x # n => backlog'[x] = backlog[x]
    BY Zenon, <1>0, <2>3
  <2>6. k # 0 /\ j # 0
    BY <1>1, <2>1, <2>2 DEF HasBacklog, Grown
  <2>7. HasBacklog(n) /\ HasBacklog(n)'
    BY Zenon, <1>1, <2>5, <2>6 DEF HasBacklog
  <2>8. \A x \in Nodes : x # n => HasBacklog(x)' = HasBacklog(x)
    BY <2>5 DEF HasBacklog
  <2>9. /\ master_repl_offset'[n] = master_repl_offset[n] + 1
        /\ \A x \in Nodes : x # n => master_repl_offset'[x] = master_repl_offset[x]
    BY Zenon, <1>0, <2>4
  <2> QED BY <2>1, <2>2, <2>5, <2>7, <2>8, <2>9 DEF BacklogFed, Grown
<1>2. CASE ~ HasBacklog(n)
  <2>1. backlog' = backlog /\ master_repl_offset' = master_repl_offset
    BY <1>2 DEF FeedStream
  <2> QED BY <1>2, <2>1 DEF BacklogFed, HasBacklog
<1> QED BY <1>1, <1>2

\* A backlog that was just made is one.
LEMMA FreshBacklog ==
    ASSUME NEW o \in Nat
    PROVE  /\ EmptyBacklog(o).off = o + 1 /\ EmptyBacklog(o).off # 0
           /\ EmptyBacklog(o).items = <<>> /\ Len(EmptyBacklog(o).items) = 0
           /\ NoBacklog.off = 0
BY DEF EmptyBacklog, NoBacklog

-----------------------------------------------------------------------------
(* Roles and offsets.                                                      *)

\* What the roles allow stays true of an instance the step leaves alone.
LEMMA RoleSame ==
    ASSUME Base, NEW x \in Nodes,
           masterhost'[x] = masterhost[x], repl_state'[x] = repl_state[x],
           master'[x] = master[x], HasBacklog(x)' = HasBacklog(x),
           req'[x] \in {req[x], NoReq},
           slave'[x] # "none" => HasBacklog(masterhost[x])'
    PROVE  RoleOk(x)'
<1>1. RoleOk(x)
  BY DEF Base, RoleInv
<1>3. PsyncRequest(x)' = PsyncRequest(x)
  BY DEF PsyncRequest
<1> QED BY <1>1, <1>3 DEF RoleOk

\* Roles, backlogs and cached masters stay consistent.
LEMMA RoleStep ==
    ASSUME Base, NEW n \in Nodes, Step(n)
    PROVE  RoleInv'
<1> SUFFICES ASSUME NEW x \in Nodes PROVE RoleOk(x)'
  BY DEF RoleInv
<1>0. /\ LinkOk(x) /\ LinkOk(n) /\ RoleOk(x) /\ RoleOk(n) /\ n \in Nodes
      /\ repl_state \in [Nodes -> States] /\ masterhost \in [Nodes -> Nodes \cup {None}]
      /\ master \in [Nodes -> Clients] /\ backlog \in [Nodes -> Windows] /\ None \notin Nodes
      /\ slave \in [Nodes -> {"none", "wait", "online"}] /\ req \in [Nodes -> Requests]
      /\ \A o \in Nat : EmptyBacklog(o).off # 0
      /\ NoBacklog.off = 0
  BY Zenon, Shapes, FreshBacklog DEF Base, LinkInv, RoleInv
<1>1. CASE Connect(n)
  <2>1. CASE x = n
    <3>1. /\ req'[x] = PsyncRequest(x) /\ repl_state'[x] = "psync" /\ slave'[x] = "none"
          /\ UNCHANGED <<masterhost, master, backlog>>
      BY Zenon, <1>0, <1>1, <2>1 DEF Connect, LinkOk
    <3>2. PsyncRequest(x)' = PsyncRequest(x)
      BY Zenon, <3>1 DEF PsyncRequest
    <3> QED BY Zenon, <1>0, <3>1, <3>2 DEF RoleOk
  <2>2. CASE x # n
    BY Zenon, <1>0, <1>1, <2>2, RoleSame DEF Connect, RoleOk, HasBacklog
  <2> QED BY <2>1, <2>2
<1>2. CASE SyncCommand(n)
  <2>0. PICK m \in Nodes : m = masterhost[n]
    BY <1>2, Shapes DEF Base, SyncCommand, LinkInv, LinkOk
  <2>1. /\ UNCHANGED <<masterhost, repl_state, master>>
        /\ req'[x] \in {req[x], NoReq}
    BY <1>0, <1>2 DEF SyncCommand
  <2>2. \/ backlog' = backlog /\ (HasBacklog(m) \/ slave' = slave)
        \/ backlog' = [backlog EXCEPT ![m] = EmptyBacklog(master_repl_offset[m])]
           /\ masterhost[m] = None
    <3>1. CASE SyncRefused(n, m)
      BY Zenon, <3>1 DEF SyncRefused
    <3>2. CASE SyncPartial(n, m)
      BY Zenon, <3>2 DEF SyncPartial, InBacklog
    <3>3. CASE SyncFull(n, m)
      <4>1. CASE NeedsBacklog(m)
        <5>1. masterhost[m] = None \/ repl_state[m] = "connected"
          BY <3>3 DEF SyncFull
        <5>2. ~ HasBacklog(m)
          BY Zenon, <4>1 DEF NeedsBacklog
        <5>3. masterhost[m] = None
          BY Zenon, <5>1, <5>2 DEF Base, RoleInv, RoleOk
        <5> QED BY Zenon, <3>3, <4>1, <5>3 DEF SyncFull
      <4>2. CASE ~ NeedsBacklog(m)
        <5>1. HasBacklog(m) \/ Slaves(m) # {}
          BY Zenon, <4>2 DEF NeedsBacklog
        <5>2. HasBacklog(m)
          BY <5>1 DEF Slaves, Base, RoleInv, RoleOk
        <5> QED BY <3>3, <4>2, <5>2 DEF SyncFull
      <4> QED BY Zenon, <4>1, <4>2
    <3> QED BY Zenon, <1>2, <2>0, <3>1, <3>2, <3>3 DEF SyncCommand
  <2>3. slave'[x] # "none" => slave[x] # "none" \/ (masterhost[x] = m /\ slave' # slave)
    BY Zenon, <1>0, <1>2, <2>0 DEF SyncCommand, SyncRefused, SyncPartial, SyncFull
  <2>4. CASE backlog' = backlog
    <3>0. m \in Nodes /\ EmptyBacklog(master_repl_offset[m]).off # 0
      BY Zenon, <1>0, NumTypes DEF Base
    <3>1. slave'[x] # "none" => HasBacklog(masterhost[x])
      <4>1. backlog' = [backlog EXCEPT ![m] = EmptyBacklog(master_repl_offset[m])] => HasBacklog(m)
        BY Zenon, <1>0, <2>4, <3>0 DEF HasBacklog
      <4>2. slave' # slave => HasBacklog(m)
        BY <2>2, <4>1
      <4> QED BY Zenon, <1>0, <2>3, <4>2 DEF RoleOk
    <3>2. slave'[x] # "none" => HasBacklog(masterhost[x])'
      BY Zenon, <2>1, <2>4, <3>1 DEF HasBacklog
    <3>3. HasBacklog(x)' = HasBacklog(x)
      BY <2>4 DEF HasBacklog
    <3> QED BY Zenon, <2>1, <3>2, <3>3, RoleSame
  <2>5. CASE backlog' = [backlog EXCEPT ![m] = EmptyBacklog(master_repl_offset[m])]
             /\ masterhost[m] = None
    <3>0. EmptyBacklog(master_repl_offset[m]).off # 0
      BY <1>0, NumTypes DEF Base
    <3>1. \A y \in Nodes : HasBacklog(y) \/ y = m => HasBacklog(y)'
      BY <1>0, <2>5, <3>0 DEF HasBacklog
    <3>2. slave'[x] # "none" => HasBacklog(masterhost[x])'
      BY Zenon, <1>0, <2>1, <2>3, <3>1 DEF RoleOk, LinkOk, HasBacklog
    <3>3. CASE x = m
      <4>1. repl_state[x] = "none"
        BY <1>0, <2>5, <3>3 DEF LinkOk
      <4>2. req[x] = NoReq /\ master[x] = NoMaster
        BY Zenon, <1>0, <2>5, <3>3, <4>1 DEF LinkOk, RoleOk
      <4> QED BY Zenon, <1>0, <2>1, <2>5, <3>2, <3>3, <4>1, <4>2 DEF RoleOk
    <3>4. CASE x # m
      <4>1. HasBacklog(x)' = HasBacklog(x)
        BY <1>0, <2>5, <3>4 DEF HasBacklog
      <4> QED BY <2>1, <3>2, <4>1, RoleSame
    <3> QED BY <3>3, <3>4
  <2> QED BY Zenon, <2>2, <2>4, <2>5
<1>3. CASE StartBgsave(n) \/ DropSlave(n) \/ SaveRdb(n)
  <2>1. /\ UNCHANGED <<masterhost, repl_state, master, backlog>> /\ req'[x] \in {req[x], NoReq}
        /\ slave'[x] # "none" => slave[x] # "none"
    BY Zenon, <1>0, <1>3 DEF StartBgsave, DropSlave, SaveRdb, linkVars, CloseLinks, Slaves
  <2>2. /\ HasBacklog(masterhost[x])' = HasBacklog(masterhost[x])
        /\ HasBacklog(x)' = HasBacklog(x)
    BY Zenon, <2>1 DEF HasBacklog
  <2> QED BY Zenon, <1>0, <2>1, <2>2, RoleSame DEF RoleOk
<1>4. CASE ContinueReply(n)
  <2>1. /\ masterhost' = masterhost /\ req'[x] \in {req[x], NoReq}
        /\ slave'[x] # "none" => slave[x] # "none"
        /\ x # n => repl_state'[x] = repl_state[x] /\ master'[x] = master[x]
        /\ repl_state'[n] = "connected" /\ req[n] = NoReq
    BY <1>0, <1>4 DEF ContinueReply, CloseLinks, Slaves, LinkOk
  <2>2. EmptyBacklog(master_repl_offset[n]).off # 0
    BY Zenon, <1>0, NumTypes DEF Base
  <2>3. HasBacklog(n)' /\ \A y \in Nodes : y # n => HasBacklog(y)' = HasBacklog(y)
    BY <1>0, <1>4, <2>2 DEF ContinueReply, BacklogToResume, HasBacklog
  <2>4. slave'[x] # "none" => HasBacklog(masterhost[x])'
    BY Zenon, <1>0, <2>1, <2>3 DEF RoleOk, LinkOk, HasBacklog
  <2>5. master'[n] # NoMaster
    <3>1. master[n] # NoMaster
      BY <1>4 DEF Base, ChanInv, ChanOk, ContinueReply, Reloads
    <3>2. master[n].reploff = master_repl_offset[n] /\ master[n] \in [replid : Ids, reploff : Int]
      BY Zenon, <3>1, Types DEF Base, OffsetInv, OffsetOk
    <3>3. master'[n].reploff = master[n].reploff
      BY <1>0, <1>4, <3>2 DEF ContinueReply
    <3>4. master_repl_offset[n] # -1
      BY NumTypes DEF Base
    <3>5. NoMaster.reploff = -1
      BY DEF NoMaster
    <3> QED BY Zenon, <3>2, <3>3, <3>4, <3>5
  <2>6. CASE x = n
    <3>1. masterhost[n] # None /\ req'[n] = NoReq
      BY Zenon, <1>0, <1>4, <2>1, <2>6 DEF ContinueReply, LinkOk
    <3> QED BY Zenon, <1>0, <2>1, <2>3, <2>4, <2>5, <2>6, <3>1 DEF RoleOk
  <2>7. CASE x # n
    BY Zenon, <2>1, <2>3, <2>4, <2>7, RoleSame
  <2> QED BY <2>6, <2>7
<1>5. CASE FullResyncReply(n)
  <2>1. /\ masterhost' = masterhost /\ req'[x] \in {req[x], NoReq}
        /\ slave'[x] # "none" => slave[x] # "none" /\ masterhost[x] # n
        /\ x # n => repl_state'[x] = repl_state[x] /\ master'[x] = master[x]
        /\ repl_state'[n] \in {"transfer", "connect"} /\ req[n] = NoReq /\ master'[n] = NoMaster
        /\ masterhost[n] # None
    BY ZenonT(60), <1>0, <1>5 DEF FullResyncReply, CloseLinks, Slaves, LinkOk, LeftBehind
  <2>2. ~ HasBacklog(n)' /\ \A y \in Nodes : y # n => HasBacklog(y)' = HasBacklog(y)
    BY Zenon, <1>0, <1>5 DEF FullResyncReply, HasBacklog
  <2>3. slave'[x] # "none" => HasBacklog(masterhost[x])'
    BY Zenon, <1>0, <2>1, <2>2 DEF RoleOk, LinkOk, HasBacklog
  <2>4. CASE x = n
    <3>1. req'[n] = NoReq
      BY <2>1, <2>4
    <3> QED BY Zenon, <1>0, <2>1, <2>2, <2>3, <2>4, <3>1 DEF RoleOk
  <2>5. CASE x # n
    BY Zenon, <2>1, <2>2, <2>3, <2>5, RoleSame
  <2> QED BY <2>4, <2>5
<1>6. CASE ErrorReply(n) \/ LoadRdbFails(n) \/ LinkLost(n)
  <2>1. /\ UNCHANGED <<masterhost, backlog>> /\ req'[x] \in {req[x], NoReq} /\ req'[n] = NoReq
        /\ slave'[x] # "none" => slave[x] # "none"
        /\ x # n => repl_state'[x] = repl_state[x] /\ master'[x] = master[x]
        /\ repl_state'[n] = "connect" /\ masterhost[n] # None
    BY ZenonT(60), <1>0, <1>6 DEF ErrorReply, LoadRdbFails, LinkLost, CloseLinks, LinkOk
  <2>2. /\ HasBacklog(masterhost[x])' = HasBacklog(masterhost[x])
        /\ HasBacklog(x)' = HasBacklog(x)
    BY Zenon, <2>1 DEF HasBacklog
  <2>3. CASE x = n
    BY Zenon, <1>0, <2>1, <2>2, <2>3 DEF RoleOk
  <2>4. CASE x # n
    BY Zenon, <1>0, <2>1, <2>2, <2>4, RoleSame DEF RoleOk
  <2> QED BY <2>3, <2>4
<1>7. CASE LoadRdb(n)
  <2>1. /\ UNCHANGED <<masterhost, req, slave>> /\ req[n] = NoReq /\ masterhost[n] # None
        /\ x # n => repl_state'[x] = repl_state[x] /\ master'[x] = master[x]
        /\ repl_state'[n] = "connected"
    BY Zenon, <1>0, <1>7 DEF LoadRdb, LinkOk
  <2>2. PICK o \in Nat : o = Head(chan[n]).rdb.offset
    <3>1. Head(chan[n]) \in Messages /\ Head(chan[n]).t = "full"
      BY Zenon, <1>7, HeadTail, Shapes DEF Base, LoadRdb, ChanInv, ChanOk, Reloads
    <3>2. Head(chan[n]).rdb \in RdbFile
      BY <3>1, MessageFields
    <3> QED BY <3>2 DEF RdbFile
  <2>3. EmptyBacklog(o).off # 0
    BY <1>0
  <2>4. HasBacklog(n)' /\ \A y \in Nodes : y # n => HasBacklog(y)' = HasBacklog(y)
    BY Zenon, <1>0, <1>7, <2>2, <2>3 DEF LoadRdb, HasBacklog
  <2>5. slave'[x] # "none" => HasBacklog(masterhost[x])'
    BY Zenon, <1>0, <2>1, <2>4 DEF RoleOk, LinkOk, HasBacklog
  <2>6. master'[n] # NoMaster
    <3>1. master'[n].reploff = o
      BY Zenon, <1>0, <1>7, <2>2 DEF LoadRdb
    <3>2. NoMaster.reploff = -1 /\ o # -1
      BY DEF NoMaster
    <3> QED BY <3>1, <3>2
  <2>7. CASE x = n
    BY Zenon, <1>0, <2>1, <2>4, <2>5, <2>6, <2>7 DEF RoleOk
  <2>8. CASE x # n
    BY Zenon, <2>1, <2>4, <2>5, <2>8, RoleSame
  <2> QED BY <2>7, <2>8
<1>8. CASE Write(n) \/ Apply(n)
  <2>0. PICK w \in Nat : Feeds(n, w)
    BY Zenon, <1>8, Feeding
  <2>1. BacklogFed(n, w)
    BY Zenon, <2>0, BacklogIsFed DEF Feeds, Base
  <2>2. /\ UNCHANGED <<masterhost, repl_state, req, slave>>
        /\ x # n \/ Write(n) => master'[x] = master[x]
    BY Zenon, <1>0, <1>8, <2>0 DEF Feeds, Write, Apply
  <2>3. \A y \in Nodes : HasBacklog(y)' = HasBacklog(y)
    BY <2>1 DEF BacklogFed
  <2>4. slave'[x] # "none" => HasBacklog(masterhost[x])'
    BY Zenon, <1>0, <2>2, <2>3 DEF RoleOk, LinkOk, HasBacklog
  <2>5. CASE x # n \/ Write(n)
    BY Zenon, <2>2, <2>3, <2>4, <2>5, RoleSame
  <2>6. CASE x = n /\ Apply(n)
    <3>1. repl_state[n] = "connected" /\ req[n] = NoReq /\ HasBacklog(n) /\ masterhost[n] # None
          /\ master[n] # NoMaster
      BY Zenon, <1>0, <2>6 DEF Apply, LinkOk, RoleOk
    <3>2. master[n].reploff = master_repl_offset[n] /\ master[n] \in [replid : Ids, reploff : Int]
      BY <3>1, Types DEF Base, OffsetInv, OffsetOk
    <3>3. master'[n].reploff = master[n].reploff + 1
      BY <1>0, <2>6, <3>2 DEF Apply
    <3>4. master_repl_offset[n] + 1 # -1
      BY NumTypes DEF Base
    <3>5. NoMaster.reploff = -1
      BY Zenon DEF NoMaster
    <3>6. master'[n] # NoMaster
      BY Zenon, <3>2, <3>3, <3>4, <3>5
    <3> QED BY Zenon, <1>0, <2>2, <2>3, <2>4, <2>6, <3>1, <3>6 DEF RoleOk
  <2> QED BY <1>8, <2>5, <2>6
<1>9. CASE BacklogExpire(n)
  <2>1. /\ UNCHANGED <<masterhost, repl_state, req, slave, master>>
        /\ masterhost[n] = None /\ Slaves(n) = {}
    BY Zenon, <1>9 DEF BacklogExpire, linkVars
  <2>2. ~ HasBacklog(n)' /\ \A y \in Nodes : y # n => HasBacklog(y)' = HasBacklog(y)
    BY <1>0, <1>9 DEF BacklogExpire, HasBacklog
  <2>3. slave[x] # "none" => masterhost[x] # n
    BY <2>1 DEF Slaves
  <2>4. slave'[x] # "none" => HasBacklog(masterhost[x])'
    BY Zenon, <1>0, <2>1, <2>2, <2>3 DEF RoleOk, LinkOk, HasBacklog
  <2>5. CASE x = n
    <3>1. repl_state[n] = "none" /\ req[n] = NoReq
      BY Zenon, <1>0, <2>1 DEF LinkOk
    <3> QED BY <1>0, <2>1, <2>2, <2>4, <2>5, <3>1 DEF RoleOk
  <2>6. CASE x # n
    BY Zenon, <2>1, <2>2, <2>4, <2>6, RoleSame
  <2> QED BY <2>5, <2>6
<1>10. CASE ResizeBacklog(n)
  <2>1. UNCHANGED <<masterhost, repl_state, req, slave, master>> /\ HasBacklog(n)
    BY Zenon, <1>10 DEF ResizeBacklog, linkVars
  <2>2. EmptyBacklog(master_repl_offset[n]).off # 0
    BY <1>0, NumTypes DEF Base
  <2>3. HasBacklog(n)' /\ \A y \in Nodes : y # n => HasBacklog(y)' = HasBacklog(y)
    BY <1>0, <1>10, <2>2 DEF ResizeBacklog, HasBacklog
  <2>4. slave'[x] # "none" => HasBacklog(masterhost[x])'
    BY Zenon, <1>0, <2>1, <2>3 DEF RoleOk, LinkOk, HasBacklog
  <2>5. (HasBacklog(x)' => HasBacklog(x)) /\ (HasBacklog(x) => HasBacklog(x)')
    BY Zenon, <2>1, <2>3
  <2>6. PsyncRequest(x)' = PsyncRequest(x)
    BY Zenon, <2>1 DEF PsyncRequest
  <2> QED BY Zenon, <1>0, <2>1, <2>4, <2>5, <2>6 DEF RoleOk
<1>11. CASE (\E h \in Nodes \ {n} : SetMaster(n, h)) \/ UnsetMaster(n)
  <2>1. /\ backlog' = backlog /\ req'[x] \in {req[x], NoReq} /\ req'[n] = NoReq
        /\ slave'[x] # "none" => slave[x] # "none" /\ masterhost'[x] = masterhost[x]
        /\ x # n => repl_state'[x] = repl_state[x] /\ master'[x] = master[x]
                    /\ masterhost'[x] = masterhost[x]
        /\ repl_state'[n] \in {"none", "connect"} /\ slave'[n] = "none"
        /\ masterhost'[n] = None => master'[n] = NoMaster
    BY <1>0, <1>11 DEF SetMaster, UnsetMaster, CloseLinks, Slaves
  <2>2. HasBacklog(x)' = HasBacklog(x) /\ (slave'[x] # "none" => HasBacklog(masterhost[x])')
    BY Zenon, <1>0, <2>1 DEF HasBacklog, RoleOk
  <2>3. CASE x = n
    BY Zenon, <1>0, <2>1, <2>2, <2>3 DEF RoleOk
  <2>4. CASE x # n
    BY Zenon, <1>0, <2>1, <2>2, <2>4, RoleSame
  <2> QED BY <2>3, <2>4
<1>12. ASSUME NEW h \in (Nodes \ {n}) \cup {None}, CrashRestart(n, h) PROVE RoleOk(x)'
  <2>1. /\ req'[x] \in {req[x], NoReq} /\ req'[n] = NoReq
        /\ slave'[x] # "none" => slave[x] # "none" /\ masterhost[x] # n
        /\ x # n => repl_state'[x] = repl_state[x] /\ master'[x] = master[x]
                    /\ masterhost'[x] = masterhost[x]
        /\ repl_state'[n] \in {"none", "connect"} /\ slave'[n] = "none"
        /\ masterhost'[n] = None => master'[n] = NoMaster
    BY Zenon, <1>0, <1>12 DEF CrashRestart, CloseLinks, LinkOk, RestoresId
  <2>2. ~ HasBacklog(n)' /\ \A y \in Nodes : y # n => HasBacklog(y)' = HasBacklog(y)
    BY Zenon, <1>0, <1>12 DEF CrashRestart, HasBacklog
  <2>3. slave'[x] # "none" => HasBacklog(masterhost[x])'
    <3>1. slave'[x] # "none" => /\ masterhost'[x] = masterhost[x] /\ masterhost[x] \in Nodes \ {n}
                                /\ HasBacklog(masterhost[x])
      BY Zenon, <1>0, <2>1 DEF RoleOk, LinkOk
    <3>2. slave'[x] # "none" => backlog'[masterhost[x]].off # 0
      BY Zenon, <2>2, <3>1 DEF HasBacklog
    <3> QED BY <3>1, <3>2 DEF HasBacklog
  <2>4. CASE x = n
    BY Zenon, <1>0, <2>1, <2>2, <2>3, <2>4 DEF RoleOk
  <2>5. CASE x # n
    BY Zenon, <1>0, <2>1, <2>2, <2>3, <2>5, RoleSame
  <2> QED BY <2>4, <2>5
<1> QED BY Zenon, <1>1, <1>2, <1>3, <1>4, <1>5, <1>6, <1>7, <1>8, <1>9, <1>10, <1>11, <1>12 DEF Step

\* A master makes its first backlog: it has no master of its own, and a new ID.
LEMMA FirstBacklog ==
    ASSUME Base, NEW n \in Nodes, NEW m \in Nodes, SyncFull(n, m), NeedsBacklog(m)
    PROVE  /\ masterhost[m] = None /\ ~ HasBacklog(m) /\ NewId(m, NoId, -1)
           /\ backlog' = [backlog EXCEPT ![m] = EmptyBacklog(master_repl_offset[m])]
<1>1. ~ HasBacklog(m) /\ (masterhost[m] = None \/ repl_state[m] = "connected")
  BY Zenon DEF SyncFull, NeedsBacklog
<1>2. masterhost[m] = None
  BY Zenon, <1>1 DEF Base, RoleInv, RoleOk
<1> QED BY Zenon, <1>1, <1>2 DEF SyncFull

\* The instance a replica replicates.
LEMMA SyncMaster ==
    ASSUME Base, NEW n \in Nodes, SyncCommand(n)
    PROVE  \E m \in Nodes :
             /\ m = masterhost[n] /\ (m # n \/ SyncRefused(n, m))
             /\ \/ SyncRefused(n, m) \/ SyncPartial(n, m)
                \/ SyncFull(n, m) /\ NeedsBacklog(m)
                \/ SyncFull(n, m) /\ HasBacklog(m) /\ ~ NeedsBacklog(m)
<1>1. /\ repl_state[n] = "psync" /\ masterhost[n] # None /\ masterhost[n] \in Nodes
  BY Shapes DEF SyncCommand, Base, LinkInv, LinkOk
<1>2. PICK m \in Nodes : m = masterhost[n]
  BY <1>1
<1>3. SyncRefused(n, m) \/ SyncPartial(n, m) \/ SyncFull(n, m)
  BY Zenon, <1>2 DEF SyncCommand
<1>4. ASSUME ~ NeedsBacklog(m) PROVE HasBacklog(m)
  <2>1. HasBacklog(m) \/ Slaves(m) # {}
    BY <1>4 DEF NeedsBacklog
  <2> QED BY <2>1 DEF Slaves, Base, RoleInv, RoleOk
<1>5. m # n \/ SyncRefused(n, m)
  BY Zenon, <1>1, <1>2, <1>3 DEF SyncPartial, SyncFull
<1> QED BY Zenon, <1>2, <1>3, <1>4, <1>5

\* A new ID (changeReplicationId, shiftReplicationId) of m.
LEMMA NewIdOwn ==
    ASSUME TypeInv, NEW m \in Nodes, NEW id2, NEW offset2, NewId(m, id2, offset2)
    PROVE  /\ replid'[m] = Id(m, nextid[m]) /\ replid2'[m] = id2
           /\ second_replid_offset'[m] = offset2 /\ nextid'[m] = nextid[m] + 1
BY Zenon, Shapes DEF NewId

\* It leaves the IDs of the others alone.
LEMMA NewIdOther ==
    ASSUME TypeInv, NEW m \in Nodes, NEW id2, NEW offset2, NewId(m, id2, offset2),
           NEW x \in Nodes, x # m
    PROVE  /\ replid'[x] = replid[x] /\ replid2'[x] = replid2[x]
           /\ second_replid_offset'[x] = second_replid_offset[x] /\ nextid'[x] = nextid[x]
BY Zenon, Shapes DEF NewId

\* What a new ID changes.
LEMMA NewIdEffect ==
    ASSUME TypeInv, NEW m \in Nodes, NEW id2, NEW offset2, NewId(m, id2, offset2)
    PROVE  /\ replid'[m] = Id(m, nextid[m]) /\ replid2'[m] = id2
           /\ second_replid_offset'[m] = offset2 /\ nextid'[m] = nextid[m] + 1
           /\ \A x \in Nodes : x # m =>
                 /\ replid'[x] = replid[x] /\ replid2'[x] = replid2[x]
                 /\ second_replid_offset'[x] = second_replid_offset[x] /\ nextid'[x] = nextid[x]
BY Zenon, Shapes DEF NewId

\* Offsets of an instance that the step leaves alone.
LEMMA OffsetSame ==
    ASSUME Base, NEW x \in Nodes,
           master'[x] \in {master[x], NoMaster}, master_repl_offset'[x] = master_repl_offset[x],
           replid'[x] = replid[x], backlog'[x] = backlog[x], disk'[x] = disk[x],
           second_replid_offset'[x] = second_replid_offset[x]
    PROVE  OffsetOk(x)'
BY DEF Base, OffsetInv, OffsetOk, HasBacklog

\* The file of a snapshot.
LEMMA SnapshotFields ==
    ASSUME NEW n
    PROVE  /\ Snapshot(n).data = data[n] /\ Snapshot(n).replid = replid[n]
           /\ Snapshot(n).offset = master_repl_offset[n] /\ Snapshot(n).info = SavesInfo(n)
BY Zenon DEF Snapshot

\* The file on its way to a replica that reloads.
LEMMA ReloadFile ==
    ASSUME Base, NEW n \in Nodes, Reloads(n)
    PROVE  /\ Head(chan[n]).rdb.data \in Seq(Nat) /\ Head(chan[n]).rdb.replid \in Ids
           /\ Head(chan[n]).rdb.offset \in Nat /\ Head(chan[n]).rdb.info
<1>1. Head(chan[n]) \in Messages /\ Head(chan[n]).t = "full"
  BY HeadTail, Shapes DEF Base, Reloads
<1>2. Head(chan[n]).rdb \in RdbFile
  BY Zenon, <1>1, MessageFields
<1>3. Head(chan[n]).rdb.info
  BY DEF Base, ChanInv, ChanOk
<1> QED BY Zenon, <1>2, <1>3 DEF RdbFile

\* The offsets stay in step.
LEMMA OffsetStep ==
    ASSUME Base, NEW n \in Nodes, Step(n)
    PROVE  OffsetInv'
<1> SUFFICES ASSUME NEW x \in Nodes PROVE OffsetOk(x)'
  BY DEF OffsetInv
<1>0. /\ LinkOk(n) /\ RoleOk(n) /\ RoleOk(x) /\ OffsetOk(x) /\ OffsetOk(n) /\ n \in Nodes
      /\ repl_state \in [Nodes -> States] /\ masterhost \in [Nodes -> Nodes \cup {None}]
      /\ master \in [Nodes -> Clients] /\ backlog \in [Nodes -> Windows] /\ disk \in [Nodes -> Files]
      /\ replid \in [Nodes -> Ids] /\ second_replid_offset \in [Nodes -> Int]
      /\ master_repl_offset \in [Nodes -> Nat] /\ TypeInv
      /\ \A o \in Nat : /\ EmptyBacklog(o).off = o + 1 /\ EmptyBacklog(o).off # 0
                        /\ EmptyBacklog(o).items = <<>> /\ Len(EmptyBacklog(o).items) = 0
      /\ NoBacklog.off = 0
  BY Zenon, Shapes, FreshBacklog DEF Base, LinkInv, RoleInv, OffsetInv
<1>a. RoleOk(x) /\ RoleOk(n) /\ TypeInv
  BY Zenon, <1>0
<1>b. /\ second_replid_offset[x] \in Int /\ master_repl_offset[x] \in Nat
      /\ second_replid_offset[n] \in Int /\ master_repl_offset[n] \in Nat
      /\ second_replid_offset[x] <= master_repl_offset[x] + 1
  BY ZenonT(60), <1>0 DEF OffsetOk
<1>1. CASE \/ Connect(n) \/ ErrorReply(n) \/ LinkLost(n) \/ DropSlave(n)
  <2>1. /\ master'[x] \in {master[x], NoMaster}
        /\ UNCHANGED <<master_repl_offset, replid, backlog, disk, second_replid_offset>>
    BY Zenon, <1>0, <1>1 DEF Connect, ErrorReply, LinkLost, DropSlave, idVars
  <2> QED BY <2>1, OffsetSame
<1>2. CASE SyncCommand(n)
  <2>0. PICK m \in Nodes :
             /\ m = masterhost[n] /\ (m # n \/ SyncRefused(n, m))
             /\ \/ SyncRefused(n, m) \/ SyncPartial(n, m)
                \/ SyncFull(n, m) /\ NeedsBacklog(m)
                \/ SyncFull(n, m) /\ HasBacklog(m) /\ ~ NeedsBacklog(m)
    BY Zenon, <1>2, SyncMaster
  <2>1. UNCHANGED <<master, master_repl_offset, disk>>
    BY Zenon, <1>2 DEF SyncCommand
  <2>2. CASE SyncFull(n, m) /\ NeedsBacklog(m)
    <3>1. /\ masterhost[m] = None /\ NewId(m, NoId, -1)
          /\ backlog' = [backlog EXCEPT ![m] = EmptyBacklog(master_repl_offset[m])]
      BY <2>2, FirstBacklog
    <3>2. CASE x = m
      <4>1. master[m] = NoMaster /\ second_replid_offset'[m] = -1
        <5>1. master[m] = NoMaster
          BY Zenon, <1>a, <3>1, <3>2 DEF RoleOk
        <5> QED BY Zenon, <1>a, <3>1, <5>1, NewIdOwn
      <4>2. PICK e \in Nat : e = master_repl_offset[m]
        BY Zenon, <1>0
      <4>3. backlog'[m] = EmptyBacklog(e)
        BY Zenon, <1>0, <3>1, <4>2
      <4>4. backlog'[m].off = e + 1 /\ Len(backlog'[m].items) = 0
        BY Zenon, <1>0, <4>3
      <4>5. backlog'[m].off + Len(backlog'[m].items) = e + 1 /\ -1 <= e + 1
        BY <4>4
      <4> QED BY ZenonT(60), <1>0, <2>1, <3>2, <4>1, <4>2, <4>5 DEF OffsetOk
    <3>3. CASE x # m
      <4>1. /\ replid'[x] = replid[x] /\ second_replid_offset'[x] = second_replid_offset[x]
            /\ backlog'[x] = backlog[x]
        BY ZenonT(60), <1>0, <3>1, <3>3, NewIdOther
      <4> QED BY Zenon, <2>1, <4>1, OffsetSame
    <3> QED BY <3>2, <3>3
  <2>3. CASE \/ SyncRefused(n, m) \/ SyncPartial(n, m)
             \/ SyncFull(n, m) /\ HasBacklog(m) /\ ~ NeedsBacklog(m)
    <3>1. UNCHANGED <<replid, second_replid_offset, backlog>>
      BY Zenon, <2>3 DEF SyncRefused, SyncPartial, SyncFull, idVars
    <3> QED BY <2>1, <3>1, OffsetSame
  <2> QED BY Zenon, <2>0, <2>2, <2>3
<1>3. CASE StartBgsave(n) \/ SaveRdb(n)
  <2>1. UNCHANGED <<master, master_repl_offset, replid, backlog, second_replid_offset>>
    BY Zenon, <1>3 DEF StartBgsave, SaveRdb, idVars
  <2>2. disk'[x] \in {disk[x], Snapshot(n)} /\ (x # n => disk'[x] = disk[x])
    BY Zenon, <1>0, <1>3 DEF StartBgsave, SaveRdb
  <2>3. CASE disk'[x] = disk[x]
    BY <2>1, <2>3, OffsetSame
  <2>4. CASE disk'[x] = Snapshot(n)
    <3>1. disk'[x].offset \in Nat
      BY Zenon, <1>b, <2>4, SnapshotFields
    <3> QED BY ZenonT(60), <1>0, <2>1, <3>1 DEF OffsetOk, HasBacklog
  <2> QED BY Zenon, <2>2, <2>3, <2>4
<1>4. CASE ContinueReply(n)
  <2>1. CASE x # n
    <3>1. /\ master'[x] = master[x] /\ replid'[x] = replid[x] /\ backlog'[x] = backlog[x]
          /\ second_replid_offset'[x] = second_replid_offset[x]
          /\ UNCHANGED <<master_repl_offset, disk>>
      BY <1>0, <1>4, <2>1 DEF ContinueReply
    <3> QED BY Zenon, <3>1, OffsetSame
  <2>2. CASE x = n
    <3>0. PICK e \in Nat : e = master_repl_offset[n]
      BY <1>0
    <3>1. master_repl_offset'[n] = e /\ disk'[n] = disk[n]
      BY <1>4, <3>0 DEF ContinueReply
    <3>2. master[n] # NoMaster
      BY <1>4 DEF Base, ChanInv, ChanOk, ContinueReply, Reloads
    <3>3. master[n].reploff = e /\ master[n].replid = replid[n]
      BY Zenon, <1>0, <2>2, <3>0, <3>2 DEF OffsetOk
    <3>4. master'[n].replid = replid'[n]
      <4>1. master[n] \in [replid : Ids, reploff : Int]
        BY Zenon, <1>0, Types
      <4>2. master'[n].replid = Head(chan[n]).replid
        BY <1>0, <1>4, <4>1 DEF ContinueReply
      <4>3. replid'[n] = Head(chan[n]).replid
        BY Zenon, <1>0, <1>4, <3>3 DEF ContinueReply
      <4> QED BY <4>2, <4>3
    <3>5. master'[n].reploff = e
      <4>1. master[n] \in [replid : Ids, reploff : Int]
        BY <1>0, Types
      <4> QED BY <1>0, <1>4, <3>3, <4>1 DEF ContinueReply
    <3>6. second_replid_offset'[n] \in {second_replid_offset[n], e + 1}
      BY Zenon, <1>0, <1>4, <3>0 DEF ContinueReply
    <3>7. second_replid_offset'[n] <= e + 1
      <4>1. second_replid_offset[n] <= e + 1 /\ second_replid_offset[n] \in Int
        BY Zenon, <1>0, <3>0 DEF OffsetOk
      <4>2. e + 1 <= e + 1
        OBVIOUS
      <4> QED BY <3>6, <4>1, <4>2
    <3>8. backlog'[n] = BacklogToResume(n)
      BY Zenon, <1>0, <1>4 DEF ContinueReply
    <3>9. backlog'[n].off + Len(backlog'[n].items) = e + 1
      <4>1. CASE HasBacklog(n)
        BY Zenon, <1>0, <3>0, <3>8, <4>1 DEF BacklogToResume, OffsetOk
      <4>2. CASE ~ HasBacklog(n)
        <5>1. backlog'[n] = EmptyBacklog(e)
          BY <3>0, <3>8, <4>2 DEF BacklogToResume
        <5>2. backlog'[n].off = e + 1 /\ Len(backlog'[n].items) = 0
          BY Zenon, <1>0, <5>1
        <5> QED BY <5>2
      <4> QED BY <4>1, <4>2
    <3> QED BY Zenon, <1>0, <2>2, <3>1, <3>4, <3>5, <3>7, <3>9 DEF OffsetOk
  <2> QED BY <2>1, <2>2
<1>5. CASE FullResyncReply(n) \/ BacklogExpire(n)
  <2>1. UNCHANGED <<master_repl_offset, disk>>
    BY Zenon, <1>5 DEF FullResyncReply, BacklogExpire
  <2>2. CASE x = n
    <3>1. ~ HasBacklog(n)' /\ master'[n] = NoMaster
      BY Zenon, <1>0, <1>5 DEF FullResyncReply, BacklogExpire, HasBacklog, RoleOk
    <3>2. second_replid_offset'[n] \in {second_replid_offset[n], -1}
      BY ZenonT(60), <1>0, <1>5, NewIdEffect DEF FullResyncReply, BacklogExpire, NewHistory, idVars
    <3>3. second_replid_offset'[n] <= master_repl_offset[n] + 1
      BY <1>b, <2>2, <3>2
    <3> QED BY Zenon, <1>0, <2>1, <2>2, <3>1, <3>3 DEF OffsetOk
  <2>3. CASE x # n
    <3>1. /\ replid'[x] = replid[x] /\ second_replid_offset'[x] = second_replid_offset[x]
      BY ZenonT(60), <1>0, <1>5, <2>3, NewIdEffect DEF FullResyncReply, BacklogExpire, NewHistory, idVars
    <3>2. backlog'[x] = backlog[x] /\ master'[x] = master[x]
      BY Zenon, <1>0, <1>5, <2>3 DEF FullResyncReply, BacklogExpire
    <3> QED BY <2>1, <3>1, <3>2, OffsetSame
  <2> QED BY <2>2, <2>3
<1>6. CASE LoadRdb(n) \/ LoadRdbFails(n)
  <2>0. Reloads(n)
    BY Zenon, <1>6 DEF LoadRdb, LoadRdbFails, Base, ChanInv, ChanOk
  <2>1. PICK o \in Nat : o = Head(chan[n]).rdb.offset
    BY <2>0, ReloadFile
  <2>2. CASE x # n
    <3>1. /\ master'[x] = master[x] /\ replid'[x] = replid[x] /\ backlog'[x] = backlog[x]
          /\ second_replid_offset'[x] = second_replid_offset[x]
          /\ master_repl_offset'[x] = master_repl_offset[x] /\ disk'[x] = disk[x]
      BY ZenonT(60), <1>0, <1>6, <2>2 DEF LoadRdb, LoadRdbFails, idVars
    <3> QED BY Zenon, <3>1, OffsetSame
  <2>3. CASE x = n /\ LoadRdb(n)
    <3>1. master'[n] = [replid |-> Head(chan[n]).rdb.replid, reploff |-> o]
          /\ replid'[n] = Head(chan[n]).rdb.replid /\ master_repl_offset'[n] = o
          /\ second_replid_offset'[n] = -1 /\ disk'[n].offset = o
      BY Zenon, <1>0, <2>1, <2>3 DEF LoadRdb
    <3>2. master'[n].reploff = o /\ master'[n].replid = replid'[n]
      BY <3>1
    <3>3. backlog'[n] = EmptyBacklog(o)
      BY Zenon, <1>0, <2>1, <2>3 DEF LoadRdb, RoleOk
    <3>4. backlog'[n].off = o + 1 /\ Len(backlog'[n].items) = 0
      BY Zenon, <1>0, <3>3
    <3>5. backlog'[n].off + Len(backlog'[n].items) = o + 1 /\ -1 <= o + 1
      BY <3>4
    <3> QED BY Zenon, <2>3, <3>1, <3>2, <3>5 DEF OffsetOk
  <2>4. CASE x = n /\ LoadRdbFails(n)
    <3>1. UNCHANGED <<master, master_repl_offset, replid, second_replid_offset, backlog>>
          /\ disk'[n].offset = o
      BY Zenon, <1>0, <2>1, <2>4 DEF LoadRdbFails, idVars
    <3> QED BY Zenon, <1>0, <2>4, <3>1 DEF OffsetOk, HasBacklog
  <2> QED BY <1>6, <2>2, <2>3, <2>4
<1>7. CASE Write(n) \/ Apply(n)
  <2>0. PICK w \in Nat : Feeds(n, w)
    BY <1>7, Feeding
  <2>1. BacklogFed(n, w)
    BY ZenonT(60), <1>0, <2>0, BacklogIsFed DEF Feeds
  <2>2. /\ UNCHANGED <<replid, second_replid_offset, disk>>
        /\ x # n => master'[x] = master[x]
    BY <1>0, <1>7, <2>0 DEF Feeds, Write, Apply, idVars
  <2>3. CASE x # n
    BY Zenon, <2>1, <2>2, <2>3, OffsetSame DEF BacklogFed
  <2>4. CASE x = n /\ Write(n)
    <3>1. master'[n] = NoMaster
      BY ZenonT(60), <1>0, <2>4 DEF Write, RoleOk
    <3>2. master_repl_offset'[n] >= master_repl_offset[n] /\ master_repl_offset'[n] \in Nat
      <4>1. \/ master_repl_offset'[n] = master_repl_offset[n]
            \/ master_repl_offset'[n] = master_repl_offset[n] + 1
        BY Zenon, <2>1 DEF BacklogFed
      <4> QED BY <1>b, <4>1
    <3>3. HasBacklog(n)' => backlog'[n].off + Len(backlog'[n].items) = master_repl_offset'[n] + 1
      BY Zenon, <1>0, <2>1, <2>4 DEF BacklogFed, OffsetOk
    <3>4. second_replid_offset[n] <= master_repl_offset'[n] + 1
      BY <1>b, <2>4, <3>2
    <3> QED BY Zenon, <1>0, <2>2, <2>4, <3>1, <3>3, <3>4 DEF OffsetOk
  <2>5. CASE x = n /\ Apply(n)
    <3>0. HasBacklog(n) /\ master[n] # NoMaster
      BY <1>0, <2>5 DEF Apply, RoleOk
    <3>1. master'[n].reploff = master[n].reploff + 1 /\ master'[n].replid = master[n].replid
      <4>1. master[n] \in [replid : Ids, reploff : Int]
        BY <1>0, Types
      <4> QED BY <1>0, <2>5, <4>1 DEF Apply
    <3>2. master_repl_offset'[n] = master_repl_offset[n] + 1
      BY <2>1, <3>0 DEF BacklogFed
    <3>3. backlog'[n].off + Len(backlog'[n].items) = master_repl_offset'[n] + 1
      BY Zenon, <1>0, <2>1, <2>5, <3>0 DEF BacklogFed, OffsetOk
    <3>4. second_replid_offset[n] <= master_repl_offset'[n] + 1
      BY <1>0, <2>5, <3>2 DEF OffsetOk
    <3>5. master'[n].reploff = master_repl_offset'[n] /\ master'[n].replid = replid[n]
      BY Zenon, <1>0, <2>5, <3>0, <3>1, <3>2 DEF OffsetOk
    <3> QED BY Zenon, <1>0, <2>2, <2>5, <3>3, <3>4, <3>5 DEF OffsetOk
  <2> QED BY <1>7, <2>3, <2>4, <2>5
<1>8. CASE ResizeBacklog(n)
  <2>1. UNCHANGED <<master, master_repl_offset, replid, second_replid_offset, disk>>
    BY <1>8 DEF ResizeBacklog, idVars
  <2>2. CASE x = n
    <3>1. PICK e \in Nat : e = master_repl_offset[n]
      BY <1>0
    <3>2. backlog'[n] = EmptyBacklog(e)
      BY Zenon, <1>0, <1>8, <3>1 DEF ResizeBacklog
    <3>3. backlog'[n].off = e + 1 /\ Len(backlog'[n].items) = 0
      BY ZenonT(60), <1>0, <3>2
    <3>4. backlog'[n].off + Len(backlog'[n].items) = e + 1
      BY <3>3
    <3> QED BY Zenon, <1>0, <2>1, <2>2, <3>1, <3>4 DEF OffsetOk
  <2>3. CASE x # n
    <3>1. backlog'[x] = backlog[x]
      BY Zenon, <1>0, <1>8, <2>3 DEF ResizeBacklog
    <3> QED BY Zenon, <2>1, <3>1, OffsetSame
  <2> QED BY <2>2, <2>3
<1>9. ASSUME NEW h \in Nodes \ {n}, SetMaster(n, h) PROVE OffsetOk(x)'
  <2>1. UNCHANGED <<master_repl_offset, replid, second_replid_offset, disk, backlog>>
    BY Zenon, <1>9 DEF SetMaster, idVars
  <2>2. CASE master'[x] = master[x]
    BY <2>1, <2>2, OffsetSame
  <2>3. CASE master'[x] # master[x]
    <3>1. x = n /\ master'[x] = MyselfAsMaster(n)
      BY Zenon, <1>0, <1>9, <2>3 DEF SetMaster
    <3>2. master'[x].replid = replid[n] /\ master'[x].reploff = master_repl_offset[n]
      BY <3>1 DEF MyselfAsMaster
    <3> QED BY Zenon, <1>0, <2>1, <3>1, <3>2 DEF OffsetOk, HasBacklog
  <2> QED BY Zenon, <2>2, <2>3
<1>10. CASE UnsetMaster(n)
  <2>0. PICK o : o = master_repl_offset[n] + 1
    BY Zenon
  <2>1. UNCHANGED <<master_repl_offset, disk, backlog>> /\ NewId(n, replid[n], o)
    BY Zenon, <1>10, <2>0 DEF UnsetMaster, PromotedId, ShiftOffset
  <2>2. CASE x = n
    <3>1. master'[n] = NoMaster /\ second_replid_offset'[n] = master_repl_offset[n] + 1
      <4>1. second_replid_offset'[n] = o
        BY Zenon, <1>a, <2>1, NewIdOwn
      <4>2. master'[n] = NoMaster
        BY Zenon, <1>0, <1>10 DEF UnsetMaster
      <4> QED BY Zenon, <2>0, <4>1, <4>2
    <3>2. second_replid_offset'[n] <= master_repl_offset[n] + 1
      BY <1>b, <3>1
    <3> QED BY Zenon, <1>0, <2>1, <2>2, <3>1, <3>2 DEF OffsetOk, HasBacklog
  <2>3. CASE x # n
    <3>1. replid'[x] = replid[x] /\ second_replid_offset'[x] = second_replid_offset[x]
      BY ZenonT(60), <1>0, <2>1, <2>3, NewIdOther
    <3>2. master'[x] = master[x]
      BY Zenon, <1>0, <1>10, <2>3 DEF UnsetMaster
    <3> QED BY Zenon, <2>1, <3>1, <3>2, OffsetSame
  <2> QED BY <2>2, <2>3
<1>11. ASSUME NEW h \in (Nodes \ {n}) \cup {None}, CrashRestart(n, h) PROVE OffsetOk(x)'
  <2>1. CASE x # n
    <3>1. /\ master'[x] = master[x] /\ replid'[x] = replid[x] /\ backlog'[x] = backlog[x]
          /\ second_replid_offset'[x] = second_replid_offset[x]
          /\ master_repl_offset'[x] = master_repl_offset[x] /\ disk'[x] = disk[x]
      BY Zenon, <1>0, <1>11, <2>1 DEF CrashRestart
    <3> QED BY Zenon, <3>1, OffsetSame
  <2>2. CASE x = n
    <3>1. ~ HasBacklog(n)' /\ disk' = disk /\ second_replid_offset'[n] = -1
      BY Zenon, <1>0, <1>11 DEF CrashRestart, HasBacklog
    <3>2. CASE RestoresId(h, disk[n])
      <4>1. PICK o \in Nat : o = disk[n].offset
        BY Zenon, <1>0, <3>2 DEF OffsetOk, RestoresId
      <4>2. /\ master'[n] = [replid |-> disk[n].replid, reploff |-> o]
            /\ replid'[n] = disk[n].replid /\ master_repl_offset'[n] = o
        BY Zenon, <1>0, <1>11, <3>2, <4>1 DEF CrashRestart
      <4>3. master'[n].replid = replid'[n] /\ master'[n].reploff = o
        BY <4>2
      <4>4. -1 <= o + 1
        OBVIOUS
      <4> QED BY Zenon, <1>0, <2>2, <3>1, <4>2, <4>3, <4>4 DEF OffsetOk
    <3>3. CASE ~ RestoresId(h, disk[n])
      <4>1. master'[n] = NoMaster /\ master_repl_offset'[n] = 0
        BY Zenon, <1>0, <1>11, <3>3 DEF CrashRestart
      <4>2. -1 <= 0 + 1
        OBVIOUS
      <4> QED BY Zenon, <1>0, <2>2, <3>1, <4>1, <4>2 DEF OffsetOk
    <3> QED BY <3>2, <3>3
  <2> QED BY <2>1, <2>2
<1> QED BY Zenon, <1>1, <1>2, <1>3, <1>4, <1>5, <1>6, <1>7, <1>8, <1>9, <1>10, <1>11 DEF Step

-----------------------------------------------------------------------------
(* Reading the stream.                                                     *)

\* The places a stream consists of.
LEMMA FlowTypes ==
    ASSUME Base, NEW x \in Nodes, Flowing(x)
    PROVE  /\ StreamId(x) \in Ids /\ StreamOff(x) \in Nat /\ Skip(x) \in {0, 1}
           /\ Len(chan[x]) \in Nat /\ Len(chan[x]) >= Skip(x)
           /\ End(x) \in Nat /\ End(x) >= StreamOff(x)
           /\ End(x) = StreamOff(x) + Len(chan[x]) - Skip(x)
<1>0. /\ replid[x] \in Ids /\ master_repl_offset[x] \in Nat /\ chan[x] \in Seq(Messages)
  BY Zenon, Shapes DEF Base
<1>1. Len(chan[x]) \in Nat /\ (chan[x] # <<>> => Len(chan[x]) >= 1)
  BY <1>0
<1>2. repl_state[x] # "connected" => chan[x] # <<>>
  BY DEF Flowing, Resumes, Reloads
<1>3. Skip(x) \in {0, 1} /\ Len(chan[x]) >= Skip(x)
  BY <1>1, <1>2 DEF Skip
<1>4. Resumes(x) => Head(chan[x]).replid \in Ids
  <2>1. Resumes(x) => Head(chan[x]) \in Messages /\ Head(chan[x]).t = "cont"
    BY Zenon, <1>0, HeadTail DEF Resumes
  <2> QED BY Zenon, <2>1, MessageFields
<1>5. StreamId(x) \in Ids /\ StreamOff(x) \in Nat
  BY <1>0, <1>4, ReloadFile DEF Flowing, StreamId, StreamOff
<1>6. PICK s \in Nat : s = StreamOff(x)
  BY <1>5
<1>7. PICK l \in Nat : l = Len(chan[x])
  BY <1>1
<1>8. PICK k \in {0, 1} : k = Skip(x)
  BY <1>3
<1>9. End(x) = s + l - k
  BY Zenon, <1>6, <1>7, <1>8 DEF End
<1>10. s + l - k \in Nat /\ s + l - k >= s
  BY <1>3, <1>7, <1>8
<1> QED BY Zenon, <1>1, <1>3, <1>5, <1>6, <1>7, <1>8, <1>9, <1>10

\* Instance x reads what is first in its stream; the rest is the same stream.
StreamRead(x) ==
    /\ Flowing(x) /\ Flowing(x)' /\ ~ Resumes(x)' /\ ~ Reloads(x)'
    /\ StreamId(x)' = StreamId(x) /\ End(x)' = End(x)
    /\ StreamOff(x)' \in {StreamOff(x), StreamOff(x) + 1} /\ StreamOff(x)' <= End(x)
    /\ replid'[x] = StreamId(x) /\ master_repl_offset'[x] = StreamOff(x)'
    /\ \A o \in Int : StreamOff(x)' < o /\ o <= End(x) => Cmd(x, o)' = Cmd(x, o)

\* It does when it takes the first message and moves to the place after it.
LEMMA ReadStream ==
    ASSUME Base, NEW x \in Nodes, Flowing(x), chan[x] # <<>>, ChanOk(x)',
           repl_state'[x] = "connected", chan'[x] = Tail(chan[x]), replid'[x] = StreamId(x),
           master_repl_offset'[x] = StreamOff(x) + 1 - Skip(x)
    PROVE  StreamRead(x)
<1>0. chan[x] \in Seq(Messages)
  BY Zenon, Shapes DEF Base
<1>1. PICK c \in Seq(Messages) : c = chan[x]
  BY Zenon, <1>0
<1>2. PICK d \in Seq(Messages) : d = chan'[x]
  BY Zenon, <1>1, HeadTail
<1>9. PICK s \in Nat : s = StreamOff(x)
  BY Zenon, FlowTypes
<1>10. PICK l \in Nat : l = Len(c)
  OBVIOUS
<1>11. PICK k \in {0, 1} : k = Skip(x)
  BY Zenon, FlowTypes
<1>12. PICK e \in Nat : e = End(x) /\ e = s + l - k
  BY Zenon, <1>1, <1>9, <1>10, <1>11, FlowTypes
<1>3. l >= 1 /\ Len(d) = l - 1 /\ \A i \in 1 .. l - 1 : d[i] = c[i + 1]
  BY <1>1, <1>2, <1>10, HeadTail
<1>4. d # <<>> => d[1].t = "cmd" /\ Head(d) = d[1]
  <2>1. d # <<>> => 1 \in 1 .. Len(d) /\ Head(d) = d[1]
    OBVIOUS
  <2> QED BY Zenon, <1>2, <2>1 DEF ChanOk
<1>5. ~ Resumes(x)' /\ ~ Reloads(x)' /\ Flowing(x)' /\ Skip(x)' = 0
  BY Zenon, <1>2, <1>4 DEF Resumes, Reloads, Flowing, Skip
<1>6. StreamId(x)' = StreamId(x)
  BY Zenon DEF StreamId
<1>7. StreamOff(x)' = s + 1 - k /\ master_repl_offset'[x] = StreamOff(x)'
  BY Zenon, <1>9, <1>11 DEF StreamOff
<1>8. s + 1 - k \in {s, s + 1} /\ s + 1 - k <= e
  BY <1>3, <1>12
<1>13. End(x)' = (s + 1 - k) + (l - 1) - 0
  BY Zenon, <1>2, <1>3, <1>5, <1>7 DEF End
<1>14. End(x)' = e
  BY <1>12, <1>13
<1>15. ASSUME NEW o \in Int, s + 1 - k < o, o <= e PROVE Cmd(x, o)' = Cmd(x, o)
  <2>1. PICK i \in 1 .. l - 1 : i = o - (s + 1 - k) + 0
    BY <1>3, <1>12, <1>15
  <2>2. i + 1 = o - s + k /\ d[i] = c[i + 1]
    BY <1>3, <2>1
  <2>3. Cmd(x, o)' = d[i].w
    BY <1>2, <1>5, <1>7, <2>1 DEF Cmd
  <2>4. Cmd(x, o) = c[i + 1].w
    BY Zenon, <1>1, <1>9, <1>11, <2>2 DEF Cmd
  <2> QED BY Zenon, <2>2, <2>3, <2>4
<1> QED BY Zenon, <1>5, <1>6, <1>7, <1>8, <1>9, <1>12, <1>14, <1>15 DEF StreamRead

\* Who reads: +CONTINUE, the end of a transfer, a write.
LEMMA Reading ==
    ASSUME Base, ChanInv', NEW n \in Nodes, ContinueReply(n) \/ LoadRdb(n) \/ Apply(n)
    PROVE  StreamRead(n)
<1>0. /\ chan[n] # <<>> /\ ChanOk(n)' /\ ChanOk(n) /\ RoleOk(n) /\ OffsetOk(n)
      /\ replid \in [Nodes -> Ids] /\ master_repl_offset \in [Nodes -> Nat]
      /\ repl_state \in [Nodes -> States] /\ chan \in [Nodes -> Seq(Messages)]
  BY Zenon, Shapes DEF Base, ChanInv, RoleInv, OffsetInv, ContinueReply, LoadRdb, Apply
<1>1. CASE ContinueReply(n)
  <2>1. Resumes(n) /\ ~ Reloads(n) /\ repl_state[n] = "psync" /\ master[n] # NoMaster
    BY <1>0, <1>1 DEF ContinueReply, Resumes, Reloads, ChanOk
  <2>2. StreamId(n) = Head(chan[n]).replid /\ StreamOff(n) = master_repl_offset[n]
        /\ Skip(n) = 1 /\ Flowing(n)
    BY Zenon, <2>1 DEF StreamId, StreamOff, Skip, Flowing
  <2>3. /\ repl_state'[n] = "connected" /\ chan'[n] = Tail(chan[n])
        /\ master_repl_offset'[n] = master_repl_offset[n]
    BY Zenon, <1>0, <1>1 DEF ContinueReply
  <2>4. replid'[n] = Head(chan[n]).replid
    BY ZenonT(60), <1>0, <1>1, <2>1 DEF ContinueReply, OffsetOk
  <2>5. master_repl_offset'[n] = StreamOff(n) + 1 - Skip(n)
    <3>1. PICK s \in Nat : s = master_repl_offset[n]
      BY <1>0
    <3>2. StreamOff(n) = s /\ Skip(n) = 1 /\ master_repl_offset'[n] = s
      BY Zenon, <2>2, <2>3, <3>1
    <3> QED BY <3>2
  <2> QED BY Zenon, <1>0, <2>2, <2>3, <2>4, <2>5, ReadStream
<1>2. CASE LoadRdb(n)
  <2>1. Reloads(n) /\ ~ Resumes(n) /\ repl_state[n] = "transfer"
    BY Zenon, <1>0, <1>2 DEF LoadRdb, Resumes, Reloads, ChanOk
  <2>2. StreamId(n) = Head(chan[n]).rdb.replid /\ StreamOff(n) = Head(chan[n]).rdb.offset
        /\ Skip(n) = 1 /\ Flowing(n)
    BY Zenon, <2>1 DEF StreamId, StreamOff, Skip, Flowing
  <2>3. /\ repl_state'[n] = "connected" /\ chan'[n] = Tail(chan[n])
        /\ replid'[n] = Head(chan[n]).rdb.replid
        /\ master_repl_offset'[n] = Head(chan[n]).rdb.offset
    BY Zenon, <1>0, <1>2 DEF LoadRdb
  <2>4. Head(chan[n]).rdb.offset \in Nat
    BY ZenonT(60), <2>1, ReloadFile
  <2>5. master_repl_offset'[n] = StreamOff(n) + 1 - Skip(n)
    <3>1. PICK s \in Nat : s = Head(chan[n]).rdb.offset
      BY Zenon, <2>4
    <3>2. StreamOff(n) = s /\ Skip(n) = 1 /\ master_repl_offset'[n] = s
      BY Zenon, <2>2, <2>3, <3>1
    <3> QED BY <3>2
  <2> QED BY Zenon, <1>0, <2>2, <2>3, <2>5, ReadStream
<1>3. CASE Apply(n)
  <2>1. repl_state[n] = "connected" /\ HasBacklog(n)
    BY <1>0, <1>3 DEF Apply, RoleOk
  <2>2. StreamId(n) = replid[n] /\ StreamOff(n) = master_repl_offset[n]
        /\ Skip(n) = 0 /\ Flowing(n)
    BY Zenon, <2>1 DEF StreamId, StreamOff, Skip, Flowing
  <2>3. PICK w \in Nat : Feeds(n, w)
    BY <1>3, Feeding
  <2>4. master_repl_offset'[n] = master_repl_offset[n] + 1
    BY Zenon, <2>1, <2>3, BacklogIsFed DEF Feeds, Base, BacklogFed
  <2>5. ~ Write(n)
    BY <1>3 DEF Base, Write, Apply, LinkInv, LinkOk
  <2>6. repl_state'[n] = "connected" /\ chan'[n] = Tail(chan[n]) /\ replid'[n] = replid[n]
    BY Zenon, <1>3, <2>1, <2>3, <2>5 DEF Feeds, idVars
  <2>7. master_repl_offset'[n] = StreamOff(n) + 1 - Skip(n)
    BY <1>0, <2>2, <2>4
  <2> QED BY Zenon, <1>0, <2>2, <2>6, <2>7, ReadStream
<1> QED BY Zenon, <1>1, <1>2, <1>3

\* A master has no stream.
LEMMA MasterStream ==
    ASSUME Base, NEW x \in Nodes, masterhost[x] = None
    PROVE  ~ Flowing(x) /\ ~ Resumes(x) /\ ~ Reloads(x) /\ chan[x] = <<>> /\ repl_state[x] = "none"
           /\ slave[x] = "none"
BY Zenon DEF Base, LinkInv, LinkOk, Flowing, Resumes, Reloads

-----------------------------------------------------------------------------
(* How the places an instance knows of move in a step.                     *)

\* All that a step can do to the places instance x knows.  Its own: it stays, goes on by
\* a write of a master with a backlog, follows its stream, is restored from the file, or
\* starts a new history.
PlaceMove(x) ==
    \/ replid'[x] = replid[x] /\ master_repl_offset'[x] = master_repl_offset[x]
    \/ /\ replid'[x] = replid[x] /\ master_repl_offset'[x] = master_repl_offset[x] + 1
       /\ masterhost[x] = None /\ HasBacklog(x)
    \/ Flowing(x) /\ replid'[x] = StreamId(x) /\ master_repl_offset'[x] <= End(x)
    \/ /\ disk[x].info
       /\ replid'[x] = disk[x].replid /\ master_repl_offset'[x] = disk[x].offset
    \/ replid'[x] = Id(x, nextid[x]) /\ nextid'[x] = nextid[x] + 1

\* The second ID: it stays, is cleared, or takes the place of the first.
SecondMove(x) ==
    \/ replid2'[x] = replid2[x] /\ second_replid_offset'[x] = second_replid_offset[x]
    \/ replid2'[x] = NoId /\ second_replid_offset'[x] = -1
    \/ replid2'[x] = replid[x] /\ second_replid_offset'[x] = master_repl_offset[x] + 1

\* The file: it stays, is a snapshot, or the one received.
DiskMove(x) ==
    \/ disk'[x] = disk[x]
    \/ /\ disk'[x].replid = replid[x] /\ disk'[x].offset = master_repl_offset[x]
       /\ disk'[x].info => SavesInfo(x)
    \/ Flowing(x) /\ disk'[x].replid = StreamId(x) /\ disk'[x].offset <= End(x)

\* A master goes on with its ID, or has drawn a new one.
MasterMove(x) ==
    masterhost'[x] = None =>
        \/ /\ masterhost[x] = None /\ replid'[x] = replid[x] /\ nextid'[x] = nextid[x]
           /\ master_repl_offset'[x] \in {master_repl_offset[x], master_repl_offset[x] + 1}
           /\ replid2'[x] = replid2[x]
           /\ ~ HasBacklog(x)' => ~ HasBacklog(x)
        \/ /\ replid'[x] = Id(x, nextid[x]) /\ nextid'[x] = nextid[x] + 1
           /\ replid2'[x] \in {NoId, replid[x]}

\* All of these.
Moves(x) ==
    /\ PlaceMove(x) /\ SecondMove(x) /\ DiskMove(x) /\ MasterMove(x)
    /\ nextid'[x] \in {nextid[x], nextid[x] + 1}

\* Most steps move nothing of x.
LEMMA MovesSame ==
    ASSUME NEW x \in Nodes, replid'[x] = replid[x], replid2'[x] = replid2[x],
           master_repl_offset'[x] = master_repl_offset[x], nextid'[x] = nextid[x],
           second_replid_offset'[x] = second_replid_offset[x], disk'[x] = disk[x],
           masterhost'[x] = None =>
               masterhost[x] = None /\ (~ HasBacklog(x)' => ~ HasBacklog(x))
    PROVE  Moves(x)
BY Zenon DEF Moves, PlaceMove, SecondMove, DiskMove, MasterMove

\* Every step moves the places of x in one of these ways.
LEMMA MovesStep ==
    ASSUME Base, ChanInv', NEW n \in Nodes, Step(n), NEW x \in Nodes
    PROVE  Moves(x)
<1>0. /\ LinkOk(x) /\ LinkOk(n) /\ RoleOk(x) /\ RoleOk(n) /\ n \in Nodes /\ OffsetOk(n)
      /\ masterhost \in [Nodes -> Nodes \cup {None}] /\ backlog \in [Nodes -> Windows]
      /\ disk \in [Nodes -> Files] /\ nextid \in [Nodes -> Nat]
      /\ replid2 \in [Nodes -> Ids] /\ second_replid_offset \in [Nodes -> Int]
      /\ replid \in [Nodes -> Ids] /\ master_repl_offset \in [Nodes -> Nat] /\ TypeInv
      /\ None \notin Nodes
  BY Zenon, Shapes DEF Base, LinkInv, RoleInv, OffsetInv
<1>a. TypeInv
  BY Zenon, <1>0
<1>1. CASE Connect(n) \/ ErrorReply(n) \/ LinkLost(n) \/ DropSlave(n)
           \/ (\E h \in Nodes \ {n} : SetMaster(n, h))
  <2>1. /\ UNCHANGED <<replid, replid2, master_repl_offset, nextid, second_replid_offset,
                       disk, backlog>>
        /\ masterhost'[x] = None => masterhost[x] = None
    BY Zenon, <1>0, <1>1 DEF Connect, ErrorReply, LinkLost, DropSlave, SetMaster, idVars
  <2> QED BY Zenon, <2>1, MovesSame DEF HasBacklog
<1>2. CASE SyncCommand(n)
  <2>0. PICK m \in Nodes :
             /\ m = masterhost[n] /\ (m # n \/ SyncRefused(n, m))
             /\ \/ SyncRefused(n, m) \/ SyncPartial(n, m)
                \/ SyncFull(n, m) /\ NeedsBacklog(m)
                \/ SyncFull(n, m) /\ HasBacklog(m) /\ ~ NeedsBacklog(m)
    BY Zenon, <1>2, SyncMaster
  <2>1. UNCHANGED <<master_repl_offset, masterhost, disk>>
    BY Zenon, <1>2 DEF SyncCommand
  <2>2. CASE SyncFull(n, m) /\ NeedsBacklog(m)
    <3>1. /\ masterhost[m] = None /\ NewId(m, NoId, -1)
          /\ backlog' = [backlog EXCEPT ![m] = EmptyBacklog(master_repl_offset[m])]
      BY <2>2, FirstBacklog
    <3>2. CASE x = m
      <4>1. /\ replid'[x] = Id(x, nextid[x]) /\ nextid'[x] = nextid[x] + 1
            /\ replid2'[x] = NoId /\ second_replid_offset'[x] = -1
        BY Zenon, <1>a, <3>1, <3>2, NewIdOwn
      <4> QED BY Zenon, <2>1, <4>1 DEF Moves, PlaceMove, SecondMove, DiskMove, MasterMove
    <3>3. CASE x # m
      <4>1. /\ replid'[x] = replid[x] /\ second_replid_offset'[x] = second_replid_offset[x]
            /\ replid2'[x] = replid2[x] /\ nextid'[x] = nextid[x]
        BY Zenon, <1>0, <3>1, <3>3, NewIdOther
      <4>2. backlog'[x] = backlog[x]
        BY <1>0, <3>1, <3>3
      <4> QED BY <2>1, <4>1, <4>2, MovesSame DEF HasBacklog
    <3> QED BY ZenonT(60), <3>2, <3>3
  <2>3. CASE \/ SyncRefused(n, m) \/ SyncPartial(n, m)
             \/ SyncFull(n, m) /\ HasBacklog(m) /\ ~ NeedsBacklog(m)
    <3>1. UNCHANGED <<replid, replid2, nextid, second_replid_offset, backlog>>
      BY Zenon, <2>3 DEF SyncRefused, SyncPartial, SyncFull, idVars
    <3> QED BY <2>1, <3>1, MovesSame DEF HasBacklog
  <2> QED BY Zenon, <2>0, <2>2, <2>3
<1>3. CASE StartBgsave(n) \/ SaveRdb(n)
  <2>1. UNCHANGED <<replid, replid2, master_repl_offset, nextid, second_replid_offset,
                    masterhost, backlog>>
    BY <1>3 DEF StartBgsave, SaveRdb, idVars
  <2>2. disk'[x] \in {disk[x], Snapshot(n)} /\ (x # n => disk'[x] = disk[x])
    BY Zenon, <1>0, <1>3 DEF StartBgsave, SaveRdb
  <2>3. CASE disk'[x] = disk[x]
    BY Zenon, <2>1, <2>3, MovesSame DEF HasBacklog
  <2>4. CASE disk'[x] # disk[x]
    <3>1. x = n /\ disk'[x] = Snapshot(x)
      BY Zenon, <2>2, <2>4
    <3>2. DiskMove(x)
      BY <3>1, SnapshotFields DEF DiskMove
    <3> QED BY Zenon, <2>1, <3>2 DEF Moves, PlaceMove, SecondMove, MasterMove, HasBacklog
  <2> QED BY <2>3, <2>4
<1>4. CASE ContinueReply(n)
  <2>1. masterhost[n] # None /\ UNCHANGED <<masterhost, nextid, master_repl_offset, disk>>
    BY <1>0, <1>4 DEF ContinueReply, LinkOk
  <2>2. CASE x = n
    <3>1. StreamRead(n)
      BY Zenon, <1>4, Reading
    <3>2. PlaceMove(n)
      BY Zenon, <3>1 DEF PlaceMove, StreamRead
    <3>3. SecondMove(n)
      <4>1. master[n] # NoMaster
        BY <1>4 DEF Base, ChanInv, ChanOk, ContinueReply, Reloads
      <4>2. master[n].replid = replid[n]
        BY <1>0, <4>1 DEF OffsetOk
      <4>3. CASE Head(chan[n]).replid # master[n].replid
        BY <1>0, <1>4, <4>2, <4>3 DEF ContinueReply, SecondMove
      <4>4. CASE Head(chan[n]).replid = master[n].replid
        BY Zenon, <1>4, <4>4 DEF ContinueReply, SecondMove
      <4> QED BY Zenon, <4>3, <4>4
    <3> QED BY Zenon, <2>1, <2>2, <3>2, <3>3 DEF Moves, DiskMove, MasterMove
  <2>3. CASE x # n
    <3>1. /\ replid'[x] = replid[x] /\ second_replid_offset'[x] = second_replid_offset[x]
          /\ replid2'[x] = replid2[x] /\ backlog'[x] = backlog[x]
      BY Zenon, <1>0, <1>4, <2>3 DEF ContinueReply
    <3> QED BY Zenon, <2>1, <3>1, MovesSame DEF HasBacklog
  <2> QED BY <2>2, <2>3
<1>5. CASE FullResyncReply(n)
  <2>1. masterhost[n] # None
        /\ UNCHANGED <<replid, replid2, nextid, second_replid_offset, masterhost,
                       master_repl_offset, disk>>
    BY Zenon, <1>0, <1>5 DEF FullResyncReply, LinkOk, idVars
  <2>2. x # n => backlog'[x] = backlog[x]
    BY Zenon, <1>0, <1>5 DEF FullResyncReply
  <2> QED BY Zenon, <2>1, <2>2, MovesSame DEF HasBacklog
<1>6. CASE LoadRdb(n) \/ LoadRdbFails(n)
  <2>0. Reloads(n) /\ repl_state[n] # "connected" /\ masterhost[n] # None
    BY Zenon, <1>0, <1>6 DEF LoadRdb, LoadRdbFails, Base, ChanInv, ChanOk, LinkOk
  <2>1. ~ Resumes(n) /\ Flowing(n) /\ StreamId(n) = Head(chan[n]).rdb.replid
        /\ StreamOff(n) = Head(chan[n]).rdb.offset
    BY Zenon, <2>0 DEF Resumes, Reloads, Flowing, StreamId, StreamOff
  <2>2. StreamOff(n) <= End(n)
    BY Zenon, <2>1, FlowTypes
  <2>3. DiskMove(n)
    BY Zenon, <1>0, <1>6, <2>1, <2>2 DEF LoadRdb, LoadRdbFails, DiskMove
  <2>4. UNCHANGED <<masterhost, nextid>>
    BY Zenon, <1>6 DEF LoadRdb, LoadRdbFails, idVars
  <2>5. CASE x = n /\ LoadRdb(n)
    <3>1. StreamRead(n)
      BY <2>5, Reading
    <3>2. PlaceMove(n)
      BY <3>1 DEF PlaceMove, StreamRead
    <3>3. SecondMove(n)
      BY Zenon, <1>0, <2>5 DEF LoadRdb, SecondMove
    <3> QED BY Zenon, <2>0, <2>3, <2>4, <2>5, <3>2, <3>3 DEF Moves, MasterMove
  <2>6. CASE x = n /\ LoadRdbFails(n)
    <3>1. UNCHANGED <<replid, replid2, master_repl_offset, second_replid_offset>>
      BY Zenon, <2>6 DEF LoadRdbFails, idVars
    <3> QED BY Zenon, <2>0, <2>3, <2>4, <2>6, <3>1 DEF Moves, PlaceMove, SecondMove, MasterMove
  <2>7. CASE x # n
    <3>1. /\ replid'[x] = replid[x] /\ second_replid_offset'[x] = second_replid_offset[x]
          /\ replid2'[x] = replid2[x] /\ backlog'[x] = backlog[x]
          /\ master_repl_offset'[x] = master_repl_offset[x] /\ disk'[x] = disk[x]
      <4>1. CASE LoadRdb(n)
        BY ZenonT(60), <1>0, <2>7, <4>1 DEF LoadRdb
      <4>2. CASE LoadRdbFails(n)
        BY ZenonT(60), <1>0, <2>7, <4>2 DEF LoadRdbFails, idVars
      <4> QED BY Zenon, <1>6, <4>1, <4>2
    <3> QED BY ZenonT(60), <2>4, <3>1, MovesSame DEF HasBacklog
  <2> QED BY <1>6, <2>5, <2>6, <2>7
<1>7. CASE Write(n) \/ Apply(n)
  <2>0. PICK w \in Nat : Feeds(n, w)
    BY <1>7, Feeding
  <2>1. BacklogFed(n, w)
    BY Zenon, <1>0, <2>0, BacklogIsFed DEF Feeds
  <2>2. UNCHANGED <<replid, replid2, nextid, second_replid_offset, masterhost, disk>>
    BY Zenon, <2>0 DEF Feeds, idVars
  <2>3. CASE x # n
    BY Zenon, <2>1, <2>2, <2>3, MovesSame DEF BacklogFed
  <2>4. CASE x = n /\ Write(n)
    <3>1. masterhost[n] = None
      BY <2>4 DEF Write
    <3>2. \/ master_repl_offset'[n] = master_repl_offset[n]
          \/ HasBacklog(n) /\ master_repl_offset'[n] = master_repl_offset[n] + 1
      BY <2>1 DEF BacklogFed
    <3>3. HasBacklog(n)' = HasBacklog(n)
      BY <2>1 DEF BacklogFed
    <3> QED BY Zenon, <2>2, <2>4, <3>1, <3>2, <3>3 DEF Moves, PlaceMove, SecondMove, DiskMove, MasterMove
  <2>5. CASE x = n /\ Apply(n)
    <3>1. StreamRead(n) /\ masterhost[n] # None
      BY Zenon, <1>0, <2>5, Reading DEF Apply, LinkOk
    <3>2. PlaceMove(n)
      BY <3>1 DEF PlaceMove, StreamRead
    <3> QED BY Zenon, <2>2, <2>5, <3>1, <3>2 DEF Moves, SecondMove, DiskMove, MasterMove
  <2> QED BY <1>7, <2>3, <2>4, <2>5
<1>8. CASE ResizeBacklog(n)
  <2>1. UNCHANGED <<replid, replid2, nextid, second_replid_offset, masterhost,
                    master_repl_offset, disk>> /\ HasBacklog(n)
    BY <1>8 DEF ResizeBacklog, idVars
  <2>2. backlog' = [backlog EXCEPT ![n] = EmptyBacklog(master_repl_offset[n])]
    BY <1>8 DEF ResizeBacklog
  <2>3. HasBacklog(n)'
    BY Zenon, <1>0, <2>2, FreshBacklog DEF HasBacklog
  <2>4. x # n => backlog'[x] = backlog[x]
    BY Zenon, <1>0, <2>2
  <2> QED BY Zenon, <2>1, <2>3, <2>4, MovesSame DEF HasBacklog
<1>9. CASE BacklogExpire(n)
  <2>1. UNCHANGED <<master_repl_offset, disk, masterhost>> /\ NewId(n, NoId, -1)
    BY Zenon, <1>9 DEF BacklogExpire, NewHistory
  <2>2. CASE x = n
    <3>1. /\ replid'[x] = Id(x, nextid[x]) /\ nextid'[x] = nextid[x] + 1
          /\ replid2'[x] = NoId /\ second_replid_offset'[x] = -1
      BY Zenon, <1>a, <2>1, <2>2, NewIdOwn
    <3> QED BY Zenon, <2>1, <3>1 DEF Moves, PlaceMove, SecondMove, DiskMove, MasterMove
  <2>3. CASE x # n
    <3>1. /\ replid'[x] = replid[x] /\ second_replid_offset'[x] = second_replid_offset[x]
          /\ replid2'[x] = replid2[x] /\ nextid'[x] = nextid[x]
      BY ZenonT(60), <1>0, <2>1, <2>3, NewIdOther
    <3>2. backlog'[x] = backlog[x]
      BY Zenon, <1>0, <1>9, <2>3 DEF BacklogExpire
    <3> QED BY Zenon, <2>1, <3>1, <3>2, MovesSame DEF HasBacklog
  <2> QED BY <2>2, <2>3
<1>10. CASE UnsetMaster(n)
  <2>0. PICK o : o = master_repl_offset[n] + 1
    BY Zenon
  <2>1. UNCHANGED <<master_repl_offset, disk, backlog>> /\ NewId(n, replid[n], o)
    BY <1>10, <2>0 DEF UnsetMaster, PromotedId, ShiftOffset
  <2>2. CASE x = n
    <3>1. /\ replid'[x] = Id(x, nextid[x]) /\ nextid'[x] = nextid[x] + 1
          /\ replid2'[x] = replid[x] /\ second_replid_offset'[x] = o
      BY Zenon, <1>a, <2>1, <2>2, NewIdOwn
    <3> QED BY ZenonT(60), <2>0, <2>1, <2>2, <3>1 DEF Moves, PlaceMove, SecondMove, DiskMove, MasterMove
  <2>3. CASE x # n
    <3>1. /\ replid'[x] = replid[x] /\ second_replid_offset'[x] = second_replid_offset[x]
          /\ replid2'[x] = replid2[x] /\ nextid'[x] = nextid[x]
      BY ZenonT(60), <1>0, <2>1, <2>3, NewIdOther
    <3>2. masterhost'[x] = masterhost[x]
      BY <1>0, <1>10, <2>3 DEF UnsetMaster
    <3> QED BY Zenon, <2>1, <3>1, <3>2, MovesSame DEF HasBacklog
  <2> QED BY <2>2, <2>3
<1>11. ASSUME NEW h \in (Nodes \ {n}) \cup {None}, CrashRestart(n, h) PROVE Moves(x)
  <2>1. CASE x # n
    <3>1. /\ replid'[x] = replid[x] /\ second_replid_offset'[x] = second_replid_offset[x]
          /\ replid2'[x] = replid2[x] /\ nextid'[x] = nextid[x]
      BY <1>0, <1>11, <2>1 DEF CrashRestart
    <3>2. /\ masterhost'[x] = masterhost[x] /\ disk'[x] = disk[x] /\ backlog'[x] = backlog[x]
          /\ master_repl_offset'[x] = master_repl_offset[x]
      BY <1>0, <1>11, <2>1 DEF CrashRestart
    <3> QED BY Zenon, <3>1, <3>2, MovesSame DEF HasBacklog
  <2>2. CASE x = n
    <3>1. /\ nextid'[x] = nextid[x] + 1 /\ disk'[x] = disk[x] /\ masterhost'[x] = h
          /\ replid2'[x] = NoId /\ second_replid_offset'[x] = -1
      BY <1>0, <1>11, <2>2 DEF CrashRestart
    <3>2. CASE RestoresId(h, disk[n])
      <4>1. disk[x].info /\ h # None
        BY Zenon, <2>2, <3>2 DEF RestoresId
      <4>2. replid'[x] = disk[x].replid /\ master_repl_offset'[x] = disk[x].offset
        BY Zenon, <1>0, <1>11, <2>2, <3>2 DEF CrashRestart
      <4> QED BY Zenon, <3>1, <4>1, <4>2 DEF Moves, PlaceMove, SecondMove, DiskMove, MasterMove
    <3>3. CASE ~ RestoresId(h, disk[n])
      <4>1. replid'[x] = Id(x, nextid[x])
        BY Zenon, <1>0, <1>11, <2>2, <3>3 DEF CrashRestart
      <4> QED BY Zenon, <3>1, <4>1 DEF Moves, PlaceMove, SecondMove, DiskMove, MasterMove
    <3> QED BY <3>2, <3>3
  <2> QED BY <2>1, <2>2
<1> QED BY Zenon, <1>1, <1>2, <1>3, <1>4, <1>5, <1>6, <1>7, <1>8, <1>9, <1>10, <1>11 DEF Step

-----------------------------------------------------------------------------
(* Histories that are ready for a step.                                    *)

\* What is already known of the state after a step.
Fits == TypeInv /\ LinkInv /\ ChanInv /\ RoleInv /\ OffsetInv /\ OnlineInv

\* The facts about instance x that the proofs below start from.
LEMMA Here ==
    ASSUME Base, NEW x \in Nodes
    PROVE  /\ KnownOk(x) /\ RoleOk(x) /\ OffsetOk(x) /\ LinkOk(x) /\ AheadOk(x)
           /\ master_repl_offset[x] \in Nat /\ second_replid_offset[x] \in Int
           /\ disk[x].info => disk[x].offset \in Nat
           /\ Flowing(x) => End(x) \in Nat
<1>1. disk[x].info => disk[x].offset \in Nat
  BY Zenon DEF Base, OffsetInv, OffsetOk
<1> QED BY Zenon, <1>1, NumTypes, FlowTypes DEF Base, KnownInv, RoleInv, OffsetInv, LinkInv, AheadInv

\* Histories that agree with all instances before a step of n, and have the place the
\* step leads to: the one after a write of a master; the same places under a new ID after
\* a promotion; the place where a backlog starts; the place a master without backlog
\* takes for its own when it becomes a replica.
Ready(H, n) ==
    /\ \A x \in Nodes : Agrees(H, x)
    /\ Write(n) /\ HasBacklog(n) => \A o \in Nat :
           o = master_repl_offset[n] + 1 => H[replid[n]][o] = data'[n]
    /\ UnsetMaster(n) => \A o \in Nat : H[Id(n, nextid[n])][o] = H[replid[n]][o]
    /\ SyncCommand(n) => \A m \in Nodes : SyncFull(n, m) /\ NeedsBacklog(m) =>
           H[Id(m, nextid[m])][master_repl_offset[m]] = data[m]
    /\ masterhost[n] = None /\ ~ HasBacklog(n) /\ (\E h \in Nodes \ {n} : SetMaster(n, h)) =>
           H[replid[n]][master_repl_offset[n]] = data[n]

\* The first message is the write after the place of a connected replica.
LEMMA NextWrite ==
    ASSUME Base, NEW n \in Nodes, Apply(n)
    PROVE  /\ StreamId(n) = replid[n] /\ StreamOff(n) = master_repl_offset[n] /\ Flowing(n)
           /\ master_repl_offset[n] + 1 <= End(n) /\ End(n) \in Nat
           /\ \A o \in Int : o = master_repl_offset[n] + 1 => Cmd(n, o) = Head(chan[n]).w
<1>0. repl_state[n] = "connected" /\ chan[n] # <<>>
  BY Zenon DEF Apply
<1>1. StreamId(n) = replid[n] /\ StreamOff(n) = master_repl_offset[n] /\ Flowing(n) /\ Skip(n) = 0
  BY Zenon, <1>0 DEF StreamId, StreamOff, Flowing, Skip
<1>2. PICK c \in Seq(Messages) : c = chan[n]
  BY Shapes DEF Base
<1>3. PICK s \in Nat : s = master_repl_offset[n]
  BY NumTypes DEF Base
<1>4. PICK l \in Nat : l = Len(c) /\ l >= 1 /\ Head(c) = c[1]
  BY <1>0, <1>2
<1>5. End(n) = s + l - 0
  BY Zenon, <1>1, <1>2, <1>3, <1>4 DEF End
<1>6. s + 1 <= s + l - 0 /\ s + l - 0 \in Nat
  BY <1>4
<1>7. ASSUME NEW o \in Int, o = s + 1 PROVE Cmd(n, o) = Head(c).w
  <2>1. o - s + 0 = 1
    BY <1>7
  <2> QED BY Zenon, <1>1, <1>2, <1>3, <1>4, <2>1 DEF Cmd
<1> QED BY Zenon, <1>1, <1>2, <1>3, <1>5, <1>6, <1>7

\* A write leads to the place after it.
LEMMA FeedAgrees ==
    ASSUME Base, NEW n \in Nodes, NEW w \in Nat, Feeds(n, w), Write(n) \/ Apply(n),
           HasBacklog(n), NEW H \in Histories, Ready(H, n)
    PROVE  \A o \in Nat : o = master_repl_offset[n] + 1 =>
               /\ H[replid[n]][o] = data'[n] /\ data'[n] = Append(data[n], w)
               /\ H[replid[n]][master_repl_offset[n]] = data[n]
<1>0. data \in [Nodes -> Seq(Nat)] /\ PlaceAgrees(H, n) /\ StreamAgrees(H, n)
  BY Zenon, Shapes DEF Base, Ready, Agrees
<1>1. data'[n] = Append(data[n], w)
  BY Zenon, <1>0 DEF Feeds
<1>2. H[replid[n]][master_repl_offset[n]] = data[n]
  BY Zenon, <1>0 DEF PlaceAgrees, Placed
<1>3. CASE Write(n)
  BY Zenon, <1>1, <1>2, <1>3 DEF Ready
<1>4. CASE Apply(n)
  <2>1. PICK s \in Nat : s = master_repl_offset[n]
    BY NumTypes DEF Base
  <2>2. PICK p \in Nat : p = s + 1
    OBVIOUS
  <2>3. PICK e \in Nat : e = End(n) /\ p <= e
    BY ZenonT(60), <1>4, <2>1, <2>2, NextWrite
  <2>4. w = Head(chan[n]).w /\ Cmd(n, p) = w
    <3>1. w = Head(chan[n]).w
      BY Zenon, <1>4 DEF Feeds
    <3>2. \A o \in Int : o = master_repl_offset[n] + 1 => Cmd(n, o) = Head(chan[n]).w
      BY Zenon, <1>4, NextWrite
    <3>3. p \in Int /\ p = master_repl_offset[n] + 1
      BY <2>1, <2>2
    <3> QED BY Zenon, <3>1, <3>2, <3>3
  <2>5. StreamId(n) = replid[n] /\ StreamOff(n) = s /\ Flowing(n)
    BY Zenon, <1>4, <2>1, NextWrite
  <2>6. p \in s + 1 .. e /\ p - 1 = s
    BY <2>2, <2>3
  <2>7. H[replid[n]][p] = Append(H[replid[n]][p - 1], Cmd(n, p))
    BY Zenon, <1>0, <2>3, <2>5, <2>6 DEF StreamAgrees
  <2>8. H[replid[n]][p] = Append(data[n], w)
    BY Zenon, <1>2, <2>1, <2>4, <2>6, <2>7
  <2> QED BY Zenon, <1>1, <1>2, <2>1, <2>2, <2>8
<1> QED BY <1>3, <1>4
=============================================================================
