------------------------ MODULE PsyncStreams_proofs -------------------------
(***************************************************************************)
(* The stream of writes on its way to a replica. A step either leaves the  *)
(* stream of an instance as it is, or it is one of the few the lemmas      *)
(* name: it grows by a write, is read, starts over with a +CONTINUE or a   *)
(* +FULLRESYNC, or ends. From this follow the parts of the invariant about *)
(* what is on its way, about the replicas that are fed, and about the IDs  *)
(* and offsets that others know.                                           *)
(***************************************************************************)
EXTENDS PsyncTypes_proofs

USE SMTT(30), ZenonT(30)

-----------------------------------------------------------------------------
(* What is on its way.                                                     *)

\* Adding a write to what is on its way.
HasOneMore(c, w, d) ==
    /\ d # <<>> /\ Len(d) = Len(c) + 1
    /\ \A i \in 1 .. Len(c) : d[i] = c[i]
    /\ d[Len(c) + 1].t = "cmd" /\ d[Len(c) + 1].w = w
    /\ c # <<>> => Head(d) = Head(c)
    /\ c = <<>> => Head(d).t = "cmd"

\* Appending a write command does so.
LEMMA GrownSeq ==
    ASSUME NEW c \in Seq(Messages), NEW w \in Nat, NEW d, d = Append(c, [t |-> "cmd", w |-> w])
    PROVE  HasOneMore(c, w, d)
<1>1. PICK m \in Messages : m = [t |-> "cmd", w |-> w]
  BY MessageKinds
<1>2. m.t = "cmd" /\ m.w = w
  BY <1>1
<1>3. d = Append(c, m)
  BY <1>1
<1> HIDE <1>1
<1>4. d # <<>> /\ Len(d) = Len(c) + 1 /\ d[Len(c) + 1] = m /\ Head(d) = d[1]
      /\ \A i \in 1 .. Len(c) : d[i] = c[i]
  BY <1>3
<1>5. c # <<>> => Head(c) = c[1] /\ 1 \in 1 .. Len(c)
  OBVIOUS
<1>6. c = <<>> => Len(c) = 0
  OBVIOUS
<1> QED BY <1>2, <1>4, <1>5, <1>6 DEF HasOneMore

\* What is on its way to x when nothing of it changes, and when all of it is dropped.
LEMMA ChanSame ==
    ASSUME Base, NEW x \in Nodes,
           repl_state'[x] = repl_state[x], chan'[x] = chan[x],
           master[x] # NoMaster => master'[x] # NoMaster
    PROVE  ChanOk(x)'
BY DEF Base, ChanInv, ChanOk, Resumes, Reloads

\* Dropping all that was on its way leaves an empty channel, which is in order.
LEMMA ChanDropped ==
    ASSUME NEW x \in Nodes, repl_state'[x] \in {"none", "connect"}, chan'[x] = <<>>
    PROVE  ChanOk(x)'
BY DEF ChanOk, Resumes, Reloads

\* When its master feeds x one more write.
LEMMA ChanGrows ==
    ASSUME Base, NEW x \in Nodes, NEW w \in Nat, Flowing(x),
           repl_state'[x] = repl_state[x], master'[x] = master[x],
           chan'[x] = Append(chan[x], [t |-> "cmd", w |-> w])
    PROVE  ChanOk(x)'
<1>1. ChanOk(x) /\ chan[x] \in Seq(Messages)
  BY Shapes DEF Base, ChanInv
<1>2. PICK c \in Seq(Messages) : c = chan[x]
  BY <1>1
<1>3. PICK d : d = Append(c, [t |-> "cmd", w |-> w]) /\ d = chan'[x]
  BY <1>2
<1>0. HasOneMore(c, w, d)
  BY Zenon, <1>3, GrownSeq
<1>4. /\ d # <<>> /\ Len(d) = Len(c) + 1
      /\ \A i \in 1 .. Len(c) : d[i] = c[i]
      /\ d[Len(c) + 1].t = "cmd" /\ d[Len(c) + 1].w = w
      /\ c # <<>> => Head(d) = Head(c)
      /\ c = <<>> => Head(d).t = "cmd"
  BY <1>0 DEF HasOneMore
<1>5. \A i \in 1 .. Len(d) : i > 1 \/ repl_state[x] = "connected" => d[i].t = "cmd"
  <2> SUFFICES ASSUME NEW i \in 1 .. Len(d), i > 1 \/ repl_state[x] = "connected"
               PROVE  d[i].t = "cmd"
    OBVIOUS
  <2>1. Len(c) \in Nat
    OBVIOUS
  <2>2. i \in 1 .. Len(c) \/ i = Len(c) + 1
    BY <1>4, <2>1
  <2> QED BY <1>1, <1>2, <1>4, <2>2 DEF ChanOk
<1>6. repl_state[x] # "connected" => c # <<>>
  BY <1>2 DEF Flowing, Resumes, Reloads
<1>7. repl_state[x] = "connected" => d[1].t = "cmd" /\ Head(d) = d[1]
  <2>1. 1 \in 1 .. Len(d) /\ Head(d) = d[1]
    BY <1>3, <1>4
  <2> QED BY <1>5, <2>1
<1>8. repl_state[x] # "connected" => Head(d) = Head(c)
  BY <1>4, <1>6
<1> QED BY <1>1, <1>2, <1>3, <1>4, <1>5, <1>6, <1>7, <1>8 DEF ChanOk, Flowing, Resumes, Reloads

\* When x reads the first message and is connected from then on.
LEMMA ChanRead ==
    ASSUME Base, NEW x \in Nodes, chan[x] # <<>>,
           repl_state'[x] = "connected", chan'[x] = Tail(chan[x])
    PROVE  ChanOk(x)'
<1>1. ChanOk(x) /\ chan[x] \in Seq(Messages)
  BY Shapes DEF Base, ChanInv
<1>2. PICK c \in Seq(Messages) : c = chan[x]
  BY <1>1
<1>3. PICK d \in Seq(Messages) : d = chan'[x]
  BY Zenon, <1>2, HeadTail
<1>4. /\ Len(c) \in Nat /\ Len(c) >= 1 /\ Len(d) = Len(c) - 1
      /\ \A i \in 1 .. Len(c) - 1 : d[i] = c[i + 1]
  BY <1>2, <1>3, HeadTail
<1>5. ASSUME NEW i \in 1 .. Len(d) PROVE d[i].t = "cmd"
  <2>1. i \in 1 .. Len(c) - 1 /\ i + 1 \in 1 .. Len(c) /\ i + 1 > 1
    BY <1>4
  <2>2. d[i] = c[i + 1]
    BY <1>4, <2>1
  <2> QED BY Zenon, <1>1, <1>2, <2>1, <2>2 DEF ChanOk
<1>6. d # <<>> => Head(d).t = "cmd"
  <2>1. d # <<>> => 1 \in 1 .. Len(d) /\ Head(d) = d[1]
    OBVIOUS
  <2> QED BY <1>5, <2>1
<1> QED BY <1>3, <1>5, <1>6 DEF ChanOk, Reloads, Resumes

\* The answer of a master that accepts a partial resynchronisation: +CONTINUE, then writes.
ContinuationSent(n, m, d) ==
    /\ chan' = [chan EXCEPT ![n] = d] /\ chan'[n] = d
    /\ d # <<>> /\ Head(d) = [t |-> "cont", replid |-> replid[m]]
    /\ Head(d) = d[1] /\ Head(d).t = "cont" /\ Head(d).replid = replid[m]
    /\ Len(d) = master_repl_offset[m] + 2 - req[n].offset
    /\ \A i \in 2 .. Len(d) :
           /\ d[i].t = "cmd"
           /\ d[i].w = backlog[m].items[req[n].offset - backlog[m].off + i - 1]

\* A partial resynchronisation (addReplyReplicationBacklog) sends a continuation.
LEMMA Continued ==
    ASSUME Base, NEW n \in Nodes, NEW m \in Nodes, m = masterhost[n],
           SyncCommand(n), SyncPartial(n, m)
    PROVE  \E d \in Seq(Messages) : ContinuationSent(n, m, d)
<1>1. /\ req[n].offset \in Int /\ HasBacklog(m) /\ req[n].offset >= backlog[m].off
      /\ req[n].offset <= backlog[m].off + Len(backlog[m].items)
  BY Types DEF Base, SyncPartial, InBacklog
<1>2. PICK off \in Int : off = req[n].offset
  BY <1>1
<1>3. PICK c \in Seq(Messages) : c = Continuation(m, off)
  BY <1>1, <1>2, ContinuationType
<1>4. PICK e \in Nat : e = master_repl_offset[m]
  BY Zenon, NumTypes DEF Base
<1>5. PICK k \in Nat, its \in Seq(Nat) :
          backlog[m] = [off |-> k, items |-> its] /\ backlog[m].off = k /\ backlog[m].items = its
  BY BacklogFields DEF Base
<1>6. /\ Len(c) = e + 1 - off
      /\ \A i \in 1 .. e + 1 - off : c[i] = [t |-> "cmd", w |-> its[off - k + i]]
  BY ZenonT(60), <1>1, <1>2, <1>3, <1>4, <1>5, ContinuationType
<1>7. PICK a \in Messages : a = [t |-> "cont", replid |-> replid[m]]
  BY Zenon, MessageKinds, Shapes DEF Base
<1>8. chan[n] = <<>> /\ chan \in [Nodes -> Seq(Messages)]
  BY Shapes DEF SyncCommand, Base, LinkInv, LinkOk
<1>9. PICK d \in Seq(Messages) : d = <<>> \o <<a>> \o c
  <2>1. <<>> \o <<a>> \o c \in Seq(Messages)
    OBVIOUS
  <2> QED BY Zenon, <2>1
<1>10. chan' = [chan EXCEPT ![n] = d] /\ chan'[n] = d
  BY Zenon, <1>2, <1>3, <1>7, <1>8, <1>9 DEF SyncPartial
<1>11. /\ d # <<>> /\ Len(d) = Len(c) + 1 /\ d[1] = a /\ Head(d) = d[1]
       /\ \A i \in 1 .. Len(c) : d[i + 1] = c[i]
  BY <1>9
<1>12. a.t = "cont" /\ a.replid = replid[m]
  BY <1>7
<1>13. Len(d) = e + 2 - off
  BY <1>6, <1>11
<1>14. ASSUME NEW i \in 2 .. Len(d)
       PROVE  d[i].t = "cmd" /\ d[i].w = its[off - k + i - 1]
  <2>1. PICK j \in 1 .. Len(c) : j = i - 1
    BY <1>11
  <2>2. j \in 1 .. e + 1 - off /\ i = j + 1 /\ off - k + i - 1 = off - k + j
    BY <1>6, <2>1
  <2>3. d[i] = [t |-> "cmd", w |-> its[off - k + j]]
    BY Zenon, <1>6, <1>11, <2>2
  <2>4. d[i].t = "cmd" /\ d[i].w = its[off - k + j]
    BY <2>3
  <2> QED BY <2>2, <2>4
<1>15. /\ Head(d) = [t |-> "cont", replid |-> replid[m]]
       /\ Head(d) = d[1] /\ Head(d).t = "cont" /\ Head(d).replid = replid[m]
  BY Zenon, <1>7, <1>11, <1>12
<1>16. /\ Len(d) = master_repl_offset[m] + 2 - req[n].offset
       /\ \A i \in 2 .. Len(d) : /\ d[i].t = "cmd"
              /\ d[i].w = backlog[m].items[req[n].offset - backlog[m].off + i - 1]
  BY Zenon, <1>2, <1>4, <1>5, <1>13, <1>14
<1>17. d # <<>>
  BY Zenon, <1>11
<1> QED BY Zenon, <1>10, <1>15, <1>16, <1>17 DEF ContinuationSent

\* The replicas that wait for a BGSAVE of m.
Waiting(m) == {n \in Slaves(m) : slave[n] = "wait"}

\* The answer of a BGSAVE: +FULLRESYNC and the file.
FileSent(m) ==
    /\ \A n \in Waiting(m) :
          /\ n \in Nodes /\ masterhost[n] = m /\ slave[n] = "wait" /\ slave'[n] = "online"
          /\ chan[n] = <<>> /\ repl_state[n] = "psync" /\ n # m
          /\ chan'[n] # <<>> /\ Len(chan'[n]) = 1
          /\ chan'[n][1] = Head(chan'[n]) /\ Head(chan'[n]).t = "full"
          /\ Head(chan'[n]).rdb = Snapshot(m)
    /\ \A n \in Nodes \ Waiting(m) : chan'[n] = chan[n] /\ slave'[n] = slave[n]
    /\ Snapshot(m).data = data[m] /\ Snapshot(m).replid = replid[m]
    /\ Snapshot(m).offset = master_repl_offset[m] /\ Snapshot(m).info = TRUE

\* startBgsaveForReplication sends a file to those who wait.
LEMMA Snapshotted ==
    ASSUME Base, NEW m \in Nodes, StartBgsave(m), SavesInfo(m)
    PROVE  FileSent(m)
<1>2. /\ slave' = [n \in Nodes |-> IF n \in Waiting(m) THEN "online" ELSE slave[n]]
      /\ chan' = [n \in Nodes |-> IF n \in Waiting(m)
                    THEN Append(chan[n], [t |-> "full", rdb |-> Snapshot(m)]) ELSE chan[n]]
  BY DEF StartBgsave, Waiting
<1>3. \A n \in Waiting(m) : /\ n \in Nodes /\ masterhost[n] = m /\ slave[n] = "wait"
                   /\ chan[n] = <<>> /\ repl_state[n] = "psync" /\ n # m
  BY DEF Slaves, Base, LinkInv, LinkOk, Waiting
<1>4. PICK s \in RdbFile : s = Snapshot(m)
  BY SnapshotType DEF Base
<1>5. PICK f \in Messages : f = [t |-> "full", rdb |-> s]
  BY Zenon, MessageKinds
<1>6. f.t = "full" /\ f.rdb = s
  BY <1>5
<1>7. \A n \in Waiting(m) : chan'[n] = Append(<<>>, f)
  BY Zenon, <1>2, <1>3, <1>4, <1>5
<1>8. Append(<<>>, f) # <<>> /\ Len(Append(<<>>, f)) = 1 /\ Append(<<>>, f)[1] = f
      /\ Head(Append(<<>>, f)) = f
  <2>1. <<>> \in Seq(Messages)
    OBVIOUS
  <2>2. /\ Append(<<>>, f) \in Seq(Messages) /\ Len(Append(<<>>, f)) = 1
        /\ Append(<<>>, f)[1] = f
    BY <2>1
  <2> QED BY <2>2
<1>9. /\ Snapshot(m).data = data[m] /\ Snapshot(m).replid = replid[m]
      /\ Snapshot(m).offset = master_repl_offset[m] /\ Snapshot(m).info = TRUE
  BY DEF Snapshot
<1>10. \A n \in Waiting(m) :
                    /\ chan'[n] # <<>> /\ Len(chan'[n]) = 1
                    /\ chan'[n][1] = Head(chan'[n]) /\ Head(chan'[n]).t = "full"
                    /\ Head(chan'[n]).rdb = Snapshot(m)
  BY Zenon, <1>4, <1>6, <1>7, <1>8
<1>11. \A n \in Nodes \ Waiting(m) : chan'[n] = chan[n] /\ slave'[n] = slave[n]
  BY <1>2
<1>12. \A n \in Waiting(m) : slave'[n] = "online"
  BY <1>2, <1>3
<1> QED BY Zenon, <1>3, <1>9, <1>10, <1>11, <1>12 DEF FileSent

\* What is on its way stays well formed.
LEMMA ChanStep ==
    ASSUME Base, NEW n \in Nodes, Step(n)
    PROVE  ChanInv'
<1> SUFFICES ASSUME NEW x \in Nodes PROVE ChanOk(x)'
  BY DEF ChanInv
<1>0. /\ LinkOk(x) /\ LinkOk(n) /\ ChanOk(x) /\ RoleOk(x) /\ n \in Nodes
      /\ repl_state \in [Nodes -> States] /\ chan \in [Nodes -> Seq(Messages)]
      /\ master \in [Nodes -> Clients]
  BY Zenon, Shapes DEF Base, LinkInv, ChanInv, RoleInv
<1>1. CASE Connect(n)
  <2>1. CASE x = n
    <3>1. chan'[x] = <<>> /\ repl_state'[x] = "psync"
      BY <1>0, <1>1, <2>1 DEF Connect, LinkOk
    <3> QED BY <3>1 DEF ChanOk, Resumes, Reloads
  <2>2. CASE x # n
    BY Zenon, <1>0, <1>1, <2>2, ChanSame DEF Connect
  <2> QED BY <2>1, <2>2
<1>2. CASE SyncCommand(n)
  <2>0. PICK m \in Nodes : m = masterhost[n]
    BY <1>2, Shapes DEF Base, SyncCommand, LinkInv, LinkOk
  <2>1. CASE x = n
    <3>1. CASE SyncRefused(n, m)
      <4>1. chan'[x] = Append(<<>>, [t |-> "err"]) /\ repl_state'[x] = "psync"
        BY Zenon, <1>0, <1>2, <2>1, <3>1 DEF SyncCommand, SyncRefused, LinkOk
      <4>2. PICK e \in Messages : e = [t |-> "err"]
        BY MessageKinds
      <4>3. Append(<<>>, e) = <<e>> /\ Len(<<e>>) = 1 /\ Head(<<e>>) = e
        OBVIOUS
      <4>4. e.t = "err"
        BY <4>2
      <4>5. chan'[x] = <<[t |-> "err"]>> /\ Len(chan'[x]) = 1 /\ Head(chan'[x]).t = "err"
        BY Zenon, <4>1, <4>2, <4>3, <4>4
      <4> QED BY <4>1, <4>5 DEF ChanOk, Resumes, Reloads
    <3>2. CASE SyncPartial(n, m)
      <4>1. PICK d \in Seq(Messages) : ContinuationSent(n, m, d)
        BY <1>2, <2>0, <3>2, Continued
      <4>2. master[n] # NoMaster
        <5>1. req[n] = PsyncRequest(n) /\ InBacklog(m, req[n])
          BY Zenon, <1>0, <1>2, <2>1, <3>2 DEF RoleOk, SyncCommand, SyncPartial
        <5>2. ASSUME master[n] = NoMaster PROVE FALSE
          <6>1. req[n].offset = -1
            BY <5>1, <5>2 DEF PsyncRequest
          <6>2. backlog[m].off \in Nat /\ req[n].offset >= backlog[m].off
            BY Zenon, <5>1, Types DEF InBacklog, Base
          <6> QED BY <6>1, <6>2
        <5> QED BY <5>2
      <4>3. repl_state' = repl_state /\ repl_state[n] = "psync" /\ master' = master
        BY <1>0, <1>2 DEF SyncCommand, LinkOk
      <4>4. \A i \in 1 .. Len(d) : i > 1 => i \in 2 .. Len(d)
        OBVIOUS
      <4>5. \A i \in 1 .. Len(d) : i > 1 => d[i].t = "cmd"
        BY Zenon, <4>1, <4>4 DEF ContinuationSent
      <4>6. chan'[n] = d /\ d # <<>> /\ Head(d).t = "cont"
        BY Zenon, <4>1 DEF ContinuationSent
      <4> QED BY Zenon, <2>1, <4>2, <4>3, <4>5, <4>6 DEF ChanOk, Resumes, Reloads
    <3>3. CASE SyncFull(n, m)
      BY Zenon, <1>2, <2>1, <3>3, ChanSame DEF SyncCommand, SyncFull
    <3> QED BY Zenon, <1>2, <2>0, <3>1, <3>2, <3>3 DEF SyncCommand
  <2>2. CASE x # n
    BY Zenon, <1>0, <1>2, <2>2, ChanSame DEF SyncCommand, SyncRefused, SyncPartial, SyncFull
  <2> QED BY Zenon, <2>1, <2>2
<1>3. CASE StartBgsave(n)
  <2>0. repl_state' = repl_state /\ master' = master
    BY <1>3 DEF StartBgsave
  <2>1. CASE SavesInfo(n)
    <3>0. FileSent(n)
      BY Zenon, <1>3, <2>1, Snapshotted
    <3>1. CASE x \in Waiting(n)
      <4>1. /\ chan'[x] # <<>> /\ Len(chan'[x]) = 1 /\ repl_state[x] = "psync"
            /\ Head(chan'[x]).t = "full" /\ Head(chan'[x]).rdb.info
        BY <3>0, <3>1 DEF FileSent
      <4> QED BY <2>0, <4>1 DEF ChanOk, Resumes, Reloads
    <3>2. CASE x \notin Waiting(n)
      <4>1. chan'[x] = chan[x]
        BY <3>0, <3>2 DEF FileSent
      <4> QED BY Zenon, <2>0, <4>1, ChanSame
    <3> QED BY <3>1, <3>2
  <2>2. CASE ~ SavesInfo(n)
    BY Zenon, <1>3, <2>0, <2>2, ChanSame DEF StartBgsave
  <2> QED BY <2>1, <2>2
<1>4. CASE ContinueReply(n) \/ LoadRdb(n)
  <2>1. CASE x = n
    BY Zenon, <1>0, <1>4, <2>1, ChanRead DEF ContinueReply, LoadRdb
  <2>2. CASE x # n
    <3>1. repl_state'[x] = repl_state[x] /\ chan'[x] = chan[x] /\ master'[x] = master[x]
      BY Zenon, <1>0, <1>4, <2>2 DEF ContinueReply, LoadRdb
    <3> QED BY Zenon, <3>1, ChanSame
  <2> QED BY <2>1, <2>2
<1>5. CASE FullResyncReply(n)
  <2>1. CASE x = n
    <3>1. \/ chan' = chan /\ repl_state'[x] = "transfer"
          \/ chan'[x] = <<>> /\ repl_state'[x] = "connect"
      BY Zenon, <1>0, <1>5, <2>1 DEF FullResyncReply, Unread
    <3>2. chan[x] # <<>> /\ Head(chan[x]).t = "full"
      BY <1>5, <2>1 DEF FullResyncReply
    <3> QED BY <1>0, <3>1, <3>2 DEF ChanOk, Resumes, Reloads
  <2>2. CASE x # n
    BY Zenon, <1>0, <1>5, <2>2, ChanSame DEF FullResyncReply, Unread
  <2> QED BY <2>1, <2>2
<1>6. CASE ErrorReply(n) \/ LoadRdbFails(n) \/ LinkLost(n)
  <2>1. CASE x = n
    BY Zenon, <1>0, <1>6, <2>1, ChanDropped DEF ErrorReply, LoadRdbFails, LinkLost, Unread
  <2>2. CASE x # n
    BY Zenon, <1>0, <1>6, <2>2, ChanSame DEF ErrorReply, LoadRdbFails, LinkLost, Unread
  <2> QED BY <2>1, <2>2
<1>7. CASE Write(n) \/ Apply(n)
  <2>0. PICK w \in Nat : Feeds(n, w)
    BY Zenon, <1>7, Feeding
  <2>1. x # n => master'[x] = master[x]
    BY <1>0, <1>7 DEF Write, Apply
  <2>2. CASE x \in Fed(n)
    BY Zenon, <2>0, <2>1, <2>2, FedFlowing, ChanGrows DEF Feeds
  <2>3. CASE x \notin Fed(n) /\ x # n
    BY Zenon, <2>0, <2>1, <2>3, ChanSame DEF Feeds
  <2>4. CASE x = n /\ Write(n)
    BY Zenon, <2>0, <2>4, ChanSame DEF Write, Feeds
  <2>5. CASE x = n /\ Apply(n)
    <3>1. ~ Write(n) /\ repl_state[n] = "connected" /\ chan[n] # <<>>
      BY <1>0, <2>5 DEF Write, Apply, LinkOk
    <3> QED BY Zenon, <2>0, <2>5, <3>1, ChanRead DEF Feeds
  <2> QED BY Zenon, <1>7, <2>2, <2>3, <2>4, <2>5
<1>8. CASE DropSlave(n) \/ BacklogExpire(n) \/ ResizeBacklog(n) \/ SaveRdb(n)
  BY Zenon, <1>8, ChanSame DEF DropSlave, BacklogExpire, ResizeBacklog, SaveRdb, linkVars
<1>9. CASE (\E h \in Nodes \ {n} : SetMaster(n, h)) \/ UnsetMaster(n)
           \/ (\E h \in (Nodes \ {n}) \cup {None} : CrashRestart(n, h))
  <2>1. CASE x = n
    BY Zenon, <1>0, <1>9, <2>1, ChanDropped DEF SetMaster, UnsetMaster, CrashRestart, Unread
  <2>2. CASE x # n
    BY ZenonT(60), <1>0, <1>9, <2>2, ChanSame DEF SetMaster, UnsetMaster, CrashRestart, Unread
  <2> QED BY <2>1, <2>2
<1> QED BY Zenon, <1>1, <1>2, <1>3, <1>4, <1>5, <1>6, <1>7, <1>8, <1>9 DEF Step

-----------------------------------------------------------------------------
(* How a stream changes in a step.                                         *)

\* The stream of x stays as it is.
StreamKept(x) ==
    /\ Resumes(x)' = Resumes(x) /\ Reloads(x)' = Reloads(x) /\ Flowing(x)' = Flowing(x)
    /\ StreamId(x)' = StreamId(x) /\ StreamOff(x)' = StreamOff(x) /\ End(x)' = End(x)
    /\ \A o \in Int : Cmd(x, o)' = Cmd(x, o)
    /\ Head(chan[x])' = Head(chan[x])
    /\ replid'[x] = replid[x] /\ master_repl_offset'[x] = master_repl_offset[x]

\* It does when neither what is on its way nor the place of x changes.
LEMMA KeepStream ==
    ASSUME Base, NEW x \in Nodes, chan'[x] = chan[x], replid'[x] = replid[x],
           master_repl_offset'[x] = master_repl_offset[x],
           repl_state'[x] = "connected" => repl_state[x] = "connected",
           repl_state[x] = "connected" => repl_state'[x] = "connected"
    PROVE  StreamKept(x)
<1>1. Resumes(x)' = Resumes(x) /\ Reloads(x)' = Reloads(x)
  BY Zenon DEF Resumes, Reloads
<1>2. (repl_state'[x] = "connected") = (repl_state[x] = "connected")
  BY Zenon
<1>3. Flowing(x)' = Flowing(x) /\ Skip(x)' = Skip(x)
  BY Zenon, <1>1, <1>2 DEF Flowing, Skip
<1>4. StreamId(x)' = StreamId(x) /\ StreamOff(x)' = StreamOff(x)
  BY <1>1, <1>2 DEF StreamId, StreamOff
<1>5. End(x)' = End(x)
  BY <1>3, <1>4 DEF End
<1>6. \A o \in Int : Cmd(x, o)' = Cmd(x, o)
  BY <1>3, <1>4 DEF Cmd
<1> QED BY Zenon, <1>1, <1>3, <1>4, <1>5, <1>6 DEF StreamKept

\* The stream of x ends.
LEMMA CutStream ==
    ASSUME NEW x \in Nodes, chan'[x] = <<>>, repl_state'[x] # "connected"
    PROVE  ~ Flowing(x)' /\ ~ Resumes(x)' /\ ~ Reloads(x)'
BY DEF Flowing, Resumes, Reloads

\* The stream of x grows by write w.
StreamGrown(x, w) ==
    /\ Resumes(x)' = Resumes(x) /\ Reloads(x)' = Reloads(x) /\ Flowing(x)'
    /\ StreamId(x)' = StreamId(x) /\ StreamOff(x)' = StreamOff(x) /\ End(x)' = End(x) + 1
    /\ \A o \in StreamOff(x) + 1 .. End(x) : Cmd(x, o)' = Cmd(x, o)
    /\ \A o \in Int : o = End(x) + 1 => Cmd(x, o)' = w
    /\ Reloads(x) => Head(chan[x])' = Head(chan[x])
    /\ replid'[x] = replid[x] /\ master_repl_offset'[x] = master_repl_offset[x]

\* It does when the master sends one more write.
LEMMA GrowStream ==
    ASSUME Base, NEW x \in Nodes, NEW w \in Nat, Flowing(x),
           chan'[x] = Append(chan[x], [t |-> "cmd", w |-> w]),
           replid'[x] = replid[x], master_repl_offset'[x] = master_repl_offset[x],
           repl_state'[x] = repl_state[x]
    PROVE  StreamGrown(x, w)
<1>0. chan[x] \in Seq(Messages) /\ ChanOk(x)
  BY Zenon, Shapes DEF Base, ChanInv
<1>1. PICK c \in Seq(Messages) : c = chan[x]
  BY Zenon, <1>0
<1>2. PICK d : d = chan'[x] /\ d = Append(c, [t |-> "cmd", w |-> w])
  BY <1>1
<1>21. HasOneMore(c, w, d)
  BY Zenon, <1>2, GrownSeq
<1>3. /\ d # <<>> /\ Len(d) = Len(c) + 1
      /\ \A i \in 1 .. Len(c) : d[i] = c[i]
      /\ d[Len(c) + 1].t = "cmd" /\ d[Len(c) + 1].w = w
      /\ c # <<>> => Head(d) = Head(c)
      /\ c = <<>> => Head(d).t = "cmd"
  BY <1>21 DEF HasOneMore
<1>4. c = <<>> => repl_state[x] = "connected"
  BY <1>1 DEF Flowing, Resumes, Reloads
<1>5. (c # <<>> => Head(d) = Head(c)) /\ (c = <<>> => Head(d).t = "cmd") /\ d # <<>>
  BY Zenon, <1>3
<1>6. Resumes(x)' = Resumes(x) /\ Reloads(x)' = Reloads(x)
      /\ (Reloads(x) => Head(chan[x])' = Head(chan[x]))
      /\ (Resumes(x) => Head(chan[x])' = Head(chan[x]))
  BY Zenon, <1>1, <1>2, <1>5 DEF Resumes, Reloads
<1>7. Flowing(x)' /\ Skip(x)' = Skip(x)
  BY <1>6 DEF Flowing, Skip
<1>8. StreamId(x)' = StreamId(x) /\ StreamOff(x)' = StreamOff(x)
  BY Zenon, <1>6 DEF StreamId, StreamOff, Flowing
<1>9. PICK s \in Nat : s = StreamOff(x)
  BY Zenon, FlowTypes
<1>10. PICK l \in Nat : l = Len(c)
  OBVIOUS
<1>11. PICK k \in {0, 1} : k = Skip(x)
  BY Zenon, FlowTypes
<1>12. PICK e \in Nat : e = End(x) /\ e = s + l - k
  BY Zenon, <1>1, <1>9, <1>10, <1>11, FlowTypes
<1>13. Len(chan'[x]) = l + 1
  BY Zenon, <1>2, <1>3, <1>10
<1>14. End(x)' = s + (l + 1) - k
  BY Zenon, <1>7, <1>8, <1>9, <1>11, <1>13 DEF End
<1>15. End(x)' = e + 1
  BY <1>12, <1>14
<1>16. ASSUME NEW o \in s + 1 .. e PROVE Cmd(x, o)' = Cmd(x, o)
  <2>1. PICK i \in 1 .. l : i = o - s + k
    BY <1>12
  <2>2. d[i] = c[i]
    BY <1>3, <1>10
  <2>3. Cmd(x, o)' = d[i].w /\ Cmd(x, o) = c[i].w
    BY Zenon, <1>1, <1>2, <1>7, <1>8, <1>9, <1>11, <2>1 DEF Cmd
  <2> QED BY <2>2, <2>3
<1>17. ASSUME NEW o \in Int, o = e + 1 PROVE Cmd(x, o)' = w
  <2>1. o - s + k = l + 1
    BY <1>12, <1>17
  <2>2. Cmd(x, o)' = d[o - s + k].w
    BY Zenon, <1>2, <1>7, <1>8, <1>9, <1>11 DEF Cmd
  <2> QED BY Zenon, <1>3, <1>10, <2>1, <2>2
<1> QED BY Zenon, <1>6, <1>7, <1>8, <1>9, <1>12, <1>15, <1>16, <1>17 DEF StreamGrown

\* A partial resynchronisation of n with m makes a stream that goes on where n is, with
\* the writes of m's backlog after that.
StreamResumed(n, m) ==
    /\ m = masterhost[n] /\ master[n] # NoMaster /\ slave'[n] = "online"
    /\ UNCHANGED <<replid, master_repl_offset>>
    /\ \/ replid[n] = replid[m]
       \/ replid[n] = replid2[m] /\ master_repl_offset[n] < second_replid_offset[m]
    /\ HasBacklog(m) /\ backlog[m].off <= master_repl_offset[n] + 1
    /\ master_repl_offset[n] <= master_repl_offset[m]
    /\ Flowing(n)' /\ Resumes(n)' /\ ~ Reloads(n)'
    /\ StreamId(n)' = replid[m] /\ StreamOff(n)' = master_repl_offset[n]
    /\ End(n)' = master_repl_offset[m]
    /\ \A o \in Int : master_repl_offset[n] < o /\ o <= master_repl_offset[m] =>
           Cmd(n, o)' = backlog[m].items[o - backlog[m].off + 1]

\* That is what the answer of m amounts to.
LEMMA ResumeStream ==
    ASSUME Base, NEW n \in Nodes, NEW m \in Nodes, m = masterhost[n],
           SyncCommand(n), SyncPartial(n, m)
    PROVE  StreamResumed(n, m)
<1>0. /\ LinkOk(n) /\ RoleOk(n) /\ OffsetOk(n) /\ OffsetOk(m)
      /\ master_repl_offset[n] \in Nat /\ master_repl_offset[m] \in Nat
      /\ slave \in [Nodes -> {"none", "wait", "online"}]
  BY Shapes DEF Base, LinkInv, RoleInv, OffsetInv
<1>1. PICK d \in Seq(Messages) : ContinuationSent(n, m, d)
  BY Zenon, Continued
<1>2. PICK s \in Nat : s = master_repl_offset[n]
  BY <1>0
<1>3. PICK e \in Nat : e = master_repl_offset[m]
  BY <1>0
<1>40. PICK b \in Nat, its \in Seq(Nat) :
           backlog[m] = [off |-> b, items |-> its] /\ backlog[m].off = b /\ backlog[m].items = its
  BY Zenon, BacklogFields DEF Base
<1>4. b = backlog[m].off
  BY <1>40
<1>5. PICK k \in Nat : k = Len(backlog[m].items)
  BY <1>40
<1>6. req[n] = PsyncRequest(n) /\ HasBacklog(m) /\ req[n].offset >= b /\ req[n].offset <= b + k
  BY Zenon, <1>0, <1>4, <1>5 DEF RoleOk, SyncCommand, SyncPartial, InBacklog
<1>7. master[n] # NoMaster
  <2>1. ASSUME master[n] = NoMaster PROVE req[n].offset = -1
    BY <1>6, <2>1 DEF PsyncRequest
  <2> QED BY <1>6, <2>1
<1>8. req[n].offset = s + 1 /\ req[n].replid = replid[n]
  BY <1>0, <1>2, <1>6, <1>7 DEF PsyncRequest, OffsetOk
<1>9. b + k = e + 1
  BY Zenon, <1>0, <1>3, <1>4, <1>5, <1>6 DEF OffsetOk
<1>10. b <= s + 1 /\ s <= e
  BY <1>6, <1>8, <1>9
<1>11. second_replid_offset[m] \in Int
  BY Zenon, NumTypes DEF Base
<1>12. \/ replid[n] = replid[m]
       \/ replid[n] = replid2[m] /\ s + 1 <= second_replid_offset[m]
  <2>1. SameHistory(m, req[n])
    BY Zenon DEF SyncPartial
  <2>2. \/ req[n].replid = replid[m]
        \/ req[n].replid = replid2[m] /\ req[n].offset <= second_replid_offset[m]
    BY Zenon, <2>1 DEF SameHistory
  <2> QED BY Zenon, <1>8, <2>2
<1>13. \/ replid[n] = replid[m]
       \/ replid[n] = replid2[m] /\ s < second_replid_offset[m]
  BY <1>11, <1>12
<1>14. repl_state'[n] = "psync" /\ UNCHANGED <<masterhost, master_repl_offset, replid>>
       /\ slave'[n] = "online"
  BY Zenon, <1>0 DEF SyncCommand, SyncPartial, LinkOk, idVars
<1>15. chan'[n] = d /\ d # <<>> /\ Head(d).t = "cont" /\ Head(d).replid = replid[m]
  BY Zenon, <1>1 DEF ContinuationSent
<1>16. Resumes(n)' /\ ~ Reloads(n)' /\ Flowing(n)' /\ Skip(n)' = 1
  BY <1>14, <1>15 DEF Resumes, Reloads, Flowing, Skip
<1>17. StreamId(n)' = replid[m] /\ StreamOff(n)' = s
  BY Zenon, <1>2, <1>14, <1>15, <1>16 DEF StreamId, StreamOff
<1>18. Len(d) = e + 2 - (s + 1)
  BY Zenon, <1>1, <1>3, <1>8 DEF ContinuationSent
<1>19. End(n)' = s + (e + 2 - (s + 1)) - 1
  BY Zenon, <1>15, <1>16, <1>17, <1>18 DEF End
<1>20. End(n)' = e
  BY <1>19
<1>21. ASSUME NEW o \in Int, s < o, o <= e
       PROVE  Cmd(n, o)' = backlog[m].items[o - b + 1]
  <2>1. PICK i \in 2 .. Len(d) : i = o - s + 1
    BY <1>18, <1>21
  <2>2. (s + 1) - b + i - 1 = o - b + 1
    BY <2>1
  <2>3. d[i].w = backlog[m].items[(s + 1) - b + i - 1]
    BY Zenon, <1>1, <1>4, <1>8 DEF ContinuationSent
  <2>4. Cmd(n, o)' = d[i].w
    BY Zenon, <1>15, <1>16, <1>17, <2>1 DEF Cmd
  <2> QED BY Zenon, <2>2, <2>3, <2>4
<1> QED BY ZenonT(60), <1>2, <1>3, <1>4, <1>6, <1>7, <1>10, <1>13, <1>14, <1>16, <1>17, <1>20, <1>21
        DEF StreamResumed

\* A BGSAVE of m makes a stream to x that starts, and for now ends, where m is.
StreamReloaded(x, m) ==
    /\ m = masterhost[x] /\ slave'[x] = "online" /\ x # m
    /\ Flowing(x)' /\ ~ Resumes(x)' /\ Reloads(x)'
    /\ StreamId(x)' = replid[m] /\ StreamOff(x)' = master_repl_offset[m]
    /\ End(x)' = master_repl_offset[m] /\ Head(chan[x])'.rdb.data = data[m]
    /\ SavesInfo(m)

\* For every replica that waited.
LEMMA ReloadStream ==
    ASSUME Base, NEW m \in Nodes, StartBgsave(m), SavesInfo(m), NEW x \in Waiting(m)
    PROVE  StreamReloaded(x, m)
<1>0. FileSent(m)
  BY Snapshotted
<1>1. /\ x \in Nodes /\ masterhost[x] = m /\ slave'[x] = "online" /\ repl_state[x] = "psync"
      /\ x # m /\ chan'[x] # <<>> /\ Len(chan'[x]) = 1 /\ Head(chan'[x]).t = "full"
      /\ Head(chan'[x]).rdb = Snapshot(m)
  BY Zenon, <1>0 DEF FileSent
<1>2. Snapshot(m).data = data[m] /\ Snapshot(m).replid = replid[m]
      /\ Snapshot(m).offset = master_repl_offset[m]
  BY Zenon, SnapshotFields
<1>3. repl_state' = repl_state
  BY DEF StartBgsave
<1>4. Reloads(x)' /\ ~ Resumes(x)' /\ Flowing(x)' /\ Skip(x)' = 1
  BY <1>1, <1>3 DEF Resumes, Reloads, Flowing, Skip
<1>5. StreamId(x)' = replid[m] /\ StreamOff(x)' = master_repl_offset[m]
  BY Zenon, <1>1, <1>2, <1>3, <1>4 DEF StreamId, StreamOff
<1>6. PICK e \in Nat : e = master_repl_offset[m]
  BY Zenon, Shapes DEF Base
<1>7. End(x)' = e + 1 - 1
  BY Zenon, <1>1, <1>4, <1>5, <1>6 DEF End
<1>8. End(x)' = e
  BY <1>7
<1> QED BY ZenonT(60), <1>1, <1>2, <1>4, <1>5, <1>6, <1>8 DEF StreamReloaded

\* All that a step of n can do to the stream of x: leave it, end it, add a write, read
\* from it, resume it, or start it with a file.
StreamEnded(x) == ~ Flowing(x)' /\ ~ Resumes(x)' /\ ~ Reloads(x)'

\* What a step of n does to the stream of x.
StreamChange(n, x) ==
    \/ StreamKept(x)
    \/ StreamEnded(x)
    \/ /\ x \in Fed(n) /\ (Write(n) \/ Apply(n))
       /\ \E w \in Nat : Feeds(n, w) /\ StreamGrown(x, w)
    \/ x = n /\ (ContinueReply(n) \/ LoadRdb(n) \/ Apply(n)) /\ StreamRead(n)
    \/ x = n /\ SyncCommand(n) /\ \E m \in Nodes : SyncPartial(n, m) /\ StreamResumed(n, m)
    \/ x \in Waiting(n) /\ StartBgsave(n) /\ SavesInfo(n) /\ StreamReloaded(x, n)

\* Every step does one of these to every stream.
LEMMA StreamStep ==
    ASSUME Base, ChanInv', NEW n \in Nodes, Step(n), NEW x \in Nodes
    PROVE  StreamChange(n, x)
<1>0. /\ LinkOk(x) /\ LinkOk(n) /\ RoleOk(x) /\ n \in Nodes
      /\ repl_state \in [Nodes -> States] /\ chan \in [Nodes -> Seq(Messages)]
      /\ replid \in [Nodes -> Ids] /\ master_repl_offset \in [Nodes -> Nat] /\ TypeInv
  BY Zenon, Shapes DEF Base, LinkInv, RoleInv
<1>1. CASE Connect(n) \/ DropSlave(n) \/ ResizeBacklog(n) \/ SaveRdb(n)
  <2>1. /\ UNCHANGED <<chan, replid, master_repl_offset>>
        /\ (repl_state'[x] = "connected") = (repl_state[x] = "connected")
    BY <1>0, <1>1 DEF Connect, DropSlave, ResizeBacklog, SaveRdb, idVars, linkVars
  <2> QED BY ZenonT(60), <2>1, KeepStream DEF StreamChange
<1>2. CASE SyncCommand(n)
  <2>0. PICK m \in Nodes :
             /\ m = masterhost[n] /\ (m # n \/ SyncRefused(n, m))
             /\ \/ SyncRefused(n, m) \/ SyncPartial(n, m)
                \/ SyncFull(n, m) /\ NeedsBacklog(m)
                \/ SyncFull(n, m) /\ HasBacklog(m) /\ ~ NeedsBacklog(m)
    BY Zenon, <1>2, SyncMaster
  <2>1. UNCHANGED <<repl_state, master_repl_offset>> /\ repl_state[n] = "psync" /\ chan[n] = <<>>
    BY Zenon, <1>0, <1>2 DEF SyncCommand, LinkOk
  <2>2. CASE x # n /\ replid'[x] = replid[x]
    <3>1. chan'[x] = chan[x]
      BY Zenon, <1>0, <2>0, <2>2 DEF SyncRefused, SyncPartial, SyncFull
    <3> QED BY Zenon, <2>1, <2>2, <3>1, KeepStream DEF StreamChange
  <2>3. CASE x = n /\ SyncRefused(n, m)
    <3>1. PICK e \in Messages : e = [t |-> "err"]
      BY Zenon, MessageKinds
    <3>2. chan'[n] = Append(<<>>, e)
      BY Zenon, <1>0, <2>1, <2>3, <3>1 DEF SyncRefused
    <3>3. Head(Append(<<>>, e)) = e /\ e.t = "err"
      BY <3>1
    <3>4. Head(chan'[n]).t = "err"
      BY Zenon, <3>2, <3>3
    <3> QED BY Zenon, <2>1, <2>3, <3>4 DEF StreamChange, StreamEnded, Flowing, Resumes, Reloads
  <2>4. CASE x = n /\ SyncPartial(n, m)
    BY Zenon, <1>2, <2>0, <2>4, ResumeStream DEF StreamChange
  <2>5. CASE x = n /\ SyncFull(n, m)
    <3>1. chan'[x] = <<>>
      BY Zenon, <2>1, <2>5 DEF SyncFull
    <3> QED BY Zenon, <2>1, <2>5, <3>1, CutStream DEF StreamChange, StreamEnded
  <2>6. CASE replid'[x] # replid[x]
    <3>1. SyncFull(n, m) /\ NeedsBacklog(m)
      BY Zenon, <2>0, <2>6 DEF SyncRefused, SyncPartial, SyncFull, idVars
    <3>2. NewId(m, NoId, -1) /\ masterhost[m] = None
      BY Zenon, <3>1, FirstBacklog
    <3>3. x = m
      BY Zenon, <1>0, <2>6, <3>2, NewIdEffect
    <3>4. chan'[x] = <<>> /\ repl_state'[x] = "none"
      BY ZenonT(60), <2>1, <3>1, <3>2, <3>3, MasterStream DEF SyncFull
    <3> QED BY Zenon, <3>4, CutStream DEF StreamChange, StreamEnded
  <2> QED BY Zenon, <2>0, <2>2, <2>3, <2>4, <2>5, <2>6
<1>3. CASE StartBgsave(n)
  <2>0. UNCHANGED <<repl_state, replid, master_repl_offset>>
    BY <1>3 DEF StartBgsave, idVars
  <2>1. CASE SavesInfo(n) /\ x \in Waiting(n)
    BY <1>3, <2>1, ReloadStream DEF StreamChange
  <2>2. CASE ~ (SavesInfo(n) /\ x \in Waiting(n))
    <3>1. chan'[x] = chan[x]
      <4>1. CASE SavesInfo(n)
        <5>1. FileSent(n) /\ x \in Nodes \ Waiting(n)
          BY Zenon, <1>3, <2>2, <4>1, Snapshotted
        <5> QED BY Zenon, <5>1 DEF FileSent
      <4>2. CASE ~ SavesInfo(n)
        BY Zenon, <1>3, <4>2 DEF StartBgsave
      <4> QED BY <4>1, <4>2
    <3> QED BY Zenon, <2>0, <3>1, KeepStream DEF StreamChange
  <2> QED BY Zenon, <2>1, <2>2
<1>4. CASE ContinueReply(n) \/ LoadRdb(n)
  <2>1. CASE x = n
    BY Zenon, <1>4, <2>1, Reading DEF StreamChange
  <2>2. CASE x # n
    <3>1. /\ chan'[x] = chan[x] /\ replid'[x] = replid[x]
          /\ master_repl_offset'[x] = master_repl_offset[x] /\ repl_state'[x] = repl_state[x]
      BY Zenon, <1>0, <1>4, <2>2 DEF ContinueReply, LoadRdb
    <3> QED BY Zenon, <3>1, KeepStream DEF StreamChange
  <2> QED BY Zenon, <2>1, <2>2
<1>5. CASE FullResyncReply(n)
  <2>1. /\ UNCHANGED <<replid, master_repl_offset>>
        /\ \/ chan'[x] = chan[x] /\ (repl_state'[x] = "connected") = (repl_state[x] = "connected")
           \/ chan'[x] = <<>> /\ repl_state'[x] = "connect"
    BY <1>0, <1>5 DEF FullResyncReply, idVars, Unread
  <2>2. CASE chan'[x] = chan[x] /\ (repl_state'[x] = "connected") = (repl_state[x] = "connected")
    BY Zenon, <2>1, <2>2, KeepStream DEF StreamChange
  <2>3. CASE chan'[x] = <<>> /\ repl_state'[x] = "connect"
    BY Zenon, <2>3, CutStream DEF StreamChange, StreamEnded
  <2> QED BY ZenonT(60), <2>1, <2>2, <2>3
<1>6. CASE ErrorReply(n) \/ LoadRdbFails(n) \/ LinkLost(n)
           \/ (\E h \in Nodes \ {n} : SetMaster(n, h)) \/ UnsetMaster(n)
           \/ (\E h \in (Nodes \ {n}) \cup {None} : CrashRestart(n, h))
  <2>1. CASE x = n
    <3>1. chan'[x] = <<>> /\ repl_state'[x] # "connected"
      BY Zenon, <1>0, <1>6, <2>1
         DEF ErrorReply, LoadRdbFails, LinkLost, SetMaster, UnsetMaster, CrashRestart, Unread
    <3> QED BY Zenon, <3>1, CutStream DEF StreamChange, StreamEnded
  <2>2. CASE x # n
    <3>1. chan'[x] = chan[x] /\ repl_state'[x] = repl_state[x]
          /\ master_repl_offset'[x] = master_repl_offset[x]
      BY ZenonT(60), <1>0, <1>6, <2>2
         DEF ErrorReply, LoadRdbFails, LinkLost, SetMaster, UnsetMaster, CrashRestart, Unread
    <3>2. replid'[x] = replid[x]
      BY ZenonT(60), <1>0, <1>6, <2>2
         DEF ErrorReply, LoadRdbFails, LinkLost, SetMaster, UnsetMaster, PromotedId, NewId,
             CrashRestart, idVars
    <3> QED BY Zenon, <3>1, <3>2, KeepStream DEF StreamChange
  <2> QED BY <2>1, <2>2
<1>7. CASE Write(n) \/ Apply(n)
  <2>0. PICK w \in Nat : Feeds(n, w)
    BY Zenon, <1>7, Feeding
  <2>1. BacklogFed(n, w)
    BY <1>0, <2>0, BacklogIsFed DEF Feeds
  <2>2. UNCHANGED <<repl_state, replid>>
    BY Zenon, <2>0 DEF Feeds, idVars
  <2>3. x # n => master_repl_offset'[x] = master_repl_offset[x]
    BY Zenon, <2>1 DEF BacklogFed
  <2>4. CASE x \in Fed(n)
    <3>1. x # n /\ Flowing(x) /\ chan'[x] = Append(chan[x], [t |-> "cmd", w |-> w])
      BY Zenon, <2>0, <2>4, FedFlowing DEF Feeds
    <3>2. StreamGrown(x, w)
      BY Zenon, <2>2, <2>3, <3>1, GrowStream
    <3> QED BY Zenon, <1>7, <2>0, <2>4, <3>2 DEF StreamChange
  <2>5. CASE x \notin Fed(n) /\ x # n
    <3>1. chan'[x] = chan[x]
      BY Zenon, <2>0, <2>5 DEF Feeds
    <3> QED BY ZenonT(60), <2>2, <2>3, <2>5, <3>1, KeepStream DEF StreamChange
  <2>6. CASE x = n /\ Write(n)
    <3>1. chan'[x] = <<>> /\ repl_state'[x] = "none"
      BY ZenonT(60), <2>0, <2>2, <2>6, MasterStream DEF Feeds, Write
    <3> QED BY Zenon, <3>1, CutStream DEF StreamChange, StreamEnded
  <2>7. CASE x = n /\ Apply(n)
    BY Zenon, <2>7, Reading DEF StreamChange
  <2> QED BY Zenon, <1>7, <2>4, <2>5, <2>6, <2>7
<1>8. CASE BacklogExpire(n)
  <2>1. UNCHANGED <<repl_state, master_repl_offset, chan>> /\ masterhost[n] = None
        /\ NewId(n, NoId, -1)
    BY <1>8 DEF BacklogExpire, linkVars, NewHistory
  <2>2. CASE x = n
    BY Zenon, <2>1, <2>2, MasterStream, CutStream DEF StreamChange, StreamEnded
  <2>3. CASE x # n
    BY ZenonT(60), <1>0, <2>1, <2>3, NewIdOther, KeepStream DEF StreamChange
  <2> QED BY <2>2, <2>3
<1> QED BY ZenonT(60), <1>1, <1>2, <1>3, <1>4, <1>5, <1>6, <1>7, <1>8 DEF Step

-----------------------------------------------------------------------------
(* The replicas that are fed.                                              *)

\* A replica attached to a master.
LEMMA Attached ==
    ASSUME Base, NEW x \in Nodes, slave[x] # "none"
    PROVE  /\ masterhost[x] \in Nodes /\ masterhost[x] # x /\ HasBacklog(masterhost[x])
           /\ link[x] = "open" /\ repl_state[x] \notin {"none", "connect"} /\ req[x] = NoReq
           /\ x \in Slaves(masterhost[x])
<1>1. LinkOk(x) /\ RoleOk(x) /\ masterhost \in [Nodes -> Nodes \cup {None}]
      /\ repl_state \in [Nodes -> States]
  BY Shapes DEF Base, LinkInv, RoleInv
<1> QED BY Zenon, <1>1 DEF LinkOk, RoleOk, Slaves

\* A replica whose stream the step keeps or reads stays where its master stays.
LEMMA OnlineSame ==
    ASSUME Base, NEW x \in Nodes, NEW k \in Nodes, slave[x] = "online",
           masterhost[x] = k, masterhost'[x] = k, replid'[k] = replid[k],
           master_repl_offset'[k] = master_repl_offset[k], StreamKept(x) \/ StreamRead(x)
    PROVE  OnlineOk(x)'
<1>1. Flowing(x) /\ StreamId(x) = replid[k] /\ End(x) = master_repl_offset[k]
  BY Zenon DEF Base, OnlineInv, OnlineOk
<1> QED BY Zenon, <1>1 DEF OnlineOk, StreamKept, StreamRead

\* Steps that move nobody's place and only drop replicas.
LEMMA OnlineKept ==
    ASSUME Base, NEW x \in Nodes, slave'[x] = "online", slave[x] = "online",
           masterhost'[x] = masterhost[x], chan'[x] = chan[x],
           replid'[x] = replid[x], master_repl_offset'[x] = master_repl_offset[x],
           (repl_state'[x] = "connected") = (repl_state[x] = "connected"),
           replid'[masterhost[x]] = replid[masterhost[x]],
           master_repl_offset'[masterhost[x]] = master_repl_offset[masterhost[x]]
    PROVE  OnlineOk(x)'
<1>1. StreamKept(x)
  BY Zenon, KeepStream
<1>2. PICK k \in Nodes : k = masterhost[x]
  BY Zenon, Attached
<1> QED BY Zenon, <1>1, <1>2, OnlineSame

\* A replica that is fed stays in step with its master.
LEMMA OnlineStep ==
    ASSUME Base, ChanInv', NEW n \in Nodes, Step(n)
    PROVE  OnlineInv'
<1> SUFFICES ASSUME NEW x \in Nodes, slave'[x] = "online" PROVE OnlineOk(x)'
  BY Zenon DEF OnlineInv, OnlineOk
<1>0. /\ LinkOk(x) /\ LinkOk(n) /\ RoleOk(x) /\ RoleOk(n) /\ n \in Nodes
      /\ repl_state \in [Nodes -> States] /\ chan \in [Nodes -> Seq(Messages)]
      /\ masterhost \in [Nodes -> Nodes \cup {None}]
      /\ slave \in [Nodes -> {"none", "wait", "online"}]
      /\ link \in [Nodes -> {"down", "open", "eof"}]
      /\ replid \in [Nodes -> Ids] /\ master_repl_offset \in [Nodes -> Nat] /\ TypeInv /\ None \notin Nodes
  BY Zenon, Shapes DEF Base, LinkInv, RoleInv
<1>1. CASE Connect(n) \/ DropSlave(n) \/ ResizeBacklog(n) \/ SaveRdb(n)
  <2>1. /\ UNCHANGED <<chan, replid, master_repl_offset, masterhost>>
        /\ (repl_state'[x] = "connected") = (repl_state[x] = "connected")
    BY <1>0, <1>1 DEF Connect, DropSlave, ResizeBacklog, SaveRdb, idVars, linkVars
  <2>2. slave[x] = "online"
    BY Zenon, <1>0, <1>1 DEF Connect, DropSlave, ResizeBacklog, SaveRdb, linkVars, CloseLinks
  <2> QED BY ZenonT(60), <2>1, <2>2, OnlineKept
<1>2. CASE SyncCommand(n)
  <2>0. PICK m \in Nodes :
             /\ m = masterhost[n] /\ (m # n \/ SyncRefused(n, m))
             /\ \/ SyncRefused(n, m) \/ SyncPartial(n, m)
                \/ SyncFull(n, m) /\ NeedsBacklog(m)
                \/ SyncFull(n, m) /\ HasBacklog(m) /\ ~ NeedsBacklog(m)
    BY Zenon, <1>2, SyncMaster
  <2>1. UNCHANGED <<repl_state, master_repl_offset, masterhost>> /\ slave[n] = "none"
    BY Zenon, <1>0, <1>2 DEF SyncCommand, LinkOk
  <2>2. CASE x = n
    <3>1. SyncPartial(n, m)
      BY Zenon, <1>0, <2>0, <2>1, <2>2 DEF SyncRefused, SyncFull
    <3>2. StreamResumed(n, m) /\ UNCHANGED replid
      BY Zenon, <1>2, <2>0, <3>1, ResumeStream DEF SyncPartial, idVars
    <3> QED BY Zenon, <2>1, <2>2, <3>2 DEF OnlineOk, StreamResumed
  <2>3. CASE x # n
    <3>1. slave[x] = "online" /\ chan'[x] = chan[x]
      <4>1. slave'[x] = slave[x]
        BY Zenon, <1>0, <2>0, <2>3 DEF SyncRefused, SyncPartial, SyncFull
      <4>2. chan'[x] = chan[x]
        BY ZenonT(60), <1>0, <2>0, <2>3 DEF SyncRefused, SyncPartial, SyncFull
      <4> QED BY Zenon, <4>1, <4>2
    <3>2. PICK k \in Nodes : k = masterhost[x] /\ x \in Slaves(k) /\ masterhost[x] # None
      BY <1>0, <3>1, Attached
    <3>3. replid'[x] = replid[x] /\ replid'[k] = replid[k]
      <4>1. CASE SyncFull(n, m) /\ NeedsBacklog(m)
        <5>1. NewId(m, NoId, -1) /\ masterhost[m] = None
          BY Zenon, <4>1, FirstBacklog
        <5>2. x # m /\ k # m
          BY Zenon, <3>2, <4>1, <5>1 DEF NeedsBacklog
        <5> QED BY Zenon, <1>0, <5>1, <5>2, NewIdOther
      <4>2. CASE ~ (SyncFull(n, m) /\ NeedsBacklog(m))
        BY Zenon, <2>0, <4>2 DEF SyncRefused, SyncPartial, SyncFull, idVars
      <4> QED BY ZenonT(60), <4>1, <4>2
    <3> QED BY ZenonT(60), <2>1, <3>1, <3>2, <3>3, OnlineKept
  <2> QED BY <2>2, <2>3
<1>3. CASE StartBgsave(n)
  <2>0. UNCHANGED <<repl_state, replid, master_repl_offset, masterhost>>
    BY <1>3 DEF StartBgsave, idVars
  <2>1. CASE SavesInfo(n) /\ x \in Waiting(n)
    <3>1. StreamReloaded(x, n)
      BY Zenon, <1>3, <2>1, ReloadStream
    <3> QED BY Zenon, <2>0, <3>1 DEF OnlineOk, StreamReloaded
  <2>2. CASE SavesInfo(n) /\ x \notin Waiting(n)
    <3>1. FileSent(n) /\ x \in Nodes \ Waiting(n)
      BY Zenon, <1>3, <2>2, Snapshotted
    <3>2. chan'[x] = chan[x] /\ slave[x] = "online"
      BY Zenon, <3>1 DEF FileSent
    <3> QED BY Zenon, <2>0, <3>2, OnlineKept
  <2>3. CASE ~ SavesInfo(n)
    <3>1. chan'[x] = chan[x] /\ slave[x] = "online"
      BY ZenonT(60), <1>0, <1>3, <2>3 DEF StartBgsave, CloseLinks
    <3> QED BY <2>0, <3>1, OnlineKept
  <2> QED BY Zenon, <2>1, <2>2, <2>3
<1>4. CASE ContinueReply(n)
  <2>0. masterhost' = masterhost /\ master_repl_offset' = master_repl_offset
    BY Zenon, <1>4 DEF ContinueReply
  <2>1. /\ slave[x] = "online"
        /\ Head(chan[n]).replid # master[n].replid => x \notin Slaves(n)
    BY Zenon, <1>0, <1>4 DEF ContinueReply, CloseLinks
  <2>2. PICK k \in Nodes : k = masterhost[x] /\ x \in Slaves(k) /\ k # x
    BY Zenon, <2>1, Attached
  <2>3. replid'[k] = replid[k] /\ (x # n => replid'[x] = replid[x])
    BY Zenon, <1>0, <1>4, <2>1, <2>2 DEF ContinueReply
  <2>4. CASE x = n
    BY ZenonT(60), <1>4, <2>0, <2>1, <2>2, <2>3, <2>4, Reading, OnlineSame
  <2>5. CASE x # n
    <3>1. chan'[x] = chan[x] /\ repl_state'[x] = repl_state[x]
      BY ZenonT(60), <1>0, <1>4, <2>5 DEF ContinueReply
    <3> QED BY ZenonT(60), <2>0, <2>1, <2>2, <2>3, <2>5, <3>1, OnlineKept
  <2> QED BY <2>4, <2>5
<1>5. CASE LoadRdb(n)
  <2>0. masterhost' = masterhost /\ slave[x] = "online"
    BY Zenon, <1>0, <1>5 DEF LoadRdb
  <2>1. PICK k \in Nodes : k = masterhost[x] /\ x \in Slaves(k) /\ k # x /\ HasBacklog(k)
    BY Zenon, <2>0, Attached
  <2>2. k # n
    BY Zenon, <1>0, <1>5, <2>1 DEF LoadRdb, RoleOk
  <2>3. replid'[k] = replid[k] /\ master_repl_offset'[k] = master_repl_offset[k]
    BY Zenon, <1>0, <1>5, <2>2 DEF LoadRdb
  <2>4. CASE x = n
    BY ZenonT(60), <1>5, <2>0, <2>1, <2>3, <2>4, Reading, OnlineSame
  <2>5. CASE x # n
    <3>1. /\ chan'[x] = chan[x] /\ repl_state'[x] = repl_state[x] /\ replid'[x] = replid[x]
          /\ master_repl_offset'[x] = master_repl_offset[x]
      BY Zenon, <1>0, <1>5, <2>5 DEF LoadRdb
    <3> QED BY ZenonT(60), <2>0, <2>1, <2>3, <3>1, OnlineKept
  <2> QED BY <2>4, <2>5
<1>6. CASE FullResyncReply(n) \/ ErrorReply(n) \/ LoadRdbFails(n) \/ LinkLost(n)
           \/ (\E h \in Nodes \ {n} : SetMaster(n, h))
  <2>1. UNCHANGED <<replid, master_repl_offset>>
    BY Zenon, <1>6 DEF FullResyncReply, ErrorReply, LoadRdbFails, LinkLost, SetMaster, idVars
  <2>2. slave[x] = "online"
    <3>1. \E down, eof : CloseLinks(down, eof)
      BY Zenon, <1>6 DEF FullResyncReply, ErrorReply, LoadRdbFails, LinkLost, SetMaster
    <3> QED BY Zenon, <1>0, <3>1 DEF CloseLinks
  <2>3. CASE x # n
    <3>1. chan'[x] = chan[x] /\ repl_state'[x] = repl_state[x] /\ masterhost'[x] = masterhost[x]
      BY ZenonT(60), <1>0, <1>6, <2>3
         DEF FullResyncReply, ErrorReply, LoadRdbFails, LinkLost, SetMaster, Unread
    <3> QED BY Zenon, <2>1, <2>2, <3>1, OnlineKept
  <2>4. CASE x = n
    <3>1. FullResyncReply(n) /\ chan'[x] = chan[x] /\ repl_state'[x] = "transfer"
      BY Zenon, <1>0, <1>6, <2>4
         DEF FullResyncReply, ErrorReply, LoadRdbFails, LinkLost, SetMaster, CloseLinks
    <3>2. repl_state[x] = "psync" /\ masterhost' = masterhost
      BY Zenon, <2>4, <3>1 DEF FullResyncReply
    <3> QED BY Zenon, <2>1, <2>2, <3>1, <3>2, OnlineKept
  <2> QED BY Zenon, <2>3, <2>4
<1>7. CASE Write(n) \/ Apply(n)
  <2>0. PICK w \in Nat : Feeds(n, w)
    BY Zenon, <1>7, Feeding
  <2>1. BacklogFed(n, w)
    BY Zenon, <1>0, <2>0, BacklogIsFed DEF Feeds
  <2>2. UNCHANGED <<repl_state, replid, masterhost, slave>>
    BY Zenon, <2>0 DEF Feeds, idVars
  <2>3. \A y \in Nodes : y # n => master_repl_offset'[y] = master_repl_offset[y]
    BY Zenon, <2>1 DEF BacklogFed
  <2>4. PICK k \in Nodes : k = masterhost[x] /\ k # x /\ HasBacklog(k)
    BY Zenon, <2>2, Attached
  <2>5. CASE x \in Fed(n)
    <3>1. x # n /\ Flowing(x) /\ chan'[x] = Append(chan[x], [t |-> "cmd", w |-> w]) /\ k = n
      BY Zenon, <2>0, <2>4, <2>5, FedFlowing DEF Feeds
    <3>2. StreamGrown(x, w)
      BY Zenon, <2>2, <2>3, <3>1, GrowStream
    <3>3. master_repl_offset'[n] = master_repl_offset[n] + 1
      BY Zenon, <2>1, <2>4, <3>1 DEF BacklogFed
    <3>4. StreamId(x) = replid[n] /\ End(x) = master_repl_offset[n]
      BY Zenon, <2>2, <2>4, <3>1 DEF Base, OnlineInv, OnlineOk
    <3>5. End(x)' = master_repl_offset'[n] /\ Flowing(x)' /\ StreamId(x)' = replid[n]
      BY Zenon, <3>2, <3>3, <3>4 DEF StreamGrown
    <3> QED BY Zenon, <2>2, <2>4, <3>1, <3>5 DEF OnlineOk
  <2>6. CASE x \notin Fed(n) /\ x # n
    <3>1. chan'[x] = chan[x] /\ k # n
      BY Zenon, <2>0, <2>2, <2>4, <2>6 DEF Feeds, Fed
    <3> QED BY ZenonT(60), <2>2, <2>3, <2>4, <2>6, <3>1, OnlineKept
  <2>7. CASE x = n /\ Write(n)
    BY ZenonT(60), <1>0, <2>2, <2>7, MasterStream DEF Write
  <2>8. CASE x = n /\ Apply(n)
    BY ZenonT(60), <2>2, <2>3, <2>4, <2>8, Reading, OnlineSame
  <2> QED BY Zenon, <1>7, <2>5, <2>6, <2>7, <2>8
<1>8. CASE BacklogExpire(n)
  <2>1. UNCHANGED <<repl_state, master_repl_offset, chan, slave, masterhost>>
        /\ masterhost[n] = None /\ NewId(n, NoId, -1) /\ Slaves(n) = {}
    BY Zenon, <1>8 DEF BacklogExpire, linkVars, NewHistory
  <2>2. PICK k \in Nodes : k = masterhost[x] /\ x \in Slaves(k)
    BY Zenon, <2>1, Attached
  <2>3. k # n /\ x # n
    BY Zenon, <1>0, <2>1, <2>2
  <2>4. replid'[k] = replid[k] /\ replid'[x] = replid[x]
    BY ZenonT(60), <1>0, <2>1, <2>3, NewIdOther
  <2> QED BY Zenon, <2>1, <2>2, <2>4, OnlineKept
<1>9. CASE UnsetMaster(n) \/ (\E h \in (Nodes \ {n}) \cup {None} : CrashRestart(n, h))
  <2>1. slave[x] = "online" /\ x # n
    <3>1. CASE UnsetMaster(n)
      BY Zenon, <1>0, <3>1 DEF UnsetMaster, CloseLinks
    <3>2. CASE \E h \in (Nodes \ {n}) \cup {None} : CrashRestart(n, h)
      BY Zenon, <1>0, <3>2 DEF CrashRestart, CloseLinks
    <3> QED BY Zenon, <1>9, <3>1, <3>2
  <2>2. PICK k \in Nodes : k = masterhost[x] /\ x \in Slaves(k) /\ link[x] = "open"
    BY Zenon, <2>1, Attached
  <2>3. k # n
    BY Zenon, <1>0, <1>9, <2>2 DEF UnsetMaster, CrashRestart, CloseLinks
  <2>4. chan'[x] = chan[x] /\ repl_state'[x] = repl_state[x] /\ masterhost'[x] = masterhost[x]
    BY ZenonT(60), <1>0, <1>9, <2>1 DEF UnsetMaster, CrashRestart, Unread
  <2>5. /\ replid'[k] = replid[k] /\ replid'[x] = replid[x]
        /\ master_repl_offset'[k] = master_repl_offset[k]
        /\ master_repl_offset'[x] = master_repl_offset[x]
    BY ZenonT(60), <1>0, <1>9, <2>1, <2>3 DEF UnsetMaster, PromotedId, NewId, CrashRestart
  <2> QED BY Zenon, <2>1, <2>2, <2>4, <2>5, OnlineKept
<1> QED BY ZenonT(60), <1>1, <1>2, <1>3, <1>4, <1>5, <1>6, <1>7, <1>8, <1>9 DEF Step

-----------------------------------------------------------------------------
(* The IDs and the offsets that are known.                                 *)

\* A stream is the one that was, as far as its history and its end go, or the replica
\* is fed by its master after the step.
LEMMA StreamMove ==
    ASSUME Base, Fits', NEW n \in Nodes, Step(n), NEW x \in Nodes, Flowing(x)'
    PROVE  \/ Flowing(x) /\ StreamId(x)' = StreamId(x) /\ End(x)' = End(x)
           \/ slave'[x] = "online"
<1>1. StreamChange(n, x)
  BY Zenon, StreamStep DEF Fits
<1>2. CASE StreamKept(x)
  BY Zenon, <1>2 DEF StreamKept
<1>3. CASE StreamEnded(x)
  BY Zenon, <1>3 DEF StreamEnded
<1>4. CASE x \in Fed(n) /\ \E w \in Nat : Feeds(n, w) /\ StreamGrown(x, w)
  BY Zenon, <1>4 DEF Fed, Feeds
<1>5. CASE x = n /\ StreamRead(n)
  BY Zenon, <1>5 DEF StreamRead
<1>6. CASE x = n /\ \E m \in Nodes : StreamResumed(n, m)
  BY Zenon, <1>6 DEF StreamResumed
<1>7. CASE StreamReloaded(x, n)
  BY Zenon, <1>7 DEF StreamReloaded
<1> QED BY Zenon, <1>1, <1>2, <1>3, <1>4, <1>5, <1>6, <1>7 DEF StreamChange

\* Then it is where its master is.
LEMMA FedAfter ==
    ASSUME Fits', NEW x \in Nodes, slave'[x] = "online"
    PROVE  \E k \in Nodes : /\ k = masterhost'[x] /\ HasBacklog(k)'
                            /\ StreamId(x)' = replid'[k] /\ End(x)' = master_repl_offset'[k]
<1>1. masterhost'[x] \in Nodes
  <2>1. LinkOk(x)' /\ TypeOK'
    BY Zenon DEF Fits, TypeInv, LinkInv
  <2>2. masterhost'[x] \in Nodes \cup {None}
    BY Zenon, <2>1 DEF TypeOK
  <2>3. masterhost'[x] # None
    BY Zenon, <2>1 DEF LinkOk
  <2> QED BY Zenon, <2>2, <2>3
<1>2. PICK k \in Nodes : k = masterhost'[x]
  BY Zenon, <1>1
<1>3. HasBacklog(k)'
  BY Zenon, <1>2 DEF Fits, RoleInv, RoleOk
<1> QED BY Zenon, <1>2, <1>3 DEF Fits, OnlineInv, OnlineOk

\* An ID that is known has been drawn; the next one has not.
LEMMA NotFresh ==
    ASSUME TypeInv, NEW id, Known(id), NEW x \in Nodes
    PROVE  id # Id(x, nextid[x]) /\ id # NoId
<1>1. nextid[x] \in Nat /\ None \notin Nodes
  BY Shapes
<1>2. Id(x, nextid[x])[1] = x /\ Id(x, nextid[x])[2] = nextid[x] /\ NoId[1] = None
  BY DEF Id, NoId
<1> QED BY <1>1, <1>2 DEF Known

\* What is known stays known, and so becomes the one that is drawn.
LEMMA StaysKnown ==
    ASSUME TypeInv, NEW id \in Ids, Known(id),
           \A x \in Nodes : nextid'[x] \in {nextid[x], nextid[x] + 1}
    PROVE  Known(id)'
<1>1. PICK a \in Nodes : a = id[1]
  BY Zenon DEF Known
<1>2. id[2] \in Nat /\ nextid[a] \in Nat
  BY Zenon, Shapes DEF Ids
<1>3. id[2] < nextid[a] /\ nextid'[a] \in {nextid[a], nextid[a] + 1}
  BY Zenon, <1>1 DEF Known
<1>4. id[2] < nextid'[a]
  BY <1>2, <1>3
<1> QED BY <1>1, <1>4 DEF Known

\* An ID that is drawn is known from then on.
LEMMA BecomesKnown ==
    ASSUME TypeInv, NEW x \in Nodes, nextid'[x] = nextid[x] + 1
    PROVE  \A id : id = Id(x, nextid[x]) => Known(id)'
<1>1. PICK k \in Nat : k = nextid[x]
  BY Shapes
<1>2. Id(x, k)[1] = x /\ Id(x, k)[2] = k /\ k < k + 1
  BY DEF Id
<1> QED BY Zenon, <1>1, <1>2 DEF Known

\* Every ID in use has been drawn.
LEMMA KnownStep ==
    ASSUME Base, Fits', NEW n \in Nodes, Step(n)
    PROVE  KnownInv'
<1>0. TypeInv /\ NoId \in Ids /\ \A x \in Nodes : Moves(x)
  <2>1. NoId \in Ids
    BY Zenon DEF NoId, Ids
  <2> QED BY Zenon, <2>1, MovesStep DEF Base, Fits
<1>1. \A x \in Nodes : nextid'[x] \in {nextid[x], nextid[x] + 1}
  BY Zenon, <1>0 DEF Moves
<1>2. ASSUME NEW x \in Nodes
      PROVE  /\ KnownOk(x) /\ replid[x] \in Ids /\ replid2[x] \in Ids /\ disk[x].replid \in Ids
             /\ Flowing(x) => StreamId(x) \in Ids
             /\ PlaceMove(x) /\ SecondMove(x) /\ DiskMove(x) /\ MasterMove(x)
  BY Zenon, <1>0, Types, FlowTypes DEF Base, KnownInv, Moves
<1>3. ASSUME NEW x \in Nodes PROVE Known(replid[x])'
  <2>1. \A id : id \in Ids /\ Known(id) => Known(id)'
    BY <1>0, <1>1, StaysKnown
  <2>2. Known(replid[x]) /\ (Flowing(x) => Known(StreamId(x)))
        /\ (disk[x].info => Known(disk[x].replid))
    BY <1>2 DEF KnownOk
  <2>3. PICK id : id = replid'[x]
    BY Zenon
  <2>4. CASE id = Id(x, nextid[x]) /\ nextid'[x] = nextid[x] + 1
    BY <1>0, <2>3, <2>4, BecomesKnown
  <2>5. CASE id \in Ids /\ Known(id)
    BY <2>1, <2>3, <2>5
  <2> QED BY ZenonT(60), <1>2, <2>2, <2>3, <2>4, <2>5 DEF PlaceMove
<1> SUFFICES ASSUME NEW x \in Nodes PROVE KnownOk(x)'
  BY DEF KnownInv
<1>4. \A id : id \in Ids /\ Known(id) => Known(id)'
  BY <1>0, <1>1, StaysKnown
<1>5. Known(replid2[x])' \/ replid2'[x] = NoId
  <2>1. PICK id : id = replid2'[x]
    BY Zenon
  <2>2. id = NoId \/ (id \in Ids /\ Known(id))
    BY <1>2, <2>1 DEF KnownOk, SecondMove
  <2> QED BY <1>4, <2>1, <2>2
<1>6. disk'[x].info => Known(disk[x].replid)'
  <2>1. PICK id : id = disk'[x].replid
    BY Zenon
  <2>2. disk'[x].info => id \in Ids /\ Known(id)
    BY Zenon, <1>2, <2>1 DEF KnownOk, DiskMove
  <2> QED BY Zenon, <1>4, <2>1, <2>2
<1>7. Flowing(x)' => Known(StreamId(x))'
  <2> SUFFICES ASSUME Flowing(x)' PROVE Known(StreamId(x))'
    OBVIOUS
  <2>1. PICK id : id = StreamId(x)'
    BY Zenon
  <2>2. CASE Flowing(x) /\ StreamId(x)' = StreamId(x)
    <3>1. id \in Ids /\ Known(id)
      BY Zenon, <1>2, <2>1, <2>2 DEF KnownOk
    <3> QED BY Zenon, <1>4, <2>1, <3>1
  <2>3. CASE slave'[x] = "online"
    <3>1. PICK k \in Nodes : StreamId(x)' = replid'[k]
      BY Zenon, <2>3, FedAfter
    <3> QED BY Zenon, <1>3, <3>1
  <2> QED BY Zenon, <2>2, <2>3, StreamMove
<1>8. masterhost'[x] = None => replid'[x] = Id(x, nextid'[x] - 1)
  <2>1. PICK k \in Nat : k = nextid[x]
    BY Zenon, <1>0, Shapes
  <2>2. (k + 1) - 1 = k
    OBVIOUS
  <2> QED BY Zenon, <1>2, <2>1, <2>2 DEF MasterMove, KnownOk
<1> QED BY ZenonT(60), <1>3, <1>5, <1>6, <1>7, <1>8 DEF KnownOk

\* The ID of an instance without a backlog that nobody else knows stays so: it could
\* only be learned from that instance, that feeds nobody.
LEMMA PrivateStep ==
    ASSUME Base, Fits', NEW n \in Nodes, Step(n), NEW y \in Nodes, Private(y),
           ~ HasBacklog(y)', replid'[y] = replid[y]
    PROVE  Private(y)'
<1>1. PICK id : id = replid[y] /\ Known(id)
  BY Zenon, Here DEF KnownOk
<1>2. \A x \in Nodes : id # Id(x, nextid[x]) /\ id # NoId
  BY Zenon, <1>1, NotFresh DEF Base
<1>3. ASSUME NEW x \in Nodes, x # y
      PROVE  /\ PlaceMove(x) /\ SecondMove(x) /\ DiskMove(x)
             /\ replid[x] # id /\ replid2[x] # id /\ (disk[x].info => disk[x].replid # id)
             /\ (Flowing(x) => StreamId(x) # id)
  <2>1. Moves(x)
    BY Zenon, MovesStep DEF Fits
  <2>2. Foreign(x, id)
    BY Zenon, <1>1, <1>3 DEF Private
  <2> QED BY Zenon, <2>1, <2>2 DEF Moves, Foreign
<1>4. ASSUME NEW x \in Nodes, x # y PROVE replid'[x] # id
  BY Zenon, <1>2, <1>3, <1>4 DEF PlaceMove
<1>5. ASSUME NEW x \in Nodes, x # y PROVE Foreign(x, id)'
  <2>1. replid2'[x] # id
    BY Zenon, <1>2, <1>3, <1>5 DEF SecondMove
  <2>2. disk'[x].info => disk'[x].replid # id
    BY Zenon, <1>3, <1>5 DEF DiskMove
  <2>3. ASSUME Flowing(x)' PROVE StreamId(x)' # id
    <3>1. CASE Flowing(x) /\ StreamId(x)' = StreamId(x)
      BY Zenon, <1>3, <1>5, <3>1
    <3>2. CASE slave'[x] = "online"
      <4>1. PICK k \in Nodes : HasBacklog(k)' /\ StreamId(x)' = replid'[k]
        BY Zenon, <3>2, FedAfter
      <4>2. k # y
        BY Zenon, <4>1
      <4> QED BY Zenon, <1>4, <4>1, <4>2
    <3> QED BY Zenon, <2>3, <3>1, <3>2, StreamMove
  <2> QED BY Zenon, <1>4, <1>5, <2>1, <2>2, <2>3 DEF Foreign
<1> QED BY Zenon, <1>1, <1>5 DEF Private

\* Two masters never use the same ID.
LEMMA OwnId ==
    ASSUME Base, NEW x \in Nodes, NEW m \in Nodes, masterhost[x] = None, masterhost[m] = None,
           replid[x] = replid[m]
    PROVE  x = m
<1>1. replid[x] = Id(x, nextid[x] - 1) /\ replid[m] = Id(m, nextid[m] - 1)
  BY Here DEF KnownOk
<1>2. PICK a : a = nextid[x] - 1
  BY Zenon
<1>3. PICK b : b = nextid[m] - 1
  BY Zenon
<1>4. Id(x, a)[1] = x /\ Id(m, b)[1] = m
  BY DEF Id
<1> QED BY ZenonT(60), <1>1, <1>2, <1>3, <1>4

\* Offsets are ordered.
LEMMA LeqTrans ==
    ASSUME NEW a \in Nat, NEW b \in Nat, NEW c \in Nat, a <= b, b <= c
    PROVE  a <= c
  OBVIOUS

\* A master that keeps its ID stays ahead.
LEMMA AheadKept ==
    ASSUME Base, Fits', NEW n \in Nodes, Step(n), NEW m \in Nodes, masterhost[m] = None,
           replid'[m] = replid[m], replid2'[m] = replid2[m],
           master_repl_offset'[m] \in {master_repl_offset[m], master_repl_offset[m] + 1},
           ~ HasBacklog(m)' => ~ HasBacklog(m)
    PROVE  AheadOk(m)'
<1>1. PICK id : id = replid[m] /\ Known(id)
  BY ZenonT(60), Here DEF KnownOk
<1>2. \A x \in Nodes : id # Id(x, nextid[x]) /\ id # NoId
  BY <1>1, NotFresh DEF Base
<1>3. PICK o \in Nat : o = master_repl_offset[m]
  BY Here
<1>4. PICK p \in Nat : p = master_repl_offset'[m] /\ o <= p
  BY <1>3
<1>5. ASSUME NEW x \in Nodes
      PROVE  PlaceMove(x) /\ SecondMove(x) /\ DiskMove(x) /\ Behind(x, id, o)
  <2>1. Moves(x)
    BY Zenon, MovesStep DEF Fits
  <2>2. Behind(x, id, o)
    BY ZenonT(60), <1>1, <1>3, Here DEF AheadOk
  <2> QED BY <2>1, <2>2 DEF Moves
<1>6. ASSUME NEW x \in Nodes, replid'[x] = id PROVE master_repl_offset'[x] <= p
  <2>0. /\ master_repl_offset[x] \in Nat /\ (disk[x].info => disk[x].offset \in Nat)
        /\ (Flowing(x) => End(x) \in Nat)
    BY ZenonT(60), Here
  <2>1. CASE replid[x] = id /\ master_repl_offset'[x] = master_repl_offset[x]
    BY <1>4, <1>5, <2>0, <2>1 DEF Behind
  <2>2. CASE replid[x] = id /\ masterhost[x] = None
    <3>1. x = m
      BY ZenonT(60), <1>1, <2>2, OwnId
    <3> QED BY <1>4, <3>1
  <2>3. CASE Flowing(x) /\ StreamId(x) = id /\ master_repl_offset'[x] <= End(x)
    <3>1. End(x) <= o /\ master_repl_offset'[x] \in Nat
      BY ZenonT(60), <1>5, <2>3 DEF Behind, Fits, TypeInv, TypeOK
    <3> QED BY <1>4, <2>0, <2>3, <3>1
  <2>4. CASE disk[x].info /\ disk[x].replid = id /\ master_repl_offset'[x] = disk[x].offset
    <3>1. disk[x].offset <= o
      BY Zenon, <1>5, <2>4 DEF Behind
    <3> QED BY ZenonT(60), <1>4, <2>0, <2>4, <3>1, LeqTrans
  <2> QED BY ZenonT(60), <1>2, <1>5, <1>6, <2>1, <2>2, <2>3, <2>4 DEF PlaceMove
<1>7. ASSUME NEW x \in Nodes, replid2'[x] = id PROVE second_replid_offset'[x] <= p + 1
  <2>0. master_repl_offset[x] \in Nat /\ second_replid_offset[x] \in Int
    BY Zenon, Here
  <2>1. CASE replid2[x] = id /\ second_replid_offset'[x] = second_replid_offset[x]
    <3>1. second_replid_offset[x] <= o + 1
      BY ZenonT(60), <1>5, <2>1 DEF Behind
    <3> QED BY <1>4, <2>0, <2>1, <3>1
  <2>2. CASE replid[x] = id /\ second_replid_offset'[x] = master_repl_offset[x] + 1
    <3>1. master_repl_offset[x] <= o
      BY Zenon, <1>5, <2>2 DEF Behind
    <3> QED BY <1>4, <2>0, <2>2, <3>1
  <2> QED BY ZenonT(60), <1>2, <1>5, <1>7, <2>1, <2>2 DEF SecondMove
<1>8. ASSUME NEW x \in Nodes, disk'[x].info, disk'[x].replid = id PROVE disk'[x].offset <= p
  <2>0. /\ master_repl_offset[x] \in Nat /\ (disk[x].info => disk[x].offset \in Nat)
        /\ (Flowing(x) => End(x) \in Nat)
    BY Zenon, Here
  <2>1. CASE disk'[x] = disk[x]
    <3>1. disk[x].offset <= o
      BY ZenonT(60), <1>5, <1>8, <2>1 DEF Behind
    <3> QED BY <1>4, <1>8, <2>0, <2>1, <3>1
  <2>2. CASE replid[x] = id /\ disk'[x].offset = master_repl_offset[x]
    <3>1. master_repl_offset[x] <= o
      BY ZenonT(60), <1>5, <2>2 DEF Behind
    <3> QED BY <1>4, <2>0, <2>2, <3>1
  <2>3. CASE Flowing(x) /\ StreamId(x) = id /\ disk'[x].offset <= End(x)
    <3>1. End(x) <= o
      BY Zenon, <1>5, <2>3 DEF Behind
    <3>2. disk'[x].offset \in Nat
      BY Zenon, <1>8 DEF Fits, OffsetInv, OffsetOk
    <3> QED BY <1>4, <2>0, <2>3, <3>1, <3>2
  <2> QED BY ZenonT(60), <1>5, <1>8, <2>1, <2>2, <2>3 DEF DiskMove
<1>9. ASSUME NEW x \in Nodes, Flowing(x)', StreamId(x)' = id PROVE End(x)' <= p
  <2>1. CASE Flowing(x) /\ StreamId(x)' = StreamId(x) /\ End(x)' = End(x)
    <3>1. End(x) <= o /\ End(x) \in Nat
      BY ZenonT(60), <1>5, <1>9, <2>1, Here DEF Behind
    <3> QED BY ZenonT(60), <1>4, <2>1, <3>1, LeqTrans
  <2>2. CASE slave'[x] = "online"
    <3>1. PICK k \in Nodes : StreamId(x)' = replid'[k] /\ End(x)' = master_repl_offset'[k]
      BY Zenon, <2>2, FedAfter
    <3> QED BY ZenonT(60), <1>6, <1>9, <3>1
  <2> QED BY ZenonT(60), <1>9, <2>1, <2>2, StreamMove
<1>10. \A x \in Nodes : Behind(x, replid[m], master_repl_offset[m])'
  BY ZenonT(60), <1>1, <1>4, <1>6, <1>7, <1>8, <1>9 DEF Behind
<1>11. ASSUME ~ HasBacklog(m)'
       PROVE  /\ Private(m)' /\ replid2'[m] # replid'[m]
              /\ disk'[m].info => disk'[m].replid # replid'[m]
  <2>1. ~ HasBacklog(m)
    BY Zenon, <1>11
  <2>2. Private(m) /\ replid2[m] # replid[m] /\ (disk[m].info => disk[m].replid # replid[m])
    BY Zenon, <2>1, Here DEF AheadOk
  <2>3. Private(m)'
    BY ZenonT(60), <1>11, <2>2, PrivateStep
  <2>4. ~ SavesInfo(m)
    BY Zenon, <2>1, Here DEF SavesInfo, RoleOk
  <2>5. ~ Flowing(m)
    BY Zenon, MasterStream
  <2>6. disk'[m].info => disk'[m].replid # replid[m]
    BY ZenonT(60), <1>5, <2>2, <2>4, <2>5 DEF DiskMove
  <2> QED BY Zenon, <2>2, <2>3, <2>6
<1> QED BY <1>10, <1>11 DEF AheadOk

\* A master that drew a new ID is alone with it, but for the replicas it feeds.
LEMMA AheadFresh ==
    ASSUME Base, Fits', NEW n \in Nodes, Step(n), NEW m \in Nodes, masterhost'[m] = None,
           replid'[m] = Id(m, nextid[m]), replid2'[m] \in {NoId, replid[m]}
    PROVE  AheadOk(m)'
<1>1. PICK id : id = Id(m, nextid[m])
  BY Zenon
<1>2. PICK p \in Nat : p = master_repl_offset'[m]
  BY Zenon DEF Fits, TypeInv, TypeOK
<1>3. NoId # id
  <2>1. None \notin Nodes /\ NoId[1] = None /\ Id(m, nextid[m])[1] = m
    BY Zenon, Shapes DEF Base, NoId, Id
  <2> QED BY Zenon, <1>1, <2>1
<1>4. ASSUME NEW x \in Nodes
      PROVE  /\ PlaceMove(x) /\ SecondMove(x) /\ DiskMove(x)
             /\ replid[x] # id /\ replid2[x] # id /\ (disk[x].info => disk[x].replid # id)
             /\ (Flowing(x) => StreamId(x) # id)
  <2>1. Moves(x)
    BY Zenon, MovesStep DEF Fits
  <2>2. \A i : Known(i) => i # id
    BY Zenon, <1>1, NotFresh DEF Base
  <2>3. KnownOk(x)
    BY Zenon, Here
  <2> QED BY ZenonT(60), <1>3, <2>1, <2>2, <2>3 DEF Moves, KnownOk
<1>5. ASSUME NEW x \in Nodes, x # m PROVE replid'[x] # id
  <2>1. Id(x, nextid[x])[1] = x /\ id[1] = m
    BY Zenon, <1>1 DEF Id
  <2>2. Id(x, nextid[x]) # id
    BY Zenon, <1>5, <2>1
  <2> QED BY ZenonT(60), <1>4, <1>5, <2>2 DEF PlaceMove
<1>6. ASSUME NEW x \in Nodes
      PROVE  replid2'[x] # id /\ (disk'[x].info => disk'[x].replid # id)
  BY Zenon, <1>3, <1>4 DEF SecondMove, DiskMove
<1>7. ASSUME NEW x \in Nodes, Flowing(x)', StreamId(x)' = id
      PROVE  x # m /\ End(x)' = p /\ HasBacklog(m)'
  <2>1. slave'[x] = "online"
    BY ZenonT(60), <1>4, <1>7, StreamMove
  <2>2. PICK k \in Nodes : /\ k = masterhost'[x] /\ HasBacklog(k)' /\ StreamId(x)' = replid'[k]
                           /\ End(x)' = master_repl_offset'[k]
    BY Zenon, <2>1, FedAfter
  <2>3. k = m
    BY ZenonT(60), <1>5, <1>7, <2>2
  <2>4. x # m
    BY Zenon, <2>2, Shapes DEF Base
  <2> QED BY ZenonT(60), <1>2, <2>2, <2>3, <2>4
<1>8. ASSUME NEW x \in Nodes PROVE Behind(x, replid[m], master_repl_offset[m])'
  <2>1. replid'[x] = id => master_repl_offset'[x] <= p
    BY <1>2, <1>5
  <2>2. Flowing(x)' /\ StreamId(x)' = id => End(x)' <= p
    BY <1>7
  <2> QED BY ZenonT(60), <1>1, <1>2, <1>6, <2>1, <2>2 DEF Behind
<1>9. ~ HasBacklog(m)' => Private(m)'
  BY ZenonT(60), <1>1, <1>5, <1>6, <1>7 DEF Private, Foreign
<1> QED BY ZenonT(60), <1>1, <1>6, <1>8, <1>9 DEF AheadOk

\* Nobody gets ahead of a master.
LEMMA AheadStep ==
    ASSUME Base, Fits', NEW n \in Nodes, Step(n)
    PROVE  AheadInv'
<1> SUFFICES ASSUME NEW m \in Nodes, masterhost'[m] = None PROVE AheadOk(m)'
  BY Zenon DEF AheadInv, AheadOk
<1>1. MasterMove(m)
  BY ZenonT(60), MovesStep DEF Fits, Moves
<1> QED BY ZenonT(60), <1>1, AheadKept, AheadFresh DEF MasterMove

\* The streams go on agreeing.
LEMMA StreamAgreesStep ==
    ASSUME Base, Fits', NEW n \in Nodes, Step(n), NEW H \in Histories, Ready(H, n),
           NEW x \in Nodes
    PROVE  StreamAgrees(H, x)'
<1>0. StreamAgrees(H, x) /\ StreamChange(n, x)
  BY Zenon, StreamStep DEF Ready, Agrees, Fits
<1>1. CASE StreamKept(x)
  <2>1. CASE Flowing(x)
    <3>1. PICK s \in Nat : s = StreamOff(x)
      BY Zenon, <2>1, FlowTypes
    <3>2. PICK e \in Nat : e = End(x)
      BY ZenonT(60), <2>1, FlowTypes
    <3>3. \A o \in s + 1 .. e : Cmd(x, o)' = Cmd(x, o)
      BY <1>1 DEF StreamKept
    <3> QED BY ZenonT(60), <1>0, <1>1, <3>1, <3>2, <3>3 DEF StreamKept, StreamAgrees
  <2>2. CASE ~ Flowing(x)
    BY Zenon, <1>1, <2>2 DEF StreamKept, StreamAgrees, Flowing
  <2> QED BY ZenonT(60), <2>1, <2>2
<1>2. CASE StreamEnded(x)
  BY Zenon, <1>2 DEF StreamEnded, StreamAgrees
<1>3. ASSUME x \in Fed(n), Write(n) \/ Apply(n), NEW w \in Nat, Feeds(n, w), StreamGrown(x, w)
      PROVE  StreamAgrees(H, x)'
  <2>1. masterhost[x] = n /\ slave[x] = "online" /\ Flowing(x)
    BY ZenonT(60), <1>3, FedFlowing
  <2>2. StreamId(x) = replid[n] /\ End(x) = master_repl_offset[n] /\ HasBacklog(n)
    BY ZenonT(60), <2>1, Here DEF Base, OnlineInv, OnlineOk, RoleOk
  <2>3. PICK s \in Nat : s = StreamOff(x)
    BY Zenon, <2>1, FlowTypes
  <2>4. PICK e \in Nat : e = End(x)
    BY Zenon, <2>1, FlowTypes
  <2>5. PICK p \in Nat : p = e + 1
    OBVIOUS
  <2>6. H[replid[n]][p] = Append(H[replid[n]][e], w)
    <3>1. p = master_repl_offset[n] + 1
      BY ZenonT(60), <2>2, <2>4, <2>5
    <3>2. /\ H[replid[n]][p] = data'[n] /\ data'[n] = Append(data[n], w)
          /\ H[replid[n]][master_repl_offset[n]] = data[n]
      BY ZenonT(60), <1>3, <2>2, <3>1, FeedAgrees
    <3> QED BY Zenon, <2>2, <2>4, <3>2
  <2>7. StreamOff(x)' = s /\ End(x)' = p /\ Cmd(x, p)' = w /\ StreamId(x)' = replid[n]
    <3>1. p \in Int /\ p = End(x) + 1
      BY <2>4, <2>5
    <3> QED BY ZenonT(60), <1>3, <2>2, <2>3, <3>1 DEF StreamGrown
  <2>8. ASSUME NEW o \in s + 1 .. p
        PROVE  H[replid[n]][o] = Append(H[replid[n]][o - 1], Cmd(x, o)')
    <3>1. CASE o = p
      <4>1. o - 1 = e
        BY <2>5, <3>1
      <4> QED BY ZenonT(60), <2>6, <2>7, <3>1, <4>1
    <3>2. CASE o # p
      <4>1. o \in s + 1 .. e
        BY <2>5, <3>2
      <4>2. Cmd(x, o)' = Cmd(x, o)
        BY ZenonT(60), <1>3, <2>3, <2>4, <4>1 DEF StreamGrown
      <4> QED BY ZenonT(60), <1>0, <2>1, <2>2, <2>3, <2>4, <4>1, <4>2 DEF StreamAgrees
    <3> QED BY Zenon, <3>1, <3>2
  <2>9. Resumes(x)' => \A o \in 0 .. master_repl_offset'[x] :
            H[StreamId(x)'][o] = H[replid'[x]][o]
    BY ZenonT(60), <1>0, <1>3 DEF StreamGrown, StreamAgrees
  <2>10. Reloads(x)' => H[StreamId(x)'][StreamOff(x)'] = (Head(chan[x]).rdb.data)'
    BY Zenon, <1>0, <1>3 DEF StreamGrown, StreamAgrees
  <2> QED BY ZenonT(60), <2>7, <2>8, <2>9, <2>10 DEF StreamAgrees
<1>4. CASE x = n /\ StreamRead(n)
  <2>1. Flowing(x)
    BY Zenon, <1>4 DEF StreamRead
  <2>3. PICK s \in Nat : s = StreamOff(x)
    BY ZenonT(60), <2>1, FlowTypes
  <2>4. PICK e \in Nat : e = End(x)
    BY Zenon, <2>1, FlowTypes
  <2>5. PICK t \in {s, s + 1} : t = StreamOff(x)'
    BY Zenon, <1>4, <2>3 DEF StreamRead
  <2>6. ASSUME NEW o \in t + 1 .. e PROVE o \in Int /\ o \in s + 1 .. e /\ t < o /\ o <= e
    BY <2>5
  <2>7. ASSUME NEW o \in t + 1 .. e
        PROVE  H[StreamId(x)][o] = Append(H[StreamId(x)][o - 1], Cmd(x, o)')
    <3>1. Cmd(x, o)' = Cmd(x, o)
      BY ZenonT(60), <1>4, <2>4, <2>5, <2>6 DEF StreamRead
    <3> QED BY ZenonT(60), <1>0, <2>1, <2>3, <2>4, <2>6, <3>1 DEF StreamAgrees
  <2> QED BY ZenonT(60), <1>4, <2>4, <2>5, <2>7 DEF StreamRead, StreamAgrees
<1>5. ASSUME x = n, NEW m \in Nodes, StreamResumed(n, m) PROVE StreamAgrees(H, x)'
  <2>0. PlaceAgrees(H, m) /\ SecondInv(H, m) /\ HasBacklog(m)
    BY ZenonT(60), <1>5 DEF Ready, Agrees, StreamResumed
  <2>1. PICK s \in Nat : s = master_repl_offset[n]
    BY Zenon, Here
  <2>2. PICK e \in Nat : e = master_repl_offset[m]
    BY Zenon, Here
  <2>3. PICK b \in Nat : b = backlog[m].off
    BY Zenon, BacklogFields DEF Base
  <2>4. b <= s + 1
    BY ZenonT(60), <1>5, <2>1, <2>3 DEF StreamResumed
  <2>5. ASSUME NEW o \in 0 .. s PROVE H[replid[m]][o] = H[replid[n]][o]
    <3>1. CASE replid[n] = replid[m]
      BY Zenon, <3>1
    <3>2. CASE replid[n] = replid2[m] /\ s < second_replid_offset[m]
      <4>1. o \in Nat /\ o < second_replid_offset[m]
        BY <3>2, Here
      <4> QED BY ZenonT(60), <2>0, <3>2, <4>1 DEF SecondInv, SameUpTo
    <3> QED BY ZenonT(60), <1>5, <2>1, <3>1, <3>2 DEF StreamResumed
  <2>6. ASSUME NEW o \in s + 1 .. e
        PROVE  H[replid[m]][o] = Append(H[replid[m]][o - 1], Cmd(n, o)')
    <3>1. o \in b .. e /\ o \in Int /\ s < o /\ o <= e
      BY <2>4
    <3>2. Cmd(n, o)' = backlog[m].items[o - b + 1]
      BY ZenonT(60), <1>5, <2>1, <2>2, <2>3, <3>1 DEF StreamResumed
    <3> QED BY ZenonT(60), <2>0, <2>2, <2>3, <3>1, <3>2 DEF PlaceAgrees
  <2>7. UNCHANGED <<replid, master_repl_offset>>
    BY Zenon, <1>5 DEF StreamResumed
  <2> QED BY ZenonT(60), <1>5, <2>1, <2>2, <2>5, <2>6, <2>7 DEF StreamResumed, StreamAgrees
<1>6. CASE StreamReloaded(x, n)
  <2>1. Placed(n) /\ PlaceAgrees(H, n)
    BY Zenon, <1>6 DEF StreamReloaded, SavesInfo, Placed, Ready, Agrees
  <2>2. PICK e \in Nat : e = master_repl_offset[n]
    BY ZenonT(60), Here
  <2>3. \A o \in e + 1 .. e : FALSE
    OBVIOUS
  <2>4. H[replid[n]][e] = data[n]
    BY ZenonT(60), <2>1, <2>2 DEF PlaceAgrees
  <2>5. (Head(chan[x]).rdb.data)' = data[n]
    BY <1>6 DEF StreamReloaded
  <2> QED BY ZenonT(60), <1>6, <2>2, <2>3, <2>4, <2>5 DEF StreamReloaded, StreamAgrees
<1> QED BY ZenonT(60), <1>0, <1>1, <1>2, <1>3, <1>4, <1>5, <1>6 DEF StreamChange
=============================================================================
