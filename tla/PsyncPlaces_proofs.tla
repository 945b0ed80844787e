------------------------- MODULE PsyncPlaces_proofs -------------------------
(***************************************************************************)
(* The datasets, backlogs, files and second IDs of the instances go on     *)
(* agreeing with histories that are ready for a step, and every step keeps *)
(* the types.                                                              *)
(***************************************************************************)
EXTENDS PsyncTypes_proofs

USE SMTT(30), ZenonT(30)

-----------------------------------------------------------------------------
(* Files and second IDs.                                                   *)

\* The file on its way agrees.
LEMMA FileAgrees ==
    ASSUME Base, NEW n \in Nodes, LoadRdb(n) \/ LoadRdbFails(n),
           NEW H \in Histories, Ready(H, n)
    PROVE  /\ H[Head(chan[n]).rdb.replid][Head(chan[n]).rdb.offset] = Head(chan[n]).rdb.data
           /\ Head(chan[n]).rdb.offset \in Nat
<1>1. Reloads(n) /\ repl_state[n] # "connected"
  BY Zenon DEF LoadRdb, LoadRdbFails, Base, ChanInv, ChanOk
<1>2. ~ Resumes(n) /\ StreamId(n) = Head(chan[n]).rdb.replid
        /\ StreamOff(n) = Head(chan[n]).rdb.offset
  BY Zenon, <1>1 DEF Resumes, Reloads, StreamId, StreamOff
<1>3. StreamAgrees(H, n)
  BY Zenon DEF Ready, Agrees
<1> QED BY Zenon, <1>1, <1>2, <1>3, ReloadFile DEF StreamAgrees

\* The files go on agreeing.
LEMMA DiskAgreesStep ==
    ASSUME Base, NEW n \in Nodes, Step(n), NEW H \in Histories, Ready(H, n), NEW x \in Nodes
    PROVE  DiskAgrees(H, x)'
<1>0. /\ DiskAgrees(H, x) /\ PlaceAgrees(H, x) /\ disk \in [Nodes -> Files] /\ n \in Nodes
  BY Zenon, Shapes DEF Base, Ready, Agrees
<1>1. CASE disk'[x] = disk[x]
  BY Zenon, <1>0, <1>1 DEF DiskAgrees
<1>2. CASE disk'[x] = Snapshot(x)
  <2>1. disk'[x].info => Placed(x)
    BY Zenon, <1>2, SnapshotFields DEF SavesInfo, Placed
  <2> QED BY <1>0, <1>2, <2>1, SnapshotFields DEF DiskAgrees, PlaceAgrees
<1>3. CASE x = n /\ (LoadRdb(n) \/ LoadRdbFails(n))
  <2>1. disk'[x] = Head(chan[n]).rdb
    BY Zenon, <1>0, <1>3 DEF LoadRdb, LoadRdbFails
  <2> QED BY Zenon, <1>3, <2>1, FileAgrees DEF DiskAgrees
<1>4. \/ disk'[x] = disk[x] \/ disk'[x] = Snapshot(x)
      \/ x = n /\ (LoadRdb(n) \/ LoadRdbFails(n))
  <2>1. CASE StartBgsave(n)
    BY <1>0, <2>1 DEF StartBgsave
  <2>2. CASE SaveRdb(n)
    BY <1>0, <2>2 DEF SaveRdb
  <2>3. CASE LoadRdb(n) \/ LoadRdbFails(n)
    BY Zenon, <1>0, <2>3 DEF LoadRdb, LoadRdbFails
  <2>4. CASE \/ Connect(n) \/ SyncCommand(n) \/ ContinueReply(n) \/ FullResyncReply(n)
             \/ ErrorReply(n) \/ Apply(n) \/ Write(n) \/ LinkLost(n) \/ DropSlave(n)
             \/ BacklogExpire(n) \/ ResizeBacklog(n) \/ UnsetMaster(n)
    BY Zenon, <2>4 DEF Connect, SyncCommand, ContinueReply, FullResyncReply, ErrorReply, Apply,
           Write, LinkLost, DropSlave, BacklogExpire, ResizeBacklog, UnsetMaster
  <2>5. CASE \E h \in Nodes \ {n} : SetMaster(n, h)
    BY Zenon, <2>5 DEF SetMaster
  <2>6. CASE \E h \in (Nodes \ {n}) \cup {None} : CrashRestart(n, h)
    BY Zenon, <2>6 DEF CrashRestart
  <2> QED BY Zenon, <2>1, <2>2, <2>3, <2>4, <2>5, <2>6 DEF Step
<1> QED BY Zenon, <1>1, <1>2, <1>3, <1>4

\* After +CONTINUE the replica is at the same place of the history it goes on with.
LEMMA ContinueAgrees ==
    ASSUME Base, NEW n \in Nodes, ContinueReply(n), NEW H \in Histories, Ready(H, n)
    PROVE  /\ master[n] # NoMaster /\ master[n].replid = replid[n]
           /\ replid'[n] = Head(chan[n]).replid
           /\ \A o \in 0 .. master_repl_offset[n] : H[replid'[n]][o] = H[replid[n]][o]
<1>1. Resumes(n) /\ repl_state[n] = "psync" /\ master[n] # NoMaster
  BY DEF ContinueReply, Base, ChanInv, ChanOk, Resumes, Reloads
<1>2. StreamId(n) = Head(chan[n]).replid
  BY <1>1 DEF StreamId
<1>3. replid \in [Nodes -> Ids] /\ OffsetOk(n) /\ StreamAgrees(H, n)
  BY Zenon, Shapes, Here DEF Base, Ready, Agrees
<1>4. master[n].replid = replid[n]
  BY Zenon, <1>1, <1>3 DEF OffsetOk
<1>5. replid'[n] = Head(chan[n]).replid
  BY <1>3, <1>4 DEF ContinueReply
<1> QED BY Zenon, <1>1, <1>2, <1>3, <1>4, <1>5 DEF StreamAgrees

\* Either the second ID is right after the step, or the IDs are as they were.
LEMMA SecondKept ==
    ASSUME Base, Fits', NEW n \in Nodes, Step(n), NEW H \in Histories, Ready(H, n), NEW x \in Nodes
    PROVE  \/ SameUpTo(H, x)'
           \/ /\ replid'[x] = replid[x] /\ replid2'[x] = replid2[x]
              /\ second_replid_offset'[x] = second_replid_offset[x]
              /\ HasBacklog(x)' => HasBacklog(x) \/ Resumes(x)
<1>0. /\ replid \in [Nodes -> Ids] /\ replid2 \in [Nodes -> Ids]
      /\ second_replid_offset \in [Nodes -> Int] /\ master_repl_offset \in [Nodes -> Nat]
      /\ backlog \in [Nodes -> Windows] /\ TypeInv /\ n \in Nodes /\ NoBacklog.off = 0
  BY Zenon, Shapes, FreshBacklog DEF Base
<1>1. CASE second_replid_offset'[x] = -1
  BY <1>1 DEF SameUpTo
<1>2. CASE \/ Connect(n) \/ StartBgsave(n) \/ ErrorReply(n) \/ LoadRdbFails(n) \/ LinkLost(n)
           \/ DropSlave(n) \/ SaveRdb(n) \/ (\E h \in Nodes \ {n} : SetMaster(n, h))
  BY Zenon, <1>2 DEF Connect, StartBgsave, ErrorReply, LoadRdbFails, LinkLost, DropSlave, SaveRdb,
         SetMaster, idVars, HasBacklog
<1>3. CASE SyncCommand(n)
  <2>0. PICK m \in Nodes :
             /\ m = masterhost[n] /\ (m # n \/ SyncRefused(n, m))
             /\ \/ SyncRefused(n, m) \/ SyncPartial(n, m)
                \/ SyncFull(n, m) /\ NeedsBacklog(m)
                \/ SyncFull(n, m) /\ HasBacklog(m) /\ ~ NeedsBacklog(m)
    BY Zenon, <1>3, SyncMaster
  <2>1. CASE SyncFull(n, m) /\ NeedsBacklog(m)
    <3>1. /\ NewId(m, NoId, -1)
          /\ backlog' = [backlog EXCEPT ![m] = EmptyBacklog(master_repl_offset[m])]
      BY Zenon, <2>1, FirstBacklog
    <3>2. CASE x = m
      BY <1>0, <1>1, <3>1, <3>2, NewIdEffect
    <3>3. CASE x # m
      BY ZenonT(60), <1>0, <3>1, <3>3, NewIdOther DEF HasBacklog
    <3> QED BY <3>2, <3>3
  <2>2. CASE ~ (SyncFull(n, m) /\ NeedsBacklog(m))
    BY Zenon, <2>0, <2>2 DEF SyncRefused, SyncPartial, SyncFull, idVars, HasBacklog
  <2> QED BY Zenon, <2>1, <2>2
<1>4. CASE FullResyncReply(n)
  <2>1. UNCHANGED <<replid, replid2, second_replid_offset>>
    BY Zenon, <1>4 DEF FullResyncReply, idVars
  <2>2. HasBacklog(x)' => HasBacklog(x)
    BY Zenon, <1>0, <1>4 DEF FullResyncReply, HasBacklog
  <2> QED BY Zenon, <2>1, <2>2
<1>5. CASE ResizeBacklog(n)
  <2>1. UNCHANGED <<replid, replid2, second_replid_offset>> /\ HasBacklog(n)
    BY <1>5 DEF ResizeBacklog, idVars
  <2>2. HasBacklog(x)' => HasBacklog(x)
    BY Zenon, <1>0, <1>5, <2>1 DEF ResizeBacklog, HasBacklog
  <2> QED BY Zenon, <2>1, <2>2
<1>6. CASE Write(n) \/ Apply(n)
  <2>0. PICK w \in Nat : Feeds(n, w)
    BY <1>6, Feeding
  <2>1. BacklogFed(n, w) /\ UNCHANGED <<replid, replid2, second_replid_offset>>
    BY Zenon, <1>0, <2>0, BacklogIsFed DEF Feeds, idVars
  <2> QED BY Zenon, <2>1 DEF BacklogFed
<1>7. CASE ContinueReply(n)
  <2>1. CASE x = n
    <3>0. /\ master[n] # NoMaster /\ master[n].replid = replid[n]
          /\ replid'[n] = Head(chan[n]).replid
          /\ \A o \in 0 .. master_repl_offset[n] : H[replid'[n]][o] = H[replid[n]][o]
      BY Zenon, <1>7, ContinueAgrees
    <3>1. CASE Head(chan[n]).replid = master[n].replid
      <4>1. UNCHANGED <<replid, replid2, second_replid_offset>> /\ Resumes(n)
        BY Zenon, <1>7, <3>1 DEF ContinueReply, Resumes
      <4> QED BY Zenon, <2>1, <4>1
    <3>2. CASE Head(chan[n]).replid # master[n].replid
      <4>1. PICK s \in Nat : s = master_repl_offset[n]
        BY Zenon, <1>0
      <4>2. replid2'[n] = replid[n] /\ second_replid_offset'[n] = s + 1
        BY Zenon, <1>0, <1>7, <3>0, <3>2, <4>1 DEF ContinueReply
      <4>3. \A o \in Nat : o < s + 1 => o \in 0 .. s
        OBVIOUS
      <4> QED BY Zenon, <2>1, <3>0, <4>1, <4>2, <4>3 DEF SameUpTo
    <3> QED BY Zenon, <3>1, <3>2
  <2>2. CASE x # n
    BY Zenon, <1>0, <1>7, <2>2 DEF ContinueReply, HasBacklog
  <2> QED BY Zenon, <2>1, <2>2
<1>8. CASE LoadRdb(n)
  BY Zenon, <1>0, <1>1, <1>8 DEF LoadRdb, HasBacklog
<1>9. CASE BacklogExpire(n)
  <2>1. NewId(n, NoId, -1) /\ backlog' = [backlog EXCEPT ![n] = NoBacklog]
    BY Zenon, <1>9 DEF BacklogExpire, NewHistory
  <2>2. CASE x = n
    BY <1>0, <1>1, <2>1, <2>2, NewIdEffect
  <2>3. CASE x # n
    BY ZenonT(60), <1>0, <2>1, <2>3, NewIdOther DEF HasBacklog
  <2> QED BY Zenon, <2>2, <2>3
<1>10. CASE UnsetMaster(n)
  <2>0. PICK o : o = master_repl_offset[n] + 1
    BY Zenon
  <2>1. backlog' = backlog /\ NewId(n, replid[n], o)
    BY <1>10, <2>0 DEF UnsetMaster, PromotedId, ShiftOffset
  <2>2. CASE x = n
    <3>1. replid'[n] = Id(n, nextid[n]) /\ replid2'[n] = replid[n]
      BY Zenon, <1>0, <2>1, NewIdEffect
    <3>2. \A i \in Nat : H[replid2'[n]][i] = H[replid'[n]][i]
      BY Zenon, <1>10, <3>1 DEF Ready
    <3> QED BY Zenon, <2>2, <3>2 DEF SameUpTo
  <2>3. CASE x # n
    BY ZenonT(60), <1>0, <2>1, <2>3, NewIdOther DEF HasBacklog
  <2> QED BY <2>2, <2>3
<1>11. CASE \E h \in (Nodes \ {n}) \cup {None} : CrashRestart(n, h)
  BY ZenonT(60), <1>0, <1>1, <1>11 DEF CrashRestart, HasBacklog
<1> QED BY ZenonT(60), <1>2, <1>3, <1>4, <1>5, <1>6, <1>7, <1>8, <1>9, <1>10, <1>11 DEF Step

-----------------------------------------------------------------------------
(* Datasets and backlogs.                                                  *)

\* An instance that the step leaves where it is.
LEMMA PlaceSame ==
    ASSUME NEW x \in Nodes, NEW H, PlaceAgrees(H, x), replid'[x] = replid[x], data'[x] = data[x],
           master_repl_offset'[x] = master_repl_offset[x], backlog'[x] = backlog[x],
           Placed(x)' => Placed(x)
    PROVE  PlaceAgrees(H, x)'
BY Zenon DEF PlaceAgrees, HasBacklog

\* An instance with an empty backlog, or with none.
LEMMA PlaceEmpty ==
    ASSUME NEW x \in Nodes, NEW H, master_repl_offset'[x] \in Nat,
           ~ HasBacklog(x)' \/ backlog'[x].off = master_repl_offset'[x] + 1,
           Placed(x)' => H[replid'[x]][master_repl_offset'[x]] = data'[x]
    PROVE  PlaceAgrees(H, x)'
<1>1. PICK e \in Nat : e = master_repl_offset'[x]
  OBVIOUS
<1>2. \A o \in e + 1 .. e : FALSE
  OBVIOUS
<1> QED BY Zenon, <1>1, <1>2 DEF PlaceAgrees

\* The datasets and backlogs go on agreeing, step by step.
LEMMA PlaceAgreesFeed ==
    ASSUME Base, Fits', NEW n \in Nodes, Write(n) \/ Apply(n), NEW H \in Histories, Ready(H, n)
    PROVE  PlaceAgrees(H, n)'
<1>0. PlaceAgrees(H, n) /\ OffsetOk(n) /\ RoleOk(n)
  BY Zenon, Here DEF Ready, Agrees
<1>1. PICK w \in Nat : Feeds(n, w)
  BY Feeding
<1>2. BacklogFed(n, w) /\ replid' = replid
  BY Zenon, <1>1, BacklogIsFed DEF Base, Feeds, idVars
<1>3. CASE ~ HasBacklog(n)
  <2>1. ~ HasBacklog(n)'
    BY Zenon, <1>2, <1>3 DEF BacklogFed
  <2>2. Write(n) /\ master'[n] = NoMaster
    BY Zenon, <1>0, <1>3 DEF Apply, Write, RoleOk
  <2> QED BY Zenon, <2>1, <2>2 DEF PlaceAgrees, Placed
<1>4. CASE HasBacklog(n)
  <2>1. PICK e \in Nat : e = master_repl_offset[n]
    BY Here
  <2>2. PICK p \in Nat : p = e + 1
    OBVIOUS
  <2>3. /\ H[replid[n]][p] = data'[n] /\ data'[n] = Append(data[n], w)
        /\ H[replid[n]][e] = data[n]
    BY ZenonT(60), <1>1, <1>4, <2>1, <2>2, FeedAgrees
  <2>4. PICK b \in Nat, its \in Seq(Nat) :
           backlog[n] = [off |-> b, items |-> its] /\ backlog[n].off = b /\ backlog[n].items = its
    BY Zenon, BacklogFields DEF Base
  <2>5. PICK c \in Nat : c = backlog'[n].off
    BY DEF Fits, TypeInv, TypeOK
  <2>6. b + Len(its) = p /\ b <= c /\ master_repl_offset'[n] = p
    BY Zenon, <1>0, <1>2, <1>4, <2>1, <2>2, <2>4, <2>5 DEF OffsetOk, BacklogFed
  <2>7. \A o \in c .. p : backlog'[n].items[o - c + 1] =
            IF o = p THEN w ELSE its[o - b + 1]
    <3>1. \A o \in c .. b + Len(its) : backlog'[n].items[o - c + 1] =
            IF o = b + Len(its) THEN w ELSE its[o - b + 1]
      BY Zenon, <1>2, <1>4, <2>4, <2>5 DEF BacklogFed
    <3> QED BY Zenon, <2>6, <3>1
  <2>8. ASSUME NEW o \in c .. p
        PROVE  H[replid[n]][o] = Append(H[replid[n]][o - 1], backlog'[n].items[o - c + 1])
    <3>0. PICK v : /\ v = backlog'[n].items[o - c + 1]
                   /\ v = IF o = p THEN w ELSE its[o - b + 1]
      BY <2>7
    <3>1. CASE o = p
      <4>1. o - 1 = e /\ v = w
        BY <2>2, <3>0, <3>1
      <4> QED BY Zenon, <2>3, <3>0, <3>1, <4>1
    <3>2. CASE o # p
      <4>1. o \in b .. e /\ backlog'[n].items[o - c + 1] = its[o - b + 1]
        BY <2>2, <2>6, <3>0, <3>2
      <4>2. H[replid[n]][o] = Append(H[replid[n]][o - 1], its[o - b + 1])
        BY Zenon, <1>0, <1>4, <2>1, <2>4, <4>1 DEF PlaceAgrees
      <4> QED BY Zenon, <4>1, <4>2
    <3> QED BY Zenon, <3>1, <3>2
  <2> QED BY Zenon, <1>2, <2>3, <2>5, <2>6, <2>8 DEF PlaceAgrees
<1> QED BY <1>3, <1>4

\* A +CONTINUE goes on under an ID whose history is the same up to the place of n.
LEMMA PlaceAgreesContinue ==
    ASSUME Base, NEW n \in Nodes, ContinueReply(n), NEW H \in Histories, Ready(H, n)
    PROVE  PlaceAgrees(H, n)'
<1>0. /\ PlaceAgrees(H, n) /\ backlog \in [Nodes -> Windows]
      /\ UNCHANGED <<master_repl_offset, data>>
  BY Zenon, Shapes DEF Base, Ready, Agrees, ContinueReply
<1>1. PICK e \in Nat : e = master_repl_offset[n]
  BY Zenon, Here
<1>2. /\ master[n] # NoMaster
      /\ \A o \in 0 .. e : H[replid'[n]][o] = H[replid[n]][o]
  BY Zenon, <1>1, ContinueAgrees
<1>3. H[replid'[n]][e] = data[n]
  BY <1>0, <1>1, <1>2 DEF PlaceAgrees, Placed
<1>4. backlog'[n] = BacklogToResume(n)
  BY <1>0 DEF ContinueReply
<1>5. CASE ~ HasBacklog(n)
  <2>1. backlog'[n].off = e + 1
    BY Zenon, <1>1, <1>4, <1>5, FreshBacklog DEF BacklogToResume
  <2> QED BY Zenon, <1>0, <1>1, <1>3, <2>1, PlaceEmpty
<1>6. CASE HasBacklog(n)
  <2>1. backlog'[n] = backlog[n]
    BY <1>4, <1>6 DEF BacklogToResume
  <2>2. PICK b \in Nat : b = backlog[n].off /\ b # 0
    BY Zenon, <1>6, BacklogFields DEF Base, HasBacklog
  <2>3. ASSUME NEW o \in b .. e
        PROVE  H[replid'[n]][o] = Append(H[replid'[n]][o - 1], backlog[n].items[o - b + 1])
    <3>1. o \in 0 .. e /\ o - 1 \in 0 .. e
      BY <2>2
    <3>2. H[replid[n]][o] = Append(H[replid[n]][o - 1], backlog[n].items[o - b + 1])
      BY Zenon, <1>0, <1>1, <1>6, <2>2 DEF PlaceAgrees
    <3>3. H[replid'[n]][o] = H[replid[n]][o] /\ H[replid'[n]][o - 1] = H[replid[n]][o - 1]
      BY Zenon, <1>2, <3>1
    <3> QED BY Zenon, <3>2, <3>3
  <2> QED BY Zenon, <1>0, <1>1, <1>3, <2>1, <2>2, <2>3 DEF PlaceAgrees
<1> QED BY Zenon, <1>5, <1>6

\* shiftReplicationId: the history of the new ID is that of the old one.
LEMMA PlaceAgreesPromote ==
    ASSUME Base, NEW n \in Nodes, UnsetMaster(n), NEW H \in Histories, Ready(H, n)
    PROVE  PlaceAgrees(H, n)'
<1>0. /\ PlaceAgrees(H, n) /\ master \in [Nodes -> Clients] /\ replid \in [Nodes -> Ids]
      /\ UNCHANGED <<master_repl_offset, data, backlog>> /\ replid'[n] = Id(n, nextid[n])
  BY Zenon, Shapes DEF Base, Ready, Agrees, UnsetMaster, PromotedId, NewId
<1>1. PICK e \in Nat : e = master_repl_offset[n]
  BY Here
<1>2. \A o \in Nat : H[replid'[n]][o] = H[replid[n]][o]
  BY Zenon, <1>0 DEF Ready
<1>3. master'[n] = NoMaster
  BY Zenon, <1>0 DEF UnsetMaster
<1>4. CASE ~ HasBacklog(n)
  BY Zenon, <1>0, <1>3, <1>4 DEF PlaceAgrees, Placed, HasBacklog
<1>5. CASE HasBacklog(n)
  <2>1. PICK b \in Nat : b = backlog[n].off /\ b # 0
    BY Zenon, <1>5, BacklogFields DEF Base, HasBacklog
  <2>2. ASSUME NEW o \in b .. e
        PROVE  H[replid'[n]][o] = Append(H[replid'[n]][o - 1], backlog[n].items[o - b + 1])
    <3>1. o \in Nat /\ o - 1 \in Nat
      BY <2>1
    <3>2. H[replid[n]][o] = Append(H[replid[n]][o - 1], backlog[n].items[o - b + 1])
      BY Zenon, <1>0, <1>1, <1>5, <2>1 DEF PlaceAgrees
    <3>3. H[replid'[n]][o] = H[replid[n]][o] /\ H[replid'[n]][o - 1] = H[replid[n]][o - 1]
      BY <1>2, <3>1
    <3> QED BY <3>2, <3>3
  <2>3. H[replid'[n]][e] = data[n]
    BY Zenon, <1>0, <1>1, <1>2, <1>5 DEF PlaceAgrees, Placed
  <2> QED BY Zenon, <1>0, <1>1, <2>1, <2>2, <2>3 DEF PlaceAgrees
<1> QED BY <1>4, <1>5

\* Whatever the step, datasets and backlogs go on agreeing.
LEMMA PlaceAgreesStep ==
    ASSUME Base, Fits', NEW n \in Nodes, Step(n), NEW H \in Histories, Ready(H, n), NEW x \in Nodes
    PROVE  PlaceAgrees(H, x)'
<1>0. /\ PlaceAgrees(H, x) /\ RoleOk(n) /\ TypeInv /\ n \in Nodes
      /\ replid \in [Nodes -> Ids] /\ master_repl_offset \in [Nodes -> Nat]
      /\ data \in [Nodes -> Seq(Nat)] /\ master \in [Nodes -> Clients]
      /\ backlog \in [Nodes -> Windows] /\ master_repl_offset'[x] \in Nat
      /\ \A o \in Nat : EmptyBacklog(o).off = o + 1
      /\ NoBacklog.off = 0
  BY Zenon, Shapes, FreshBacklog, Here DEF Base, Ready, Agrees, Fits, TypeInv, TypeOK
<1>1. CASE \/ Connect(n) \/ StartBgsave(n) \/ ErrorReply(n) \/ DropSlave(n) \/ SaveRdb(n)
           \/ LinkLost(n)
  <2>1. /\ UNCHANGED <<replid, data, master_repl_offset, backlog>>
        /\ master'[x] # NoMaster => master[x] # NoMaster
    BY Zenon, <1>0, <1>1 DEF Connect, StartBgsave, ErrorReply, DropSlave, SaveRdb, LinkLost, idVars
  <2> QED BY <1>0, <2>1, PlaceSame DEF Placed, HasBacklog
<1>2. CASE SyncCommand(n)
  <2>0. PICK m \in Nodes :
             /\ m = masterhost[n] /\ (m # n \/ SyncRefused(n, m))
             /\ \/ SyncRefused(n, m) \/ SyncPartial(n, m)
                \/ SyncFull(n, m) /\ NeedsBacklog(m)
                \/ SyncFull(n, m) /\ HasBacklog(m) /\ ~ NeedsBacklog(m)
    BY <1>2, SyncMaster
  <2>1. UNCHANGED <<master_repl_offset, data, master>>
    BY Zenon, <1>2 DEF SyncCommand
  <2>2. CASE SyncFull(n, m) /\ NeedsBacklog(m)
    <3>1. /\ NewId(m, NoId, -1)
          /\ backlog' = [backlog EXCEPT ![m] = EmptyBacklog(master_repl_offset[m])]
      BY <2>2, FirstBacklog
    <3>2. CASE x = m
      <4>1. replid'[m] = Id(m, nextid[m])
        BY Zenon, <1>0, <3>1, NewIdEffect
      <4>2. H[replid'[m]][master_repl_offset[m]] = data[m]
        BY Zenon, <1>2, <2>2, <4>1 DEF Ready
      <4>3. backlog'[x].off = master_repl_offset'[x] + 1
        BY Zenon, <1>0, <2>1, <3>1, <3>2
      <4> QED BY Zenon, <1>0, <2>1, <3>2, <4>2, <4>3, PlaceEmpty
    <3>3. CASE x # m
      <4>1. replid'[x] = replid[x] /\ backlog'[x] = backlog[x]
        BY Zenon, <1>0, <3>1, <3>3, NewIdOther
      <4> QED BY Zenon, <1>0, <2>1, <4>1, PlaceSame DEF Placed, HasBacklog
    <3> QED BY <3>2, <3>3
  <2>3. CASE ~ (SyncFull(n, m) /\ NeedsBacklog(m))
    <3>1. UNCHANGED <<replid, backlog>>
      BY Zenon, <2>0, <2>3 DEF SyncRefused, SyncPartial, SyncFull, idVars
    <3> QED BY <1>0, <2>1, <3>1, PlaceSame DEF Placed, HasBacklog
  <2> QED BY <2>2, <2>3
<1>3. CASE ContinueReply(n)
  <2>1. CASE x = n
    BY <1>3, <2>1, PlaceAgreesContinue
  <2>2. CASE x # n
    <3>1. /\ replid'[x] = replid[x] /\ backlog'[x] = backlog[x] /\ master'[x] = master[x]
          /\ UNCHANGED <<master_repl_offset, data>>
      BY Zenon, <1>0, <1>3, <2>2 DEF ContinueReply
    <3> QED BY Zenon, <1>0, <3>1, PlaceSame DEF Placed, HasBacklog
  <2> QED BY <2>1, <2>2
<1>4. CASE FullResyncReply(n) \/ BacklogExpire(n)
  <2>1. CASE x = n
    <3>1. ~ Placed(n)'
      BY Zenon, <1>0, <1>4 DEF FullResyncReply, BacklogExpire, RoleOk, Placed, HasBacklog
    <3> QED BY Zenon, <2>1, <3>1 DEF PlaceAgrees, Placed
  <2>2. CASE x # n
    <3>1. replid'[x] = replid[x]
      <4>1. UNCHANGED replid \/ NewId(n, NoId, -1)
        BY Zenon, <1>4 DEF FullResyncReply, BacklogExpire, NewHistory, idVars
      <4>2. TypeInv /\ n \in Nodes
        BY Zenon, <1>0
      <4> QED BY Zenon, <2>2, <4>1, <4>2, NewIdOther
    <3>2. /\ backlog'[x] = backlog[x] /\ master'[x] = master[x]
          /\ UNCHANGED <<master_repl_offset, data>>
      BY Zenon, <1>0, <1>4, <2>2 DEF FullResyncReply, BacklogExpire
    <3> QED BY Zenon, <1>0, <3>1, <3>2, PlaceSame DEF Placed, HasBacklog
  <2> QED BY <2>1, <2>2
<1>5. CASE LoadRdb(n)
  <2>1. CASE x = n
    <3>1. PICK o \in Nat : o = Head(chan[n]).rdb.offset
      BY Zenon, <1>5, FileAgrees
    <3>2. /\ replid'[n] = Head(chan[n]).rdb.replid /\ master_repl_offset'[n] = o
          /\ data'[n] = Head(chan[n]).rdb.data /\ backlog'[n] = EmptyBacklog(o)
      BY Zenon, <1>0, <1>5, <3>1 DEF LoadRdb, RoleOk
    <3>3. H[replid'[n]][o] = data'[n]
      BY Zenon, <1>5, <3>1, <3>2, FileAgrees
    <3>4. backlog'[n].off = o + 1
      BY <1>0, <3>2
    <3> QED BY Zenon, <2>1, <3>2, <3>3, <3>4, PlaceEmpty
  <2>2. CASE x # n
    <3>1. /\ replid'[x] = replid[x] /\ backlog'[x] = backlog[x] /\ master'[x] = master[x]
          /\ master_repl_offset'[x] = master_repl_offset[x] /\ data'[x] = data[x]
      BY Zenon, <1>0, <1>5, <2>2 DEF LoadRdb
    <3> QED BY Zenon, <1>0, <3>1, PlaceSame DEF Placed, HasBacklog
  <2> QED BY <2>1, <2>2
<1>6. CASE LoadRdbFails(n)
  <2>1. UNCHANGED <<replid, master_repl_offset, backlog, master>>
    BY Zenon, <1>6 DEF LoadRdbFails, idVars
  <2>2. CASE x = n
    <3>1. ~ Placed(n)
      BY Zenon, <1>0, <1>6 DEF LoadRdbFails, RoleOk, Placed
    <3> QED BY Zenon, <2>1, <2>2, <3>1 DEF PlaceAgrees, Placed, HasBacklog
  <2>3. CASE x # n
    <3>1. data'[x] = data[x]
      BY Zenon, <1>0, <1>6, <2>3 DEF LoadRdbFails
    <3> QED BY Zenon, <1>0, <2>1, <3>1, PlaceSame DEF Placed, HasBacklog
  <2> QED BY <2>2, <2>3
<1>7. CASE Write(n) \/ Apply(n)
  <2>1. CASE x = n
    BY Zenon, <1>7, <2>1, PlaceAgreesFeed
  <2>2. CASE x # n
    <3>0. PICK w \in Nat : Feeds(n, w)
      BY <1>7, Feeding
    <3>1. BacklogFed(n, w) /\ replid' = replid /\ data'[x] = data[x]
      BY Zenon, <1>0, <2>2, <3>0, BacklogIsFed DEF Feeds, idVars
    <3>2. master'[x] = master[x]
      BY Zenon, <1>0, <1>7, <2>2 DEF Write, Apply
    <3> QED BY Zenon, <1>0, <2>2, <3>1, <3>2, PlaceSame DEF Placed, BacklogFed
  <2> QED BY <2>1, <2>2
<1>8. CASE ResizeBacklog(n)
  <2>1. UNCHANGED <<replid, master_repl_offset, data, master>> /\ HasBacklog(n)
    BY Zenon, <1>8 DEF ResizeBacklog, idVars
  <2>2. backlog' = [backlog EXCEPT ![n] = EmptyBacklog(master_repl_offset[n])]
    BY <1>8 DEF ResizeBacklog
  <2>3. CASE x = n
    <3>1. backlog'[x].off = master_repl_offset'[x] + 1
      BY Zenon, <1>0, <2>1, <2>2, <2>3
    <3>2. H[replid[x]][master_repl_offset[x]] = data[x]
      BY Zenon, <1>0, <2>1, <2>3 DEF PlaceAgrees, Placed
    <3> QED BY Zenon, <1>0, <2>1, <3>1, <3>2, PlaceEmpty
  <2>4. CASE x # n
    <3>1. backlog'[x] = backlog[x]
      BY Zenon, <1>0, <2>2, <2>4
    <3> QED BY Zenon, <1>0, <2>1, <3>1, PlaceSame DEF Placed, HasBacklog
  <2> QED BY <2>3, <2>4
<1>9. ASSUME NEW h \in Nodes \ {n}, SetMaster(n, h) PROVE PlaceAgrees(H, x)'
  <2>1. UNCHANGED <<replid, data, master_repl_offset, backlog>>
    BY <1>9 DEF SetMaster, idVars
  <2>2. CASE Placed(x)' => Placed(x)
    BY Zenon, <1>0, <2>1, <2>2, PlaceSame
  <2>3. CASE ~ (Placed(x)' => Placed(x))
    <3>1. ~ HasBacklog(x) /\ ~ HasBacklog(x)' /\ master[x] = NoMaster /\ master'[x] # NoMaster
      BY Zenon, <2>1, <2>3 DEF Placed, HasBacklog
    <3>2. x = n /\ masterhost[n] = None
      BY Zenon, <1>0, <1>9, <3>1 DEF SetMaster
    <3>3. H[replid[n]][master_repl_offset[n]] = data[n]
      BY Zenon, <1>9, <3>1, <3>2 DEF Ready
    <3> QED BY Zenon, <1>0, <2>1, <3>1, <3>2, <3>3, PlaceEmpty
  <2> QED BY Zenon, <2>2, <2>3
<1>10. CASE UnsetMaster(n)
  <2>1. CASE x = n
    BY <1>10, <2>1, PlaceAgreesPromote
  <2>2. CASE x # n
    <3>1. /\ replid'[x] = replid[x] /\ master'[x] = master[x]
          /\ UNCHANGED <<master_repl_offset, data, backlog>>
      BY Zenon, <1>0, <1>10, <2>2 DEF UnsetMaster, PromotedId, NewId
    <3> QED BY Zenon, <1>0, <3>1, PlaceSame DEF Placed, HasBacklog
  <2> QED BY <2>1, <2>2
<1>11. ASSUME NEW h \in (Nodes \ {n}) \cup {None}, CrashRestart(n, h) PROVE PlaceAgrees(H, x)'
  <2>1. CASE x # n
    <3>1. /\ replid'[x] = replid[x] /\ backlog'[x] = backlog[x] /\ master'[x] = master[x]
          /\ master_repl_offset'[x] = master_repl_offset[x] /\ data'[x] = data[x]
      BY Zenon, <1>0, <1>11, <2>1 DEF CrashRestart
    <3> QED BY Zenon, <1>0, <3>1, PlaceSame DEF Placed, HasBacklog
  <2>2. CASE x = n
    <3>1. ~ HasBacklog(n)' /\ data'[n] = disk[n].data
      BY Zenon, <1>0, <1>11 DEF CrashRestart, HasBacklog
    <3>2. CASE RestoresId(h, disk[n])
      <4>1. /\ disk[n].info /\ replid'[n] = disk[n].replid
            /\ master_repl_offset'[n] = disk[n].offset
        BY Zenon, <1>0, <1>11, <3>2 DEF CrashRestart, RestoresId
      <4>2. H[replid'[n]][master_repl_offset'[n]] = data'[n]
        BY Zenon, <3>1, <4>1 DEF Ready, Agrees, DiskAgrees
      <4> QED BY Zenon, <1>0, <2>2, <3>1, <4>2, PlaceEmpty
    <3>3. CASE ~ RestoresId(h, disk[n])
      <4>1. master'[n] = NoMaster
        BY Zenon, <1>0, <1>11, <3>3 DEF CrashRestart
      <4> QED BY Zenon, <2>2, <3>1, <4>1 DEF PlaceAgrees, Placed
    <3> QED BY <3>2, <3>3
  <2> QED BY Zenon, <2>1, <2>2
<1> QED BY Zenon, <1>1, <1>2, <1>3, <1>4, <1>5, <1>6, <1>7, <1>8, <1>9, <1>10, <1>11 DEF Step

\* The stream is a run of Read: it takes n from its dataset to the end of the stream.
LEMMA StreamRun ==
    ASSUME Base, NEW n \in Nodes, Flowing(n), NEW H \in Histories, Agrees(H, n)
    PROVE  \E g : /\ g = [i \in 0 .. Len(chan[n]) |->
                              IF i = 0 THEN data[n] ELSE Read(g[i - 1], chan[n][i])]
                  /\ g[Len(chan[n])] = H[StreamId(n)][End(n)]
<1>0. ChanOk(n) /\ LinkOk(n) /\ RoleOk(n) /\ PlaceAgrees(H, n) /\ StreamAgrees(H, n)
  BY Zenon, Here DEF Base, ChanInv, Agrees
<1>1. PICK c \in Seq(Messages) : c = chan[n]
  BY Zenon, Shapes DEF Base
<1>2. PICK s \in Nat, e \in Nat, l \in Nat, k \in {0, 1} :
          s = StreamOff(n) /\ e = End(n) /\ l = Len(c) /\ k = Skip(n) /\ e = s + l - k /\ l >= k
  BY <1>1, FlowTypes
<1>11. k \in Nat
  BY <1>2
<1>3. PICK h : h = H[StreamId(n)]
  BY Zenon
<1> DEFINE g == [i \in 0 .. l |-> IF i < k THEN data[n] ELSE h[s + i - k]]
<1>4. ASSUME NEW i \in 1 .. l, i > k
      PROVE  h[s + i - k] = Read(h[s + (i - 1) - k], c[i])
  <2>1. PICK o \in Int : o = s + i - k
    BY <1>11
  <2>2. o \in s + 1 .. e /\ o - 1 = s + (i - 1) - k /\ o - s + k = i
    <3>1. e = s + l - k /\ i > k /\ i \in 1 .. l
      BY <1>2, <1>4
    <3>2. o >= s + 1 /\ o <= e
      BY <1>11, <2>1, <3>1
    <3>3. o - 1 = s + (i - 1) - k /\ o - s + k = i
      BY <1>11, <2>1, <3>1
    <3> QED BY <3>2, <3>3
  <2>3. h[o] = Append(h[o - 1], Cmd(n, o))
    BY Zenon, <1>0, <1>2, <1>3, <2>2 DEF StreamAgrees
  <2>4. Cmd(n, o) = c[i].w
    BY Zenon, <1>1, <1>2, <2>2 DEF Cmd
  <2>5. i > 1 \/ repl_state[n] = "connected"
    BY Zenon, <1>2, <1>4 DEF Skip
  <2>6. c[i].t = "cmd"
    BY Zenon, <1>0, <1>1, <1>2, <2>5 DEF ChanOk
  <2>7. Read(h[o - 1], c[i]) = Append(h[o - 1], c[i].w)
    BY Zenon, <2>6 DEF Read
  <2> QED BY Zenon, <2>1, <2>2, <2>3, <2>4, <2>7
<1>5. k = 0 => h[s] = data[n]
  <2> SUFFICES ASSUME k = 0 PROVE h[s] = data[n]
    BY Zenon
  <2>1. repl_state[n] = "connected"
    BY <1>2 DEF Skip
  <2>2. Placed(n)
    BY Zenon, <1>0, <2>1 DEF RoleOk, Placed
  <2>3. s = master_repl_offset[n] /\ StreamId(n) = replid[n]
    BY Zenon, <1>2, <2>1 DEF StreamOff, StreamId
  <2> QED BY Zenon, <1>0, <1>3, <2>2, <2>3 DEF PlaceAgrees
<1>6. k = 1 => h[s] = Read(data[n], c[1])
  <2> SUFFICES ASSUME k = 1 PROVE h[s] = Read(data[n], c[1])
    OBVIOUS
  <2>1. repl_state[n] # "connected" /\ (Resumes(n) \/ Reloads(n))
    BY <1>2 DEF Skip, Flowing
  <2>2. Head(c) = c[1]
    BY <1>2
  <2>3. CASE Reloads(n)
    <3>1. c[1].t = "full"
      BY Zenon, <1>1, <2>2, <2>3 DEF Reloads
    <3>2. Read(data[n], c[1]) = c[1].rdb.data
      BY <3>1 DEF Read
    <3>3. h[s] = c[1].rdb.data
      BY Zenon, <1>0, <1>1, <1>2, <1>3, <2>2, <2>3 DEF StreamAgrees
    <3> QED BY Zenon, <3>2, <3>3
  <2>4. CASE Resumes(n)
    <3>1. c[1].t = "cont" /\ c # <<>>
      BY Zenon, <1>1, <2>2, <2>4 DEF Resumes
    <3>2. Read(data[n], c[1]) = data[n]
      BY Zenon, <3>1 DEF Read
    <3>3. s = master_repl_offset[n]
      BY Zenon, <1>2, <2>4 DEF StreamOff
    <3>4. ~ Reloads(n)
      BY Zenon, <1>1, <2>2, <3>1 DEF Reloads
    <3>5. repl_state[n] = "psync"
      <4>1. repl_state[n] \in States
        BY Shapes DEF Base
      <4> QED BY Zenon, <1>0, <1>1, <2>1, <3>1, <3>4, <4>1 DEF LinkOk, ChanOk, States
    <3>6. master[n] # NoMaster
      <4>1. c # <<[t |-> "err"]>>
        BY <3>1
      <4> QED BY Zenon, <1>0, <1>1, <3>1, <3>4, <3>5, <4>1 DEF ChanOk
    <3>7. h[s] = H[replid[n]][s]
      BY <1>0, <1>2, <1>3, <2>4, <3>3 DEF StreamAgrees
    <3>8. H[replid[n]][s] = data[n]
      BY Zenon, <1>0, <3>3, <3>6 DEF PlaceAgrees, Placed
    <3> QED BY Zenon, <3>2, <3>7, <3>8
  <2> QED BY Zenon, <2>1, <2>3, <2>4
<1>7. ASSUME NEW i \in 0 .. l
      PROVE  g[i] = IF i = 0 THEN data[n] ELSE Read(g[i - 1], c[i])
  <2>1. CASE i = 0
    <3>1. k = 0 => s + i - k = s
      BY <2>1
    <3> QED BY <1>2, <1>5, <2>1, <3>1
  <2>2. CASE i # 0 /\ i > k
    <3>1. i \in 1 .. l /\ i - 1 \in 0 .. l /\ ~ (i < k) /\ ~ (i - 1 < k)
      BY <1>2, <2>2
    <3>2. g[i] = h[s + i - k] /\ g[i - 1] = h[s + (i - 1) - k]
      BY <3>1
    <3> HIDE DEF g
    <3> QED BY Zenon, <1>4, <2>2, <3>1, <3>2
  <2>3. CASE i # 0 /\ ~ (i > k)
    <3>1. k = 1 /\ i = 1 /\ 0 \in 0 .. l /\ s + i - k = s /\ i - 1 = 0
      BY <1>2, <2>3
    <3>2. g[1] = h[s] /\ g[0] = data[n]
      BY <3>1
    <3> HIDE DEF g
    <3> QED BY Zenon, <1>6, <3>1, <3>2
  <2> QED BY Zenon, <2>1, <2>2, <2>3
<1>8. g = [i \in 0 .. l |-> IF i = 0 THEN data[n] ELSE Read(g[i - 1], c[i])]
  <2>1. g = [i \in 0 .. l |-> g[i]]
    OBVIOUS
  <2> HIDE DEF g
  <2> QED BY Zenon, <1>7, <2>1
<1>9. g[l] = h[e]
  <2>1. l \in 0 .. l /\ ~ (l < k) /\ s + l - k = e
    BY <1>2, <1>11
  <2>2. g[l] = h[s + l - k]
    BY <2>1
  <2> QED BY <2>1, <2>2
<1> HIDE DEF g
<1>10. l = Len(chan[n]) /\ h[e] = H[StreamId(n)][End(n)]
  BY <1>1, <1>2, <1>3
<1> QED BY Zenon, <1>1, <1>8, <1>9, <1>10

-----------------------------------------------------------------------------
(* Every step keeps the types.                                             *)

\* Closing links keeps the types of what they consist of.
LEMMA CloseType ==
    ASSUME TypeInv, NEW down, NEW eof, CloseLinks(down, eof)
    PROVE  /\ link' \in [Nodes -> {"down", "open", "eof"}]
           /\ slave' \in [Nodes -> {"none", "wait", "online"}]
           /\ req' \in [Nodes -> [replid : Ids, offset : Int]]
<1>1. NoReq \in [replid : Ids, offset : Int]
  BY DEF NoReq, NoId, Ids
<1> QED BY <1>1 DEF CloseLinks, TypeInv, TypeOK

\* So does dropping what was not read.
LEMMA UnreadType ==
    ASSUME TypeInv, NEW down, chan' = Unread(down)
    PROVE  chan' \in [Nodes -> Seq(Messages)]
<1>1. <<>> \in Seq(Messages)
  OBVIOUS
<1> QED BY <1>1 DEF Unread, TypeInv, TypeOK

\* A new ID.
LEMMA NewIdType ==
    ASSUME TypeInv, NEW n \in Nodes, NEW id2 \in Ids, NEW offset2 \in Int, NewId(n, id2, offset2)
    PROVE  /\ replid' \in [Nodes -> Ids] /\ replid2' \in [Nodes -> Ids]
           /\ second_replid_offset' \in [Nodes -> Int] /\ nextid' \in [Nodes -> Nat]
<1>1. nextid[n] \in Nat /\ Id(n, nextid[n]) \in Ids
  BY DEF TypeInv, TypeOK, Id, Ids
<1> QED BY <1>1 DEF NewId, TypeInv, TypeOK

\* A write that enters the stream of n.
LEMMA FeedStreamType ==
    ASSUME TypeInv, NEW n \in Nodes, NEW w \in Nat, FeedStream(n, w)
    PROVE  /\ master_repl_offset' \in [Nodes -> Nat]
           /\ backlog' \in [Nodes -> [off : Nat, items : Seq(Nat)]]
<1>1. CASE HasBacklog(n)
  <2>1. PICK k \in Nat, old \in Seq(Nat) : backlog[n] = [off |-> k, items |-> old]
    BY BacklogFields, Zenon
  <2>2. PICK j \in Nat, its \in Seq(Nat) : Grown(k, old, w, j, its)
    BY Zenon, FeedBacklog
  <2>3. backlog' = [backlog EXCEPT ![n] = [off |-> j, items |-> its]]
    BY Zenon, <1>1, <2>1, <2>2 DEF FeedStream, Grown
  <2>4. master_repl_offset \in [Nodes -> Nat]
        /\ master_repl_offset' = [master_repl_offset EXCEPT ![n] = @ + 1]
    BY Zenon, <1>1 DEF FeedStream, TypeInv, TypeOK
  <2>5. master_repl_offset' \in [Nodes -> Nat]
    BY <2>4
  <2>6. PICK b \in [off : Nat, items : Seq(Nat)] : b = [off |-> j, items |-> its]
    BY Zenon
  <2>7. backlog' \in [Nodes -> [off : Nat, items : Seq(Nat)]]
    BY Zenon, <2>3, <2>6 DEF TypeInv, TypeOK
  <2> QED BY Zenon, <2>5, <2>7
<1>2. CASE ~ HasBacklog(n)
  BY Zenon, <1>2 DEF FeedStream, TypeInv, TypeOK
<1> QED BY <1>1, <1>2

\* What the replicas of n are sent.
LEMMA ToSlavesType ==
    ASSUME NEW n \in Nodes, NEW w \in Nat, NEW ch \in [Nodes -> Seq(Messages)]
    PROVE  ToSlaves(n, w, ch) \in [Nodes -> Seq(Messages)]
<1>1. [t |-> "cmd", w |-> w] \in [t : {"cmd"}, w : Nat]
  OBVIOUS
<1>2. PICK msg \in Messages : msg = [t |-> "cmd", w |-> w]
  BY <1>1, Zenon DEF Messages
<1>3. \A x \in Nodes : Append(ch[x], msg) \in Seq(Messages)
  OBVIOUS
<1> QED BY Zenon, <1>2, <1>3 DEF ToSlaves

\* An RDB file has the type of dump.rdb.
LEMMA RdbIsDisk ==
    ASSUME NEW r \in RdbFile
    PROVE  r \in [data : Seq(Nat), replid : Ids, offset : Int, info : BOOLEAN]
BY DEF RdbFile

\* Asking for a resynchronisation and getting it keep the types.
LEMMA TypeSync ==
    ASSUME Base, NEW n \in Nodes, Connect(n) \/ SyncCommand(n) \/ StartBgsave(n)
    PROVE  TypeOK'
<1> USE DEF Base
<1>1. CASE Connect(n)
  <2>1. repl_state' \in [Nodes -> States] /\ link' \in [Nodes -> {"down", "open", "eof"}]
    BY Zenon, <1>1, Types DEF Connect, States
  <2>2. PICK r \in [replid : Ids, offset : Int] : r = PsyncRequest(n)
    <3>1. master[n].replid \in Ids /\ master[n].reploff \in Int
      BY Zenon, Types
    <3>2. master[n].reploff + 1 \in Int
      BY <3>1
    <3>3. [replid |-> master[n].replid, offset |-> master[n].reploff + 1]
          \in [replid : Ids, offset : Int]
      BY <3>1, <3>2
    <3>4. [replid |-> NoId, offset |-> -1] \in [replid : Ids, offset : Int]
      BY Values
    <3> QED BY Zenon, <3>3, <3>4 DEF PsyncRequest
  <2>3. req' \in [Nodes -> [replid : Ids, offset : Int]]
    BY Zenon, <1>1, <2>2, Types DEF Connect
  <2> QED BY Zenon, <1>1, <2>1, <2>3, Types DEF Connect, idVars, bounds, TypeOK, States
<1>2. CASE SyncCommand(n)
  <2>0. PICK m \in Nodes : m = masterhost[n]
    <3>1. masterhost[n] # None
      BY Zenon, <1>2 DEF SyncCommand, LinkInv, LinkOk
    <3> QED BY Zenon, <3>1, Types
  <2>1. req' \in [Nodes -> [replid : Ids, offset : Int]]
    BY Zenon, <1>2, Types, Values DEF SyncCommand
  <2>2. CASE SyncRefused(n, m)
    <3>1. PICK e \in Messages : e = [t |-> "err"]
      BY Zenon, MessageKinds
    <3>2. Append(chan[n], e) \in Seq(Messages)
      BY Types
    <3>3. chan' \in [Nodes -> Seq(Messages)]
      BY Zenon, <2>2, <3>1, <3>2, Types DEF SyncRefused
    <3> QED BY Zenon, <1>2, <2>1, <2>2, <3>3, Types DEF SyncCommand, SyncRefused, idVars, bounds, TypeOK, States
  <2>3. CASE SyncPartial(n, m)
    <3>1. slave' \in [Nodes -> {"none", "wait", "online"}]
      BY Zenon, <2>3, Types DEF SyncPartial
    <3>2. PICK e \in Messages : e = [t |-> "cont", replid |-> replid[m]]
      BY Zenon, MessageKinds, Types
    <3>3. Continuation(m, req[n].offset) \in Seq(Messages)
      <4>1. req[n].offset \in Int
        BY Zenon, Types
      <4>2. /\ HasBacklog(m) /\ req[n].offset >= backlog[m].off
            /\ req[n].offset <= backlog[m].off + Len(backlog[m].items)
        BY <2>3 DEF SyncPartial, InBacklog
      <4> QED BY Zenon, <4>1, <4>2, ContinuationType
    <3>4. PICK c \in Seq(Messages) : c = Continuation(m, req[n].offset)
      BY Zenon, <3>3
    <3>5. chan[n] \o <<e>> \o c \in Seq(Messages)
      BY Types
    <3>6. chan' \in [Nodes -> Seq(Messages)]
      BY Zenon, <2>3, <3>2, <3>4, <3>5, Types DEF SyncPartial
    <3> QED BY Zenon, <1>2, <2>1, <2>3, <3>1, <3>6, Types DEF SyncCommand, SyncPartial, idVars, bounds, TypeOK, States
  <2>4. CASE SyncFull(n, m)
    <3>1. slave' \in [Nodes -> {"none", "wait", "online"}] /\ chan' = chan
      BY <2>4, Types DEF SyncFull
    <3>2. CASE NeedsBacklog(m)
      <4>1. NewId(m, NoId, -1) /\ backlog' = [backlog EXCEPT ![m] = EmptyBacklog(master_repl_offset[m])]
        BY Zenon, <2>4, <3>2 DEF SyncFull
      <4>0. PICK o \in Nat : o = master_repl_offset[m]
        BY NumTypes
      <4>2. PICK b \in [off : Nat, items : Seq(Nat)] : b = EmptyBacklog(o)
        BY Zenon, Values
      <4>3. backlog' \in [Nodes -> [off : Nat, items : Seq(Nat)]]
        <5>1. backlog' = [backlog EXCEPT ![m] = b]
          BY Zenon, <4>0, <4>1, <4>2
        <5> QED BY Zenon, <5>1, Types
      <4>4. /\ replid' \in [Nodes -> Ids] /\ replid2' \in [Nodes -> Ids]
            /\ second_replid_offset' \in [Nodes -> Int] /\ nextid' \in [Nodes -> Nat]
        <5>1. -1 \in Int /\ NoId \in Ids
          BY Values
        <5> QED BY Zenon, <4>1, <5>1, NewIdType
      <4> QED BY Zenon, <1>2, <2>1, <3>1, <4>3, <4>4, Types DEF SyncCommand, bounds, TypeOK, States
    <3>3. CASE ~ NeedsBacklog(m)
      BY Zenon, <1>2, <2>1, <2>4, <3>1, <3>3, Types DEF SyncCommand, SyncFull, idVars, bounds, TypeOK, States
    <3> QED BY Zenon, <3>2, <3>3
  <2> QED BY Zenon, <1>2, <2>0, <2>2, <2>3, <2>4 DEF SyncCommand
<1>3. CASE StartBgsave(n)
  <2> DEFINE W == {x \in Slaves(n) : slave[x] = "wait"}
  <2>1. CASE SavesInfo(n)
    <3>0. /\ slave' = [x \in Nodes |-> IF x \in W THEN "online" ELSE slave[x]]
          /\ chan' = [x \in Nodes |-> IF x \in W
                        THEN Append(chan[x], [t |-> "full", rdb |-> Snapshot(n)]) ELSE chan[x]]
          /\ disk' = IF setup.diskless THEN disk ELSE [disk EXCEPT ![n] = Snapshot(n)]
          /\ UNCHANGED <<link, req>>
      BY Zenon, <1>3, <2>1 DEF StartBgsave
    <3> HIDE DEF W
    <3>1. slave' \in [Nodes -> {"none", "wait", "online"}]
      BY Zenon, <3>0, Types
    <3>2. PICK r \in RdbFile : r = Snapshot(n)
      BY Zenon, SnapshotType
    <3>3. PICK e \in Messages : e = [t |-> "full", rdb |-> r]
      BY Zenon, MessageKinds
    <3>4. \A x \in Nodes : Append(chan[x], e) \in Seq(Messages)
      BY Types
    <3>5. chan' \in [Nodes -> Seq(Messages)]
      BY Zenon, <3>0, <3>2, <3>3, <3>4, Types
    <3>6. disk' \in [Nodes -> [data : Seq(Nat), replid : Ids, offset : Int, info : BOOLEAN]]
      BY Zenon, <3>0, <3>2, RdbIsDisk, Types
    <3> QED BY Zenon, <1>3, <3>0, <3>1, <3>5, <3>6, Types DEF StartBgsave, idVars, bounds, TypeOK, States
  <2>2. CASE ~ SavesInfo(n)
    <3>1. CloseLinks({}, W) /\ UNCHANGED <<chan, disk>>
      BY Zenon, <1>3, <2>2 DEF StartBgsave
    <3> HIDE DEF W
    <3> QED BY Zenon, <1>3, <3>1, CloseType, Types DEF StartBgsave, idVars, bounds, TypeOK, States
  <2> QED BY <2>1, <2>2
<1> QED BY Zenon, <1>1, <1>2, <1>3

\* So do the steps of a replica that gets an answer.
LEMMA TypeReply ==
    ASSUME Base, NEW n \in Nodes,
           \/ ContinueReply(n) \/ FullResyncReply(n) \/ ErrorReply(n)
           \/ LoadRdb(n) \/ LoadRdbFails(n) \/ Apply(n)
    PROVE  TypeOK'
<1> USE DEF Base
<1>0. chan[n] # <<>> /\ chan[n] \in Seq(Messages)
  BY Types DEF ContinueReply, FullResyncReply, ErrorReply, LoadRdb, LoadRdbFails, Apply
<1>1. PICK tail \in Seq(Messages) : tail = Tail(chan[n])
  BY Zenon, <1>0, HeadTail
<1>2. PICK head \in Messages : head = Head(chan[n])
  BY Zenon, <1>0, HeadTail
<1>3. CASE ContinueReply(n)
  <2>1. PICK id \in Ids : id = head.replid
    BY Zenon, <1>2, <1>3, MessageFields DEF ContinueReply
  <2>2. replid' \in [Nodes -> Ids] /\ replid2' \in [Nodes -> Ids]
    BY Zenon, <1>2, <1>3, <2>1, Types DEF ContinueReply
  <2>3. second_replid_offset' \in [Nodes -> Int]
    <3>1. PICK o \in Int : o = master_repl_offset[n] + 1
      <4>1. master_repl_offset[n] \in Nat
        BY Zenon, Types
      <4> HIDE DEF Base
      <4> QED BY <4>1
    <3> QED BY Zenon, <1>3, <3>1, Types DEF ContinueReply
  <2>4. master' \in [Nodes -> [replid : Ids, reploff : Int]]
    <3>1. master[n] \in [replid : Ids, reploff : Int]
      BY Types
    <3>2. PICK a \in [replid : Ids, reploff : Int] : a = [master[n] EXCEPT !.replid = id]
      BY Zenon, <3>1
    <3>3. master' = [master EXCEPT ![n] = a]
      BY Zenon, <1>2, <1>3, <2>1, <3>2, Types DEF ContinueReply
    <3> QED BY <3>3, Types
  <2>5. PICK eof : CloseLinks({}, eof)
    BY Zenon, <1>3 DEF ContinueReply
  <2>6. backlog' \in [Nodes -> [off : Nat, items : Seq(Nat)]]
    <3>1. PICK b \in [off : Nat, items : Seq(Nat)] : b = BacklogToResume(n)
      BY Zenon, Types, Values DEF BacklogToResume
    <3> QED BY Zenon, <1>3, <3>1, Types DEF ContinueReply
  <2>7. chan' \in [Nodes -> Seq(Messages)] /\ repl_state' \in [Nodes -> States]
    BY Zenon, <1>1, <1>3, Types DEF ContinueReply, States
  <2> QED BY ZenonT(60), <1>3, <2>2, <2>3, <2>4, <2>5, <2>6, <2>7, CloseType, Types
          DEF ContinueReply, bounds, TypeOK, States
<1>4. CASE FullResyncReply(n)
  <2>1. master' \in [Nodes -> [replid : Ids, reploff : Int]]
        /\ backlog' \in [Nodes -> [off : Nat, items : Seq(Nat)]]
    BY ZenonT(60), <1>4, Types, Values DEF FullResyncReply
  <2>2. PICK down, eof : CloseLinks(down, eof)
    BY <1>4 DEF FullResyncReply
  <2>3. chan' \in [Nodes -> Seq(Messages)]
    BY Zenon, <1>4, Types, UnreadType DEF FullResyncReply
  <2>4. repl_state' \in [Nodes -> States] /\ nfaults' \in Nat
    <3>1. repl_state' \in [Nodes -> States]
      BY Zenon, <1>4, Types DEF FullResyncReply, States
    <3>2. nfaults' \in Nat
      BY <1>4, NumTypes DEF FullResyncReply
    <3> QED BY <3>1, <3>2
  <2> QED BY Zenon, <1>4, <2>1, <2>2, <2>3, <2>4, CloseType, Types
          DEF FullResyncReply, idVars, TypeOK, States
<1>5. CASE ErrorReply(n)
  <2>1. repl_state' \in [Nodes -> States]
    BY Zenon, <1>5, Types DEF ErrorReply, States
  <2> QED BY Zenon, <1>5, <2>1, CloseType, UnreadType, Types DEF ErrorReply, idVars, bounds, TypeOK, States
<1>6. CASE LoadRdb(n) \/ LoadRdbFails(n)
  <2>1. PICK r \in RdbFile : r = Head(chan[n]).rdb
    BY Zenon, <1>2, <1>6, MessageFields DEF LoadRdb, LoadRdbFails, ChanInv, ChanOk, Reloads
  <2>2. /\ r.data \in Seq(Nat) /\ r.replid \in Ids /\ r.offset \in Nat
        /\ r.offset \in Int
    BY DEF RdbFile
  <2>3. disk' \in [Nodes -> [data : Seq(Nat), replid : Ids, offset : Int, info : BOOLEAN]]
    BY Zenon, <1>6, <2>1, RdbIsDisk, Types DEF LoadRdb, LoadRdbFails
  <2>4. repl_state' \in [Nodes -> States]
    BY Zenon, <1>6, Types DEF LoadRdb, LoadRdbFails, States
  <2>5. data' \in [Nodes -> Seq(Nat)]
    <3>1. PICK d \in Seq(Nat) : d = r.data
      BY Zenon, <2>2
    <3>2. data' = [data EXCEPT ![n] = d] \/ data' = [data EXCEPT ![n] = <<>>]
      BY Zenon, <1>6, <2>1, <3>1 DEF LoadRdb, LoadRdbFails
    <3>3. data \in [Nodes -> Seq(Nat)] /\ <<>> \in Seq(Nat)
      BY Types
    <3> QED BY Zenon, <3>2, <3>3
  <2>6. CASE LoadRdb(n)
    <3>1. PICK m \in [replid : Ids, reploff : Int] : m = [replid |-> r.replid, reploff |-> r.offset]
      BY Zenon, <2>2
    <3>2. master' \in [Nodes -> [replid : Ids, reploff : Int]]
      BY Zenon, <2>6, <2>1, <3>1, Types DEF LoadRdb
    <3>3. PICK b \in [off : Nat, items : Seq(Nat)] : b = EmptyBacklog(r.offset)
      BY Zenon, <2>2, Values
    <3>4. backlog' \in [Nodes -> [off : Nat, items : Seq(Nat)]]
      BY Zenon, <2>1, <2>6, <3>3, Types DEF LoadRdb
    <3>5. /\ replid' \in [Nodes -> Ids] /\ replid2' \in [Nodes -> Ids]
          /\ master_repl_offset' \in [Nodes -> Nat] /\ second_replid_offset' \in [Nodes -> Int]
      <4>1. PICK id \in Ids : id = r.replid
        BY <2>2
      <4>2. PICK o \in Nat : o = r.offset
        BY Zenon, <2>2
      <4>3. /\ replid' = [replid EXCEPT ![n] = id] /\ replid2' = [replid2 EXCEPT ![n] = NoId]
            /\ master_repl_offset' = [master_repl_offset EXCEPT ![n] = o]
            /\ second_replid_offset' = [second_replid_offset EXCEPT ![n] = -1]
        BY Zenon, <2>1, <2>6, <4>1, <4>2 DEF LoadRdb
      <4>4. NoId \in Ids /\ replid \in [Nodes -> Ids] /\ replid2 \in [Nodes -> Ids]
        BY Zenon, Types, Values
      <4>5. master_repl_offset \in [Nodes -> Nat] /\ second_replid_offset \in [Nodes -> Int]
        BY Zenon, NumTypes
      <4>6. -1 \in Int
        OBVIOUS
      <4> QED BY Zenon, <4>3, <4>4, <4>5, <4>6
    <3>6. chan' \in [Nodes -> Seq(Messages)]
      BY Zenon, <1>1, <2>6, Types DEF LoadRdb
    <3> QED BY ZenonT(60), <2>3, <2>4, <2>5, <2>6, <3>2, <3>4, <3>5, <3>6, Types
            DEF LoadRdb, bounds, TypeOK, States
  <2>7. CASE LoadRdbFails(n)
    <3>1. nfaults' \in Nat
      <4>1. nfaults' = nfaults + 1 /\ nfaults \in Nat
        BY Zenon, <2>7, NumTypes DEF LoadRdbFails
      <4> QED BY <4>1
    <3> QED BY Zenon, <2>3, <2>4, <2>5, <2>7, <3>1, CloseType, UnreadType, Types
            DEF LoadRdbFails, idVars, TypeOK, States
  <2> QED BY Zenon, <1>6, <2>6, <2>7
<1>7. CASE Apply(n)
  <2>1. head.t = "cmd"
    <3>1. 1 \in 1 .. Len(chan[n]) /\ Head(chan[n]) = chan[n][1]
      <4>1. Head(chan[n]) = chan[n][1] /\ Len(chan[n]) \in Nat /\ Len(chan[n]) >= 1
        BY Zenon, <1>0, HeadTail
      <4>2. 1 \in 1 .. Len(chan[n])
        BY <4>1
      <4> QED BY Zenon, <4>1, <4>2
    <3> QED BY Zenon, <1>2, <1>7, <3>1 DEF Apply, ChanInv, ChanOk
  <2>2. PICK w \in Nat : w = Head(chan[n]).w
    BY Zenon, <1>2, <2>1, MessageFields
  <2>3. data' \in [Nodes -> Seq(Nat)]
    BY <1>7, <2>2, Types DEF Apply
  <2>4. master' \in [Nodes -> [replid : Ids, reploff : Int]]
    <3>1. master[n].reploff \in Int
      BY Zenon, Types
    <3>2. PICK o \in Int : o = master[n].reploff + 1
      BY <3>1
    <3>3. master[n] \in [replid : Ids, reploff : Int]
      BY Types
    <3>4. PICK a \in [replid : Ids, reploff : Int] : a = [master[n] EXCEPT !.reploff = o]
      BY Zenon, <3>3
    <3>5. master' = [master EXCEPT ![n] = a]
      BY Zenon, <1>7, <3>2, <3>4, Types DEF Apply
    <3> QED BY Zenon, <3>5, Types
  <2>5. FeedStream(n, w)
    BY Zenon, <1>7, <2>2 DEF Apply
  <2>6. chan' \in [Nodes -> Seq(Messages)]
    <3>1. PICK ch \in [Nodes -> Seq(Messages)] : ch = [chan EXCEPT ![n] = Tail(@)]
      BY Zenon, <1>1, Types
    <3>2. chan' = ToSlaves(n, w, ch)
      BY Zenon, <1>7, <2>2, <3>1 DEF Apply
    <3> QED BY Zenon, <3>2, ToSlavesType
  <2> QED BY Zenon, <1>7, <2>3, <2>4, <2>5, <2>6, FeedStreamType, Types DEF Apply, idVars, bounds, TypeOK, States
<1> QED BY Zenon, <1>3, <1>4, <1>5, <1>6, <1>7

\* The other steps.
LEMMA TypeOther ==
    ASSUME Base, NEW n \in Nodes,
           \/ Write(n) \/ LinkLost(n) \/ DropSlave(n) \/ BacklogExpire(n) \/ ResizeBacklog(n)
           \/ (\E h \in Nodes : SetMaster(n, h)) \/ UnsetMaster(n) \/ SaveRdb(n)
           \/ (\E h \in Nodes \cup {None} : CrashRestart(n, h))
    PROVE  TypeOK'
<1> USE DEF Base
<1>0. nfaults + 1 \in Nat /\ nreconf + 1 \in Nat /\ nwrites + 1 \in Nat /\ nsaves + 1 \in Nat
      /\ ncrashes + 1 \in Nat /\ master_repl_offset[n] + 1 \in Int /\ -1 \in Int
      /\ nextid[n] + 1 \in Nat
  BY NumTypes
<1>1. CASE Write(n)
  <2>1. PICK w \in Nat : w = nwrites + 1
    BY Zenon, <1>0
  <2>2. data' \in [Nodes -> Seq(Nat)]
    BY <1>1, <2>1, Types DEF Write
  <2>3. FeedStream(n, w) /\ chan' = ToSlaves(n, w, chan) /\ nwrites' \in Nat
    BY Zenon, <1>1, <2>1 DEF Write
  <2>4. chan' \in [Nodes -> Seq(Messages)]
    BY Zenon, <2>3, ToSlavesType, Types
  <2> QED BY Zenon, <1>1, <2>2, <2>3, <2>4, FeedStreamType, Types DEF Write, idVars, TypeOK, States
<1>2. CASE LinkLost(n)
  <2>1. master' \in [Nodes -> [replid : Ids, reploff : Int]]
    BY Zenon, <1>2, Types, Values DEF LinkLost
  <2>2. repl_state' \in [Nodes -> States]
    BY Zenon, <1>2, Types DEF LinkLost, States
  <2>3. nfaults' \in Nat
    BY Zenon, <1>0, <1>2, NumTypes DEF LinkLost
  <2> QED BY Zenon, <1>2, <2>1, <2>2, <2>3, CloseType, UnreadType, Types DEF LinkLost, idVars, TypeOK, States
<1>3. CASE DropSlave(n)
  <2>1. nfaults' \in Nat
    BY Zenon, <1>0, <1>3 DEF DropSlave
  <2> QED BY Zenon, <1>3, <2>1, CloseType, Types DEF DropSlave, idVars, TypeOK, States
<1>4. CASE BacklogExpire(n)
  <2>1. NewId(n, NoId, -1) /\ nfaults' \in Nat
    BY Zenon, <1>0, <1>4 DEF BacklogExpire, NewHistory
  <2>2. backlog' \in [Nodes -> [off : Nat, items : Seq(Nat)]]
    BY Zenon, <1>4, Types, Values DEF BacklogExpire
  <2>3. /\ replid' \in [Nodes -> Ids] /\ replid2' \in [Nodes -> Ids]
        /\ second_replid_offset' \in [Nodes -> Int] /\ nextid' \in [Nodes -> Nat]
    BY Zenon, <1>0, <2>1, Values, NewIdType
  <2> QED BY Zenon, <1>4, <2>1, <2>2, <2>3, Types DEF BacklogExpire, linkVars, TypeOK, States
<1>5. CASE ResizeBacklog(n)
  <2>1. PICK o \in Nat : o = master_repl_offset[n]
    BY NumTypes
  <2>2. PICK b \in [off : Nat, items : Seq(Nat)] : b = EmptyBacklog(o)
    BY Zenon, Values
  <2>3. backlog' = [backlog EXCEPT ![n] = b] /\ nfaults' \in Nat
    BY Zenon, <1>0, <1>5, <2>1, <2>2 DEF ResizeBacklog
  <2>4. backlog' \in [Nodes -> [off : Nat, items : Seq(Nat)]]
    BY Zenon, <2>3, Types
  <2> QED BY Zenon, <1>5, <2>3, <2>4, Types DEF ResizeBacklog, idVars, linkVars, TypeOK, States
<1>6. ASSUME NEW h \in Nodes, SetMaster(n, h) PROVE TypeOK'
  <2>1. PICK a \in [replid : Ids, reploff : Int] : a = MyselfAsMaster(n)
    <3>1. replid[n] \in Ids /\ master_repl_offset[n] \in Int
      BY Types
    <3> QED BY Zenon, <3>1 DEF MyselfAsMaster
  <2>2. master' \in [Nodes -> [replid : Ids, reploff : Int]]
    BY Zenon, <1>6, <2>1, Types DEF SetMaster
  <2>3. masterhost' \in [Nodes -> Nodes \cup {None}] /\ repl_state' \in [Nodes -> States]
    BY Zenon, <1>6, Types DEF SetMaster, States
  <2>4. nreconf' \in Nat
    BY Zenon, <1>0, <1>6 DEF SetMaster
  <2> QED BY Zenon, <1>6, <2>2, <2>3, <2>4, CloseType, UnreadType, Types DEF SetMaster, idVars, TypeOK, States
<1>7. CASE UnsetMaster(n)
  <2>1. PICK o \in Int : o = ShiftOffset(n)
    BY Zenon, <1>0 DEF ShiftOffset
  <2>2. NewId(n, replid[n], o) /\ replid[n] \in Ids
    BY Zenon, <1>7, <2>1, Types DEF UnsetMaster, PromotedId
  <2>3. /\ replid' \in [Nodes -> Ids] /\ replid2' \in [Nodes -> Ids]
        /\ second_replid_offset' \in [Nodes -> Int] /\ nextid' \in [Nodes -> Nat]
    BY Zenon, <2>2, NewIdType
  <2>4. master' \in [Nodes -> [replid : Ids, reploff : Int]]
    BY Zenon, <1>7, Types, Values DEF UnsetMaster
  <2>5. masterhost' \in [Nodes -> Nodes \cup {None}] /\ repl_state' \in [Nodes -> States]
    BY Zenon, <1>7, Types DEF UnsetMaster, States
  <2>6. nreconf' \in Nat
    BY Zenon, <1>0, <1>7 DEF UnsetMaster
  <2> QED BY ZenonT(60), <1>7, <2>3, <2>4, <2>5, <2>6, CloseType, UnreadType, Types DEF UnsetMaster, TypeOK, States
<1>8. CASE SaveRdb(n)
  <2>1. PICK r \in RdbFile : r = Snapshot(n)
    BY SnapshotType
  <2>2. disk' \in [Nodes -> [data : Seq(Nat), replid : Ids, offset : Int, info : BOOLEAN]]
    BY Zenon, <1>8, <2>1, RdbIsDisk, Types DEF SaveRdb
  <2>3. nsaves' \in Nat
    BY Zenon, <1>0, <1>8 DEF SaveRdb
  <2> QED BY Zenon, <1>8, <2>2, <2>3, Types DEF SaveRdb, idVars, linkVars, TypeOK, States
<1>9. ASSUME NEW h \in Nodes \cup {None}, CrashRestart(n, h) PROVE TypeOK'
  <2>1. /\ disk[n].data \in Seq(Nat) /\ disk[n].replid \in Ids /\ disk[n].offset \in Int
        /\ disk[n].info => disk[n].offset \in Nat
    BY Zenon, Types DEF OffsetInv, OffsetOk
  <2>2. PICK d \in Seq(Nat) : d = disk[n].data
    BY Zenon, <2>1
  <2>3. data' \in [Nodes -> Seq(Nat)]
    BY Zenon, <1>9, <2>2, Types DEF CrashRestart
  <2>4. PICK o \in Nat : o = IF RestoresId(h, disk[n]) THEN disk[n].offset ELSE 0
    BY Zenon, <2>1 DEF RestoresId
  <2>5. master_repl_offset' \in [Nodes -> Nat]
    BY Zenon, <1>9, <2>4, NumTypes DEF CrashRestart
  <2>6. second_replid_offset' \in [Nodes -> Int] /\ nextid' \in [Nodes -> Nat]
    BY Zenon, <1>0, <1>9, NumTypes DEF CrashRestart
  <2>7. PICK id \in Ids : id = IF RestoresId(h, disk[n]) THEN disk[n].replid ELSE Id(n, nextid[n])
    <3>1. Id(n, nextid[n]) \in Ids
      BY NumTypes DEF Id, Ids
    <3> QED BY Zenon, <2>1, <3>1
  <2>8. replid' \in [Nodes -> Ids] /\ replid2' \in [Nodes -> Ids]
    BY Zenon, <1>9, <2>7, Types, Values DEF CrashRestart
  <2>9. PICK a \in [replid : Ids, reploff : Int] :
            a = IF RestoresId(h, disk[n])
                  THEN [replid |-> disk[n].replid, reploff |-> disk[n].offset] ELSE NoMaster
    BY Zenon, <2>1, Values
  <2>10. master' \in [Nodes -> [replid : Ids, reploff : Int]]
    BY Zenon, <1>9, <2>9, Types DEF CrashRestart
  <2>11. backlog' \in [Nodes -> [off : Nat, items : Seq(Nat)]]
    BY Zenon, <1>9, Types, Values DEF CrashRestart
  <2>12. masterhost' \in [Nodes -> Nodes \cup {None}] /\ repl_state' \in [Nodes -> States]
    BY Zenon, <1>9, Types DEF CrashRestart, States
  <2>13. ncrashes' \in Nat
    BY Zenon, <1>0, <1>9 DEF CrashRestart
  <2>14. PICK eof : CloseLinks({n}, eof)
    BY Zenon, <1>9 DEF CrashRestart
  <2> QED BY ZenonT(60), <1>9, <2>3, <2>5, <2>6, <2>8, <2>10, <2>11, <2>12, <2>13, <2>14, CloseType, UnreadType, Types
          DEF CrashRestart, TypeOK, States
<1> QED BY Zenon, <1>1, <1>2, <1>3, <1>4, <1>5, <1>6, <1>7, <1>8, <1>9

\* Every step of the system is one.
LEMMA NextIsStep ==
    ASSUME TypeInv, Next
    PROVE  \E n \in Nodes : Step(n) /\ setup' = setup
<1>1. Members \subseteq Nodes
  BY Types
<1>2. PICK n \in Members :
          \/ Protocol(n) \/ Write(n) \/ LinkLost(n) \/ DropSlave(n)
          \/ BacklogExpire(n) \/ ResizeBacklog(n) \/ LoadRdbFails(n)
          \/ (\E h \in Members \ {n} : SetMaster(n, h))
          \/ UnsetMaster(n) \/ SaveRdb(n)
          \/ (\E h \in (Members \ {n}) \cup {None} : CrashRestart(n, h))
  BY Zenon DEF Next
<1>3. n \in Nodes
  BY Zenon, <1>1
<1>4. CASE Protocol(n)
  BY ZenonT(60), <1>3, <1>4 DEF Protocol, Step, Connect, SyncCommand, StartBgsave, ContinueReply,
        FullResyncReply, ErrorReply, LoadRdb, Apply, bounds
<1>5. CASE \/ Write(n) \/ LinkLost(n) \/ DropSlave(n) \/ BacklogExpire(n) \/ ResizeBacklog(n)
           \/ LoadRdbFails(n) \/ UnsetMaster(n) \/ SaveRdb(n)
  BY Zenon, <1>3, <1>5 DEF Step, Write, LinkLost, DropSlave, BacklogExpire, ResizeBacklog,
        LoadRdbFails, UnsetMaster, SaveRdb
<1>6. CASE \E h \in Members \ {n} : SetMaster(n, h)
  <2>1. PICK h \in Members \ {n} : SetMaster(n, h)
    BY Zenon, <1>6
  <2>2. h \in Nodes \ {n} /\ setup' = setup
    BY Zenon, <1>1, <2>1 DEF SetMaster
  <2> QED BY Zenon, <1>3, <2>1, <2>2 DEF Step
<1>7. CASE \E h \in (Members \ {n}) \cup {None} : CrashRestart(n, h)
  <2>1. PICK h \in (Members \ {n}) \cup {None} : CrashRestart(n, h)
    BY <1>7
  <2>2. h \in (Nodes \ {n}) \cup {None} /\ setup' = setup
    BY Zenon, <1>1, <2>1 DEF CrashRestart
  <2> QED BY Zenon, <1>3, <2>1, <2>2 DEF Step
<1> QED BY Zenon, <1>2, <1>4, <1>5, <1>6, <1>7

\* Every step keeps the types.
LEMMA TypeStep ==
    ASSUME Base, NEW n \in Nodes, Step(n), setup' = setup
    PROVE  TypeInv'
<1>1. TypeOK'
  BY Zenon, TypeSync, TypeReply, TypeOther DEF Step
<1> QED BY <1>1 DEF Base, TypeInv
=============================================================================
