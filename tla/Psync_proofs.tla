---------------------------- MODULE Psync_proofs ----------------------------
(***************************************************************************)
(* Replicas converge: the part of the invariant with the histories, and    *)
(* the theorems. For every step there are histories that agree with all    *)
(* instances before it and already have the place the step leads to        *)
(* (Ready): they are got by writing into the history at places that nobody *)
(* refers to, which is what the lemmas about IDs that are known, private   *)
(* or ahead are for. Those histories agree with all instances after the    *)
(* step too.                                                               *)
(***************************************************************************)
EXTENDS PsyncPlaces_proofs, PsyncStreams_proofs

USE SMTT(30), ZenonT(30)

\* A wrong second ID stays out of use.
LEMMA SecondStep ==
    ASSUME Base, Fits', NEW n \in Nodes, Step(n), NEW H \in Histories, Ready(H, n), NEW x \in Nodes
    PROVE  SecondInv(H, x)'
<1> SUFFICES ASSUME ~ SameUpTo(H, x)'
             PROVE  ~ HasBacklog(x)' /\ Private(x)' /\ ~ Resumes(x)'
  BY DEF SecondInv
<1>1. /\ replid'[x] = replid[x] /\ replid2'[x] = replid2[x]
      /\ second_replid_offset'[x] = second_replid_offset[x]
      /\ HasBacklog(x)' => HasBacklog(x) \/ Resumes(x)
  BY Zenon, SecondKept
<1>2. ~ SameUpTo(H, x)
  BY Zenon, <1>1 DEF SameUpTo
<1>3. ~ HasBacklog(x) /\ Private(x) /\ ~ Resumes(x)
  BY <1>2 DEF Ready, Agrees, SecondInv
<1>4. ~ HasBacklog(x)'
  BY Zenon, <1>1, <1>3
<1>5. Private(x)'
  BY Zenon, <1>1, <1>3, <1>4, PrivateStep
<1>6. ASSUME Resumes(x)' PROVE FALSE
  <2>1. StreamChange(n, x)
    BY Zenon, StreamStep DEF Fits
  <2>2. ~ StreamKept(x) /\ ~ StreamEnded(x) /\ \A w : ~ StreamGrown(x, w)
    BY Zenon, <1>3, <1>6 DEF StreamKept, StreamEnded, StreamGrown
  <2>3. ~ (x = n /\ StreamRead(n)) /\ ~ StreamReloaded(x, n)
    BY <1>6 DEF StreamRead, StreamReloaded
  <2>4. PICK m \in Nodes : x = n /\ StreamResumed(n, m)
    BY Zenon, <2>1, <2>2, <2>3 DEF StreamChange
  <2>5. HasBacklog(m) /\ (replid[n] = replid[m] \/ replid[n] = replid2[m])
    BY <2>4 DEF StreamResumed
  <2>6. Foreign(m, replid[x])
    BY <1>3, <2>4, <2>5 DEF Private
  <2> QED BY Zenon, <2>4, <2>5, <2>6 DEF Foreign
<1> QED BY Zenon, <1>4, <1>5, <1>6

-----------------------------------------------------------------------------
(* Rewriting a history where nobody looks.                                 *)

\* Histories that differ only at places of id after p are the same to an instance that
\* knows of none of those.
LEMMA HistorySwap ==
    ASSUME Base, NEW x \in Nodes, NEW H \in Histories, Agrees(H, x), NEW G \in Histories,
           NEW id, NEW p \in Int, Behind(x, id, p),
           \A i \in Ids, o \in Nat : i # id \/ o <= p => G[i][o] = H[i][o]
    PROVE  Agrees(G, x)
<1>0. /\ replid[x] \in Ids /\ replid2[x] \in Ids /\ disk[x].replid \in Ids
      /\ PlaceAgrees(H, x) /\ DiskAgrees(H, x) /\ StreamAgrees(H, x) /\ SecondInv(H, x)
  BY Zenon, Shapes DEF Base, Files, Agrees
<1>1. PICK e \in Nat : e = master_repl_offset[x]
  BY Here
<1>2. PICK s \in Int : s = second_replid_offset[x] /\ s <= e + 1
  BY Zenon, <1>1, Here DEF OffsetOk
<1>3. \A o \in Nat : o <= e => G[replid[x]][o] = H[replid[x]][o]
  BY <1>0, <1>1 DEF Behind
<1>4. \A o \in Nat : o < s => G[replid2[x]][o] = H[replid2[x]][o]
  BY <1>0, <1>2 DEF Behind
<1>5. PlaceAgrees(G, x)
  <2>1. PICK b \in Nat, its \in Seq(Nat) : backlog[x].off = b /\ backlog[x].items = its
    BY Zenon, BacklogFields DEF Base
  <2>2. Placed(x) => G[replid[x]][e] = data[x]
    BY <1>0, <1>1, <1>3 DEF PlaceAgrees
  <2>3. ASSUME HasBacklog(x), NEW o \in b .. e
        PROVE  G[replid[x]][o] = Append(G[replid[x]][o - 1], its[o - b + 1])
    <3>1. b # 0
      BY Zenon, <2>1, <2>3 DEF HasBacklog
    <3>2. o \in Nat /\ o - 1 \in Nat /\ o <= e /\ o - 1 <= e
      BY <2>3, <3>1
    <3>3. H[replid[x]][o] = Append(H[replid[x]][o - 1], its[o - b + 1])
      BY Zenon, <1>0, <1>1, <2>1, <2>3 DEF PlaceAgrees
    <3> QED BY Zenon, <1>3, <3>2, <3>3
  <2> QED BY Zenon, <1>1, <2>1, <2>2, <2>3 DEF PlaceAgrees
<1>6. DiskAgrees(G, x)
  <2> SUFFICES ASSUME disk[x].info PROVE G[disk[x].replid][disk[x].offset] = disk[x].data
    BY DEF DiskAgrees
  <2>1. disk[x].offset \in Nat /\ H[disk[x].replid][disk[x].offset] = disk[x].data
    BY Zenon, <1>0, Here DEF DiskAgrees
  <2> QED BY Zenon, <1>0, <2>1 DEF Behind
<1>7. StreamAgrees(G, x)
  <2>1. CASE ~ Flowing(x)
    BY Zenon, <2>1 DEF StreamAgrees, Flowing
  <2>2. CASE Flowing(x)
    <3>1. PICK t \in Nat, k \in Nat : t = StreamOff(x) /\ k = End(x) /\ t <= k
      BY Zenon, <2>2, FlowTypes
    <3>2. StreamId(x) \in Ids
      BY Zenon, <2>2, FlowTypes
    <3>3. \A o \in Nat : o <= k => G[StreamId(x)][o] = H[StreamId(x)][o]
      BY <2>2, <3>1, <3>2 DEF Behind
    <3>4. ASSUME Resumes(x), NEW o \in 0 .. e
          PROVE  G[StreamId(x)][o] = G[replid[x]][o]
      <4>1. t = e
        BY Zenon, <1>1, <3>1, <3>4 DEF StreamOff
      <4>2. o \in Nat /\ o <= e /\ o <= k
        BY <3>1, <3>4, <4>1
      <4>3. H[StreamId(x)][o] = H[replid[x]][o]
        BY Zenon, <1>0, <1>1, <3>4 DEF StreamAgrees
      <4> QED BY Zenon, <1>3, <3>3, <4>2, <4>3
    <3>5. Reloads(x) => G[StreamId(x)][t] = Head(chan[x]).rdb.data
      BY Zenon, <1>0, <3>1, <3>3 DEF StreamAgrees
    <3>6. ASSUME NEW o \in t + 1 .. k
          PROVE  G[StreamId(x)][o] = Append(G[StreamId(x)][o - 1], Cmd(x, o))
      <4>1. o \in Nat /\ o - 1 \in Nat /\ o <= k /\ o - 1 <= k
        BY <3>1, <3>6
      <4>2. H[StreamId(x)][o] = Append(H[StreamId(x)][o - 1], Cmd(x, o))
        BY Zenon, <1>0, <2>2, <3>1, <3>6 DEF StreamAgrees
      <4> QED BY Zenon, <3>3, <4>1, <4>2
    <3> QED BY ZenonT(60), <1>1, <3>1, <3>4, <3>5, <3>6 DEF StreamAgrees
  <2> QED BY Zenon, <2>1, <2>2
<1>8. SecondInv(G, x)
  <2>1. SameUpTo(H, x) => SameUpTo(G, x)
    <3> SUFFICES ASSUME SameUpTo(H, x), NEW o \in Nat, o < s
                 PROVE  G[replid2[x]][o] = G[replid[x]][o]
      BY <1>2 DEF SameUpTo
    <3>1. o <= e
      BY <1>2
    <3>2. H[replid2[x]][o] = H[replid[x]][o]
      BY <1>2 DEF SameUpTo
    <3> QED BY <1>3, <1>4, <3>1, <3>2
  <2> QED BY Zenon, <1>0, <2>1 DEF SecondInv
<1> QED BY <1>5, <1>6, <1>7, <1>8 DEF Agrees

\* A history under another ID than all that an instance knows of is open to it.
LEMMA ForeignIsBehind ==
    ASSUME NEW x, NEW id, Foreign(x, id)
    PROVE  Behind(x, id, -1)
BY DEF Foreign, Behind

\* Nobody knows the ID that an instance draws next.
LEMMA FreshIsForeign ==
    ASSUME Base, NEW m \in Nodes, NEW x \in Nodes
    PROVE  Foreign(x, Id(m, nextid[m]))
<1>1. KnownOk(x) /\ TypeInv
  BY Here DEF Base
<1>2. PICK id : id = Id(m, nextid[m])
  BY Zenon
<1>3. NoId # id
  <2>1. NoId[1] = None /\ None \notin Nodes
    BY Zenon, <1>1, Shapes DEF NoId
  <2>2. id[1] = m
    BY Zenon, <1>2 DEF Id
  <2> QED BY Zenon, <2>1, <2>2
<1> QED BY <1>1, <1>2, <1>3, NotFresh DEF KnownOk, Foreign

\* A history can be replaced.
LEMMA Replaced ==
    ASSUME NEW H \in Histories, NEW id \in Ids, NEW F \in [Nat -> Seq(Nat)]
    PROVE  \E G \in Histories : G[id] = F /\ \A i \in Ids : i # id => G[i] = H[i]
<1> DEFINE G == [i \in Ids |-> IF i = id THEN F ELSE H[i]]
<1>1. G \in Histories
  BY DEF Histories
<1>2. G[id] = F /\ \A i \in Ids : i # id => G[i] = H[i]
  OBVIOUS
<1> QED BY Zenon, <1>1, <1>2

\* There are histories with the place that a master's write leads to: nobody knows of any
\* place after that master's.
LEMMA ReadyWrite ==
    ASSUME Base, NEW n \in Nodes, Write(n), HasBacklog(n), TypeOK',
           NEW H \in Histories, \A x \in Nodes : Agrees(H, x)
    PROVE  \E G \in Histories : Ready(G, n)
<1>1. PICK p \in Nat : p = master_repl_offset[n]
  BY Zenon, Here
<1>2. PICK id \in Ids : id = replid[n]
  BY Zenon, Shapes DEF Base
<1>3. masterhost[n] = None /\ data'[n] \in Seq(Nat) /\ nwrites' # nwrites
  <2>1. nwrites \in Nat
    BY Zenon, NumTypes DEF Base
  <2>2. data'[n] \in Seq(Nat)
    BY Zenon DEF TypeOK
  <2> QED BY <2>1, <2>2 DEF Write
<1> DEFINE F == [o \in Nat |-> IF o <= p THEN H[id][o] ELSE data'[n]]
<1>4. F \in [Nat -> Seq(Nat)]
  BY Zenon, <1>3 DEF Histories
<1>5. PICK G \in Histories : G[id] = F /\ \A i \in Ids : i # id => G[i] = H[i]
  <2> HIDE DEF F
  <2> QED BY <1>4, Replaced
<1>6. \A i \in Ids, o \in Nat : i # id \/ o <= p => G[i][o] = H[i][o]
  BY Zenon, <1>5
<1>7. ASSUME NEW x \in Nodes PROVE Agrees(G, x)
  <2>1. Behind(x, id, p)
    BY Zenon, <1>1, <1>2, <1>3, Here DEF AheadOk
  <2> HIDE DEF F
  <2> QED BY <1>6, <2>1, HistorySwap
<1>8. \A o \in Nat : o = master_repl_offset[n] + 1 => G[replid[n]][o] = data'[n]
  BY <1>1, <1>2, <1>5
<1>9. ~ UnsetMaster(n) /\ ~ SyncCommand(n)
  BY Zenon, <1>3 DEF UnsetMaster, SyncCommand, bounds
<1> HIDE DEF F
<1> QED BY ZenonT(60), <1>7, <1>8, <1>9 DEF Ready

\* There are histories in which the ID of a promoted replica has the places of the old one.
LEMMA ReadyPromotion ==
    ASSUME Base, NEW n \in Nodes, UnsetMaster(n),
           NEW H \in Histories, \A x \in Nodes : Agrees(H, x)
    PROVE  \E G \in Histories : Ready(G, n)
<1>1. replid[n] \in Ids /\ nextid[n] \in Nat
  BY Shapes DEF Base
<1>2. PICK id \in Ids : id = Id(n, nextid[n])
  BY Zenon, <1>1 DEF Id, Ids
<1>3. masterhost[n] # None /\ nreconf' # nreconf
  BY NumTypes DEF UnsetMaster, Base
<1>4. H[replid[n]] \in [Nat -> Seq(Nat)]
  BY <1>1 DEF Histories
<1>5. PICK G \in Histories : G[id] = H[replid[n]] /\ \A i \in Ids : i # id => G[i] = H[i]
  BY ZenonT(60), <1>4, Replaced
<1>6. \A i \in Ids, o \in Nat : i # id \/ o <= -1 => G[i][o] = H[i][o]
  BY <1>5
<1>7. ASSUME NEW x \in Nodes PROVE Agrees(G, x)
  <2>1. Behind(x, id, -1)
    BY Zenon, <1>2, FreshIsForeign, ForeignIsBehind
  <2>2. -1 \in Int
    OBVIOUS
  <2> QED BY <1>6, <2>1, <2>2, HistorySwap
<1>8. replid[n] # id
  BY Zenon, <1>2, FreshIsForeign DEF Foreign
<1>9. \A o \in Nat : G[Id(n, nextid[n])][o] = G[replid[n]][o]
  BY Zenon, <1>1, <1>2, <1>5, <1>8
<1>10. ~ Write(n) /\ ~ SyncCommand(n)
  BY Zenon, <1>3 DEF Write, SyncCommand, bounds
<1> QED BY Zenon, <1>3, <1>7, <1>9, <1>10 DEF Ready

\* There are histories with the place where a first backlog starts, under its new ID.
LEMMA ReadyFirstBacklog ==
    ASSUME Base, NEW n \in Nodes, SyncCommand(n), NEW m \in Nodes, SyncFull(n, m), NeedsBacklog(m),
           NEW H \in Histories, \A x \in Nodes : Agrees(H, x)
    PROVE  \E G \in Histories : Ready(G, n)
<1>1. /\ nextid \in [Nodes -> Nat] /\ data[m] \in Seq(Nat) /\ master_repl_offset[m] \in Nat
      /\ nwrites \in Nat /\ nreconf \in Nat
  BY Zenon, Shapes, NumTypes DEF Base
<1>2. PICK id \in Ids : id = Id(m, nextid[m])
  BY Zenon, <1>1 DEF Id, Ids
<1>3. ~ Write(n) /\ ~ UnsetMaster(n) /\ ~ (\E h \in Nodes \ {n} : SetMaster(n, h))
  BY <1>1 DEF Write, UnsetMaster, SetMaster, SyncCommand, bounds
<1> DEFINE F == [o \in Nat |-> data[m]]
<1>4. F \in [Nat -> Seq(Nat)]
  BY Zenon, <1>1
<1>5. PICK G \in Histories : G[id] = F /\ \A i \in Ids : i # id => G[i] = H[i]
  <2> HIDE DEF F
  <2> QED BY ZenonT(60), <1>4, Replaced
<1>6. \A i \in Ids, o \in Nat : i # id \/ o <= -1 => G[i][o] = H[i][o]
  BY <1>5
<1>7. ASSUME NEW x \in Nodes PROVE Agrees(G, x)
  <2>1. Behind(x, id, -1)
    BY Zenon, <1>2, FreshIsForeign, ForeignIsBehind
  <2>2. -1 \in Int
    OBVIOUS
  <2> HIDE DEF F
  <2> QED BY <1>6, <2>1, <2>2, HistorySwap
<1>8. ASSUME NEW k \in Nodes, SyncFull(n, k), NeedsBacklog(k) PROVE k = m
  <2>1. NewId(m, NoId, -1) /\ NewId(k, NoId, -1)
    BY Zenon, <1>8, FirstBacklog
  <2>2. /\ nextid' = [nextid EXCEPT ![m] = @ + 1]
        /\ nextid' = [nextid EXCEPT ![k] = @ + 1]
    BY Zenon, <2>1 DEF NewId
  <2> QED BY <1>1, <2>2
<1>9. G[Id(m, nextid[m])][master_repl_offset[m]] = data[m]
  BY Zenon, <1>1, <1>2, <1>5
<1> HIDE DEF F
<1> QED BY Zenon, <1>3, <1>7, <1>8, <1>9 DEF Ready

\* There are histories with the place that a master without backlog takes for its own as
\* it becomes a replica: no other instance knows its ID.
LEMMA ReadyDemotion ==
    ASSUME Base, NEW n \in Nodes, masterhost[n] = None, ~ HasBacklog(n),
           \E h \in Nodes \ {n} : SetMaster(n, h),
           NEW H \in Histories, \A x \in Nodes : Agrees(H, x)
    PROVE  \E G \in Histories : Ready(G, n)
<1>1. /\ data[n] \in Seq(Nat) /\ master_repl_offset[n] \in Nat /\ nreconf \in Nat
  BY Zenon, Shapes, NumTypes DEF Base
<1>2. PICK id \in Ids : id = replid[n]
  BY Zenon, Shapes DEF Base
<1>3. ~ UnsetMaster(n) /\ ~ SyncCommand(n)
  BY <1>1 DEF UnsetMaster, SetMaster, SyncCommand, bounds
<1> DEFINE F == [o \in Nat |-> data[n]]
<1>4. F \in [Nat -> Seq(Nat)]
  BY Zenon, <1>1
<1>5. PICK G \in Histories : G[id] = F /\ \A i \in Ids : i # id => G[i] = H[i]
  <2> HIDE DEF F
  <2> QED BY ZenonT(60), <1>4, Replaced
<1>6. \A i \in Ids, o \in Nat : i # id \/ o <= -1 => G[i][o] = H[i][o]
  BY <1>5
<1>7. G[replid[n]][master_repl_offset[n]] = data[n]
  BY <1>1, <1>2, <1>5
<1> HIDE DEF F
<1>8. ASSUME NEW x \in Nodes PROVE Agrees(G, x)
  <2>0. Private(n) /\ (disk[n].info => disk[n].replid # id)
    BY Zenon, <1>2, Here DEF AheadOk
  <2>1. CASE x # n
    <3>1. Behind(x, id, -1)
      BY Zenon, <1>2, <2>0, <2>1, ForeignIsBehind DEF Private
    <3>2. -1 \in Int
      OBVIOUS
    <3> QED BY <1>6, <3>1, <3>2, HistorySwap
  <2>2. CASE x = n
    <3>1. ~ Flowing(n) /\ ~ Resumes(n) /\ ~ Reloads(n) /\ ~ Placed(n)
      <4>1. LinkOk(n) /\ RoleOk(n)
        BY Zenon, Here
      <4>2. repl_state[n] = "none" /\ chan[n] = <<>> /\ master[n] = NoMaster
        BY Zenon, <4>1 DEF LinkOk, RoleOk
      <4> QED BY Zenon, <4>2 DEF Flowing, Resumes, Reloads, Placed
    <3>2. PlaceAgrees(G, n) /\ StreamAgrees(G, n)
      BY Zenon, <3>1 DEF PlaceAgrees, StreamAgrees
    <3>3. DiskAgrees(G, n)
      <4>1. DiskAgrees(H, n) /\ disk[n].replid \in Ids
        BY Zenon, Shapes DEF Agrees, Base, Files
      <4> QED BY ZenonT(60), <1>5, <2>0, <4>1 DEF DiskAgrees
    <3>4. SecondInv(G, n)
      BY Zenon, <2>0, <3>1 DEF SecondInv
    <3> QED BY Zenon, <2>2, <3>2, <3>3, <3>4 DEF Agrees
  <2> QED BY Zenon, <2>1, <2>2
<1> QED BY Zenon, <1>3, <1>7, <1>8 DEF Ready

\* Whatever the step, there are histories for it.
LEMMA ReadyExists ==
    ASSUME Base, NEW n \in Nodes, TypeOK', HistoryInv
    PROVE  \E G \in Histories : Ready(G, n)
<1>1. PICK H \in Histories : \A x \in Nodes : Agrees(H, x)
  BY DEF HistoryInv
<1>2. CASE Write(n) /\ HasBacklog(n)
  BY Zenon, <1>1, <1>2, ReadyWrite
<1>3. CASE UnsetMaster(n)
  BY Zenon, <1>1, <1>3, ReadyPromotion
<1>4. CASE SyncCommand(n) /\ \E m \in Nodes : SyncFull(n, m) /\ NeedsBacklog(m)
  BY Zenon, <1>1, <1>4, ReadyFirstBacklog
<1>5. CASE masterhost[n] = None /\ ~ HasBacklog(n) /\ (\E h \in Nodes \ {n} : SetMaster(n, h))
  BY ZenonT(60), <1>1, <1>5, ReadyDemotion
<1>6. ASSUME ~ (Write(n) /\ HasBacklog(n)), ~ UnsetMaster(n),
             ~ (SyncCommand(n) /\ \E m \in Nodes : SyncFull(n, m) /\ NeedsBacklog(m)),
             ~ (masterhost[n] = None /\ ~ HasBacklog(n) /\ (\E h \in Nodes \ {n} : SetMaster(n, h)))
      PROVE  Ready(H, n)
  BY Zenon, <1>1, <1>6 DEF Ready
<1> QED BY ZenonT(60), <1>1, <1>2, <1>3, <1>4, <1>5, <1>6

\* The histories go on agreeing with every instance.
LEMMA HistoryStep ==
    ASSUME Base, Fits', NEW n \in Nodes, Step(n), HistoryInv
    PROVE  HistoryInv'
<1>1. PICK H \in Histories : Ready(H, n)
  BY Zenon, ReadyExists DEF Fits, TypeInv
<1>2. ASSUME NEW x \in Nodes PROVE Agrees(H, x)'
  BY ZenonT(60), <1>1, PlaceAgreesStep, DiskAgreesStep, StreamAgreesStep, SecondStep DEF Agrees
<1>3. Histories' = Histories
  BY DEF Histories, Ids
<1> QED BY Zenon, <1>1, <1>2, <1>3 DEF HistoryInv

-----------------------------------------------------------------------------
(* The invariant holds.                                                    *)

\* Every step keeps the invariant.
LEMMA InvStep ==
    ASSUME IInv, [Next]_vars
    PROVE  IInv'
<1>0. Base /\ HistoryInv /\ TypeInv
  BY DEF IInv, Base
<1>1. CASE Next
  <2>1. PICK n \in Nodes : Step(n) /\ setup' = setup
    BY Zenon, <1>0, <1>1, NextIsStep
  <2>2. TypeInv' /\ LinkInv' /\ ChanInv' /\ RoleInv' /\ OffsetInv'
    BY ZenonT(60), <1>0, <2>1, TypeStep, LinkStep, ChanStep, RoleStep, OffsetStep
  <2>3. Fits'
    BY ZenonT(60), <1>0, <2>1, <2>2, OnlineStep DEF Fits
  <2>4. KnownInv' /\ AheadInv' /\ HistoryInv'
    BY ZenonT(60), <1>0, <2>1, <2>3, KnownStep, AheadStep, HistoryStep
  <2> QED BY Zenon, <2>3, <2>4 DEF IInv, Base, Fits
<1>2. CASE UNCHANGED vars
  <2> USE <1>0, <1>2 DEF vars, idVars, linkVars, bounds
  <2>1. TypeInv'
    BY Zenon DEF TypeInv, TypeOK
  <2>2. LinkInv' /\ ChanInv' /\ RoleInv' /\ OffsetInv'
    BY DEF Base, LinkInv, LinkOk, ChanInv, ChanOk, Resumes, Reloads, RoleInv, RoleOk,
           HasBacklog, PsyncRequest, OffsetInv, OffsetOk
  <2>3. ASSUME NEW x \in Nodes
        PROVE  /\ Flowing(x)' = Flowing(x) /\ Resumes(x)' = Resumes(x) /\ Reloads(x)' = Reloads(x)
               /\ StreamId(x)' = StreamId(x) /\ StreamOff(x)' = StreamOff(x) /\ Skip(x)' = Skip(x)
               /\ HasBacklog(x)' = HasBacklog(x)
    BY Zenon DEF Flowing, Resumes, Reloads, StreamId, StreamOff, Skip, HasBacklog
  <2>4. \A x \in Nodes : End(x)' = End(x) /\ \A o : Cmd(x, o)' = Cmd(x, o)
    BY Zenon, <2>3 DEF End, Cmd
  <2>5. OnlineInv' /\ KnownInv'
    BY Zenon, <2>3, <2>4 DEF Base, OnlineInv, OnlineOk, KnownInv, KnownOk, Known
  <2>6. ASSUME NEW x \in Nodes, NEW id
        PROVE  /\ Foreign(x, id) => Foreign(x, id)'
               /\ \A o : Behind(x, id, o) => Behind(x, id, o)'
    <3>1. Foreign(x, id) => Foreign(x, id)'
      BY Zenon, <2>3 DEF Foreign
    <3>2. ASSUME NEW o PROVE Behind(x, id, o) => Behind(x, id, o)'
      BY Zenon, <2>3, <2>4 DEF Behind
    <3> QED BY Zenon, <3>1, <3>2
  <2>7. \A x \in Nodes : Private(x) => Private(x)'
    BY Zenon, <2>6 DEF Private
  <2>8. AheadInv'
    BY ZenonT(60), <2>3, <2>6, <2>7 DEF Base, AheadInv, AheadOk
  <2>9. HistoryInv'
    <3>1. PICK H \in Histories : \A x \in Nodes : Agrees(H, x)
      BY Zenon DEF HistoryInv
    <3>2. ASSUME NEW x \in Nodes PROVE Agrees(H, x)'
      <4>1. PlaceAgrees(H, x)' /\ DiskAgrees(H, x)'
        BY ZenonT(60), <3>1, <2>3 DEF Agrees, PlaceAgrees, DiskAgrees, Placed
      <4>2. StreamAgrees(H, x)'
        <5>1. StreamAgrees(H, x)
          BY Zenon, <3>1 DEF Agrees
        <5>2. Resumes(x)' => \A o \in 0 .. master_repl_offset'[x] :
                 H[StreamId(x)'][o] = H[replid'[x]][o]
          BY ZenonT(60), <2>3, <5>1 DEF StreamAgrees
        <5>3. Reloads(x)' => H[StreamId(x)'][StreamOff(x)'] = Head(chan'[x]).rdb.data
          BY ZenonT(60), <2>3, <5>1 DEF StreamAgrees
        <5>4. ASSUME Flowing(x)', NEW o \in StreamOff(x)' + 1 .. End(x)'
              PROVE  H[StreamId(x)'][o] = Append(H[StreamId(x)'][o - 1], Cmd(x, o)')
          BY ZenonT(60), <2>3, <2>4, <5>1, <5>4 DEF StreamAgrees
        <5> QED BY ZenonT(60), <5>2, <5>3, <5>4 DEF StreamAgrees
      <4>3. SecondInv(H, x)'
        BY ZenonT(60), <3>1, <2>3, <2>7 DEF Agrees, SecondInv, SameUpTo
      <4> QED BY ZenonT(60), <4>1, <4>2, <4>3 DEF Agrees
    <3>3. Histories' = Histories
      BY DEF Histories, Ids
    <3> QED BY ZenonT(60), <3>1, <3>2, <3>3 DEF HistoryInv
  <2> QED BY ZenonT(60), <2>1, <2>2, <2>5, <2>8, <2>9 DEF IInv, Base
<1> QED BY Zenon, <1>1, <1>2

\* At the start no instance has written, and each has an ID of its own.
LEMMA InitTypes ==
    ASSUME Init
    PROVE  TypeInv
<1>1. setup \in Setup
  BY PsyncAssumption DEF Init
<1>2. PICK M \in SUBSET Nodes : setup.replicaof \in [M -> Nodes \cup {None}]
  BY <1>1 DEF Setup
<1>3. masterhost \in [Nodes -> Nodes \cup {None}]
  BY <1>2 DEF Init, Members
<1>4. repl_state \in [Nodes -> {"none", "connect", "psync", "transfer", "connected"}]
  BY DEF Init
<1>5. NoDisk \in Files /\ <<>> \in Seq(Messages) /\ <<>> \in Seq(Nat)
  BY Values DEF NoDisk, Files
<1>6. \A n \in Nodes : Id(n, 0) \in Ids
  BY DEF Id, Ids
<1>7. replid \in [Nodes -> Ids] /\ replid2 \in [Nodes -> Ids] /\ nextid \in [Nodes -> Nat]
  BY <1>6, Values DEF Init
<1>8. /\ second_replid_offset \in [Nodes -> Int] /\ master_repl_offset \in [Nodes -> Nat]
      /\ nwrites \in Nat /\ nreconf \in Nat /\ nfaults \in Nat /\ nsaves \in Nat /\ ncrashes \in Nat
  BY DEF Init
<1>9. /\ backlog \in [Nodes -> [off : Nat, items : Seq(Nat)]]
      /\ master \in [Nodes -> [replid : Ids, reploff : Int]]
      /\ req \in [Nodes -> [replid : Ids, offset : Int]]
  BY Zenon, Values DEF Init
<1>10. data \in [Nodes -> Seq(Nat)] /\ disk \in [Nodes -> Files] /\ chan \in [Nodes -> Seq(Messages)]
  BY Zenon, <1>5 DEF Init
<1>11. /\ link \in [Nodes -> {"down", "open", "eof"}]
       /\ slave \in [Nodes -> {"none", "wait", "online"}]
  BY DEF Init
<1> QED BY ZenonT(60), <1>1, <1>3, <1>4, <1>7, <1>8, <1>9, <1>10, <1>11 DEF TypeInv, TypeOK, Files

\* The invariant holds at the start, with histories where nothing was written.
LEMMA InitInv ==
    ASSUME Init
    PROVE  IInv
<1>0. TypeInv
  BY Zenon, InitTypes
<1>1. ASSUME NEW n \in Nodes
      PROVE  /\ repl_state[n] \in {"none", "connect"} /\ (repl_state[n] = "none" <=> masterhost[n] = None)
             /\ link[n] = "down" /\ chan[n] = <<>> /\ slave[n] = "none" /\ req[n] = NoReq
             /\ master[n] = NoMaster /\ replid[n] = Id(n, 0) /\ replid2[n] = NoId
             /\ master_repl_offset[n] = 0 /\ second_replid_offset[n] = -1 /\ nextid[n] = 1
             /\ ~ disk[n].info /\ ~ HasBacklog(n)
  BY Zenon, <1>1 DEF Init, HasBacklog, NoBacklog, NoDisk
<1>2. \A n \in Nodes : ~ Flowing(n) /\ ~ Resumes(n) /\ ~ Reloads(n)
  BY Zenon, <1>1 DEF Flowing, Resumes, Reloads
<1>3. LinkInv /\ RoleInv /\ OffsetInv /\ OnlineInv
  BY <1>1 DEF LinkInv, LinkOk, RoleInv, RoleOk, OffsetInv, OffsetOk, OnlineInv, OnlineOk
<1>4. ChanInv
  BY <1>1, <1>2 DEF ChanInv, ChanOk
<1>5. None \notin Nodes /\ \A n \in Nodes : Id(n, 0)[1] = n /\ Id(n, 0)[2] = 0
  BY Zenon, Values DEF Id
<1>6. NoId[1] = None
  BY Zenon DEF NoId
<1>7. KnownInv
  <2>1. ASSUME NEW n \in Nodes PROVE Known(Id(n, 0)) /\ Id(n, nextid[n] - 1) = Id(n, 0)
    BY <1>1, <1>5 DEF Known
  <2> QED BY ZenonT(60), <1>1, <1>2, <2>1 DEF KnownInv, KnownOk
<1>8. AheadInv
  <2>1. \A n, m \in Nodes : Behind(n, replid[m], master_repl_offset[m])
    BY <1>1, <1>2 DEF Behind
  <2>2. \A n, m \in Nodes : NoId # Id(m, 0) /\ (n # m => Id(n, 0) # Id(m, 0))
    BY Zenon, <1>5, <1>6
  <2>3. \A m \in Nodes : Private(m) /\ replid2[m] # replid[m]
    BY <1>1, <1>2, <2>2 DEF Private, Foreign
  <2> QED BY Zenon, <1>1, <2>1, <2>3 DEF AheadInv, AheadOk
<1>9. HistoryInv
  <2> DEFINE H == [id \in Ids |-> [o \in Nat |-> <<>>]]
  <2>1. H \in Histories
    BY DEF Histories
  <2>2. ASSUME NEW n \in Nodes PROVE Agrees(H, n)
    <3> HIDE DEF H
    <3>1. PlaceAgrees(H, n) /\ DiskAgrees(H, n) /\ StreamAgrees(H, n)
      BY Zenon, <1>1, <1>2 DEF PlaceAgrees, Placed, DiskAgrees, StreamAgrees
    <3>2. SameUpTo(H, n)
      BY <1>1 DEF SameUpTo
    <3> QED BY Zenon, <3>1, <3>2 DEF Agrees, SecondInv
  <2> QED BY Zenon, <2>1, <2>2 DEF HistoryInv
<1> QED BY ZenonT(60), <1>0, <1>3, <1>4, <1>7, <1>8, <1>9 DEF IInv, Base

\* The inductive invariant holds in every state of every behaviour.
LEMMA InvAlways == Spec => []IInv
BY InitInv, InvStep, PTL DEF Spec

INSTANCE WellFoundedInduction

-----------------------------------------------------------------------------
(* What follows from it.                                                   *)

\* g is a run of Read from d over the messages c.
ReadRun(g, d, c) == g = [i \in 0 .. Len(c) |-> IF i = 0 THEN d ELSE Read(g[i - 1], c[i])]

\* What Received computes: the end of the one run of Read over the messages.
LEMMA ReceivedIs ==
    ASSUME NEW d, NEW c, Len(c) \in Nat, NEW g,
           ReadRun(g, d, c)
    PROVE  Received(d, c) = g[Len(c)]
<1>1. PICK l \in Nat : l = Len(c)
  OBVIOUS
<1> DEFINE Run(f) == f = [i \in 0 .. Len(c) |-> IF i = 0 THEN d ELSE Read(f[i - 1], c[i])]
           f == CHOOSE f : Run(f)
<1>2. Run(f) /\ Run(g)
  <2>1. Run(g)
    BY Zenon DEF ReadRun
  <2>2. Run(f)
    BY Zenon, <2>1
  <2> QED BY Zenon, <2>1, <2>2
<1>3. Received(d, c) = f[l]
  BY Zenon, <1>1 DEF Received
<1> HIDE DEF f
<1>4. /\ f[0] = d /\ \A i \in 1 .. l : f[i] = Read(f[i - 1], c[i])
      /\ g[0] = d /\ \A i \in 1 .. l : g[i] = Read(g[i - 1], c[i])
  <2>1. /\ \A i \in 0 .. l : f[i] = IF i = 0 THEN d ELSE Read(f[i - 1], c[i])
        /\ \A i \in 0 .. l : g[i] = IF i = 0 THEN d ELSE Read(g[i - 1], c[i])
    BY Zenon, <1>1, <1>2
  <2>2. 0 \in 0 .. l /\ \A i \in 1 .. l : i \in 0 .. l /\ i # 0
    BY <1>1
  <2> QED BY Zenon, <2>1, <2>2
<1> HIDE DEF Run
<1> DEFINE C == {k \in 0 .. l : f[k] # g[k]}
           R == OpToRel(<, Nat)
<1>5. C \in SUBSET Nat
  BY <1>1
<1>6. C = {}
  <2> SUFFICES ASSUME C # {} PROVE FALSE
    BY Zenon
  <2>1. IsWellFoundedOn(R, Nat)
    BY NatLessThanWellFounded
  <2>2. \E k \in C : \A j \in C : ~ (<<j, k>> \in R)
    <3> HIDE DEF C, R
    <3> QED BY Zenon, <1>5, <2>1, WFMin
  <2>3. PICK k \in C : \A j \in C : ~ (j < k)
    <3> HIDE DEF C
    <3> QED BY Zenon, <1>5, <2>2 DEF OpToRel
  <2>4. k \in 0 .. l /\ k # 0 /\ f[k] # g[k]
    BY Zenon, <1>4
  <2>5. k \in 1 .. l /\ k - 1 \in 0 .. l /\ k - 1 < k
    <3> HIDE DEF C
    <3> QED BY <1>1, <2>4
  <2>6. f[k - 1] = g[k - 1]
    BY Zenon, <2>3, <2>5
  <2> QED BY Zenon, <1>4, <2>4, <2>5, <2>6
<1>7. f[l] = g[l]
  <2>1. l \in 0 .. l
    BY <1>1
  <2> QED BY Zenon, <1>6, <2>1
<1> QED BY Zenon, <1>1, <1>3, <1>7

\* Reading all that is on its way takes n to the end of its stream.
LEMMA ViewIsEnd ==
    ASSUME Base, NEW n \in Nodes, Flowing(n), NEW H \in Histories, Agrees(H, n)
    PROVE  View(n) = H[StreamId(n)][End(n)]
<1>1. PICK g : /\ g = [i \in 0 .. Len(chan[n]) |->
                          IF i = 0 THEN data[n] ELSE Read(g[i - 1], chan[n][i])]
               /\ g[Len(chan[n])] = H[StreamId(n)][End(n)]
  BY Zenon, StreamRun
<1>2. Len(chan[n]) \in Nat
  BY Shapes DEF Base
<1>3. ReadRun(g, data[n], chan[n])
  BY Zenon, <1>1 DEF ReadRun
<1>4. Received(data[n], chan[n]) = g[Len(chan[n])]
  BY Zenon, <1>2, <1>3, ReceivedIs
<1> QED BY Zenon, <1>1, <1>4 DEF View

\* The invariant implies what the handlers take for granted.
LEMMA PlacesFollow ==
    ASSUME IInv
    PROVE  PlacesAgree
<1>0. Base /\ HistoryInv
  BY DEF IInv
<1>1. TypeOK
  BY <1>0 DEF Base, TypeInv
<1>2. OffsetInStep
  BY Zenon, <1>0 DEF Base, OffsetInv, OffsetOk, OffsetInStep
<1>3. SlavesHaveBacklog
  BY <1>0 DEF Base, RoleInv, RoleOk, SlavesHaveBacklog, Slaves
<1>4. SamePlaceSameData
  <2>1. PICK H \in Histories : \A n \in Nodes : Agrees(H, n)
    BY Zenon, <1>0 DEF HistoryInv
  <2> SUFFICES ASSUME NEW a \in Nodes, NEW b \in Nodes, HasBacklog(a), HasBacklog(b),
                      replid[a] = replid[b], master_repl_offset[a] = master_repl_offset[b]
               PROVE  data[a] = data[b]
    BY Zenon DEF SamePlaceSameData
  <2>2. /\ H[replid[a]][master_repl_offset[a]] = data[a]
        /\ H[replid[b]][master_repl_offset[b]] = data[b]
    BY Zenon, <2>1 DEF Agrees, PlaceAgrees, Placed
  <2> QED BY Zenon, <2>2
<1> QED BY <1>1, <1>2, <1>3, <1>4 DEF PlacesAgree

\* The invariant implies that replicas end with their master's dataset.
LEMMA ConvergenceFollows ==
    ASSUME IInv
    PROVE  ReplicaConverges
<1>0. Base /\ HistoryInv
  BY DEF IInv
<1>1. PICK H \in Histories : \A n \in Nodes : Agrees(H, n)
  BY <1>0 DEF HistoryInv
<1> SUFFICES ASSUME NEW n \in Nodes, slave[n] = "online"
             PROVE  View(n) = data[masterhost[n]]
  BY Zenon DEF ReplicaConverges
<1>2. PICK m \in Nodes : m = masterhost[n]
  <2>1. LinkOk(n) /\ masterhost[n] \in Nodes \cup {None}
    BY Zenon, <1>0, Shapes DEF Base, LinkInv
  <2>2. masterhost[n] # None
    BY Zenon, <2>1 DEF LinkOk
  <2> QED BY Zenon, <2>1, <2>2
<1>3. Flowing(n) /\ StreamId(n) = replid[m] /\ End(n) = master_repl_offset[m]
  BY Zenon, <1>0, <1>2 DEF Base, OnlineInv, OnlineOk
<1>4. HasBacklog(m)
  BY ZenonT(60), <1>0, <1>2 DEF Base, RoleInv, RoleOk
<1>5. H[replid[m]][master_repl_offset[m]] = data[m]
  BY Zenon, <1>1, <1>4 DEF Agrees, PlaceAgrees, Placed
<1>6. View(n) = H[StreamId(n)][End(n)]
  BY ZenonT(60), <1>0, <1>1, <1>3, ViewIsEnd
<1> QED BY Zenon, <1>2, <1>3, <1>5, <1>6

\* Whatever instances there are, and whatever promotions, demotions, restarts and lost
\* links went before: a replica that its master took for online, after a full or a partial
\* resynchronisation, ends up with exactly the master's dataset (masterTryPartialResynchronization
\* lets a replica continue only where that is so).
THEOREM ReplicaConvergesAlways == Spec => []ReplicaConverges
BY InvAlways, ConvergenceFollows, PTL

\* Offsets and IDs are in step with those of the (cached) master, the assertion of
\* replicationFeedSlaves holds, and two instances with the same ID and offset have the
\* same data.
THEOREM PlacesAgreeAlways == Spec => []PlacesAgree
BY InvAlways, PlacesFollow, PTL
=============================================================================
