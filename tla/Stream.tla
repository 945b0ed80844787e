------------------------------- MODULE Stream -------------------------------
(***************************************************************************)
(* The stream value (t_stream.c): entries packed in nodes of delta-encoded *)
(* items, the iterator that walks them both ways, trimming and deletion,   *)
(* consumer groups with their pending entries, the readers blocked on the  *)
(* stream (blocked.c), the commands each command propagates, and the       *)
(* commands the append only file is rewritten to (aof.c).                  *)
(*                                                                         *)
(* An ID is <<ms, seq>>, seq wrapping at SeqMax + 1.  The listpack of a    *)
(* node is the flat sequence of its elements; field names and values are   *)
(* numbers.  impl is the stream of the master, aux.replica that of a       *)
(* replica that executes what the master propagates, ref what the clients  *)
(* were told: the live entries and the deliveries nobody settled.          *)
(***************************************************************************)
EXTENDS Integers, Sequences, FiniteSets, SequencesExt, TLC

CONSTANTS
    SeqMax,    \* UINT64_MAX
    NodeMax,   \* stream-node-max-entries
    Setups     \* the client programs: see Next

VARIABLES impl, ref, aux

vars == <<impl, ref, aux>>

None == "none"
NoID == <<-1, 0>>       \* an ID that is not given: * of XADD, > of XREADGROUP
Dollar == <<-2, 0>>     \* the ID $ of XGROUP
MaxID == <<1000, SeqMax>>
ZeroID == <<0, 0>>

Less(a, b) == a[1] < b[1] \/ (a[1] = b[1] /\ a[2] < b[2])
Leq(a, b) == a = b \/ Less(a, b)
Incr(id) == <<id[1], (id[2] + 1) % (SeqMax + 1)>>

streamNextID(last, now) == IF now > last[1] THEN <<now, 0>> ELSE Incr(last)

streamNew == [key |-> TRUE, nodes |-> <<>>, length |-> 0, last |-> ZeroID, groups |-> <<>>]
NoStream == [streamNew EXCEPT !.key = FALSE]
LookupOrCreate(s) == IF s.key THEN s ELSE streamNew

-----------------------------------------------------------------------------
(* The items of a node.  A flag is 1 (deleted), 2 (same fields), or both.  *)

Deleted(f) == f % 2 = 1
Same(f) == f >= 2
Names(fields) == [i \in DOMAIN fields |-> fields[i][1]]
Vals(fields) == [i \in DOMAIN fields |-> fields[i][2]]

MasterEntry(fields) == <<1, 0, Len(fields)>> \o Names(fields) \o <<0>>

Item(f, id, master, fields) ==
    LET body == IF Same(f) THEN Vals(fields) ELSE <<Len(fields)>> \o FlattenSeq(fields)
    IN <<f, id[1] - master[1], id[2] - master[2]>> \o body \o <<3 + Len(body)>>

AppendToNode(node, id, fields) ==
    LET same == node.lp[3] = Len(fields) /\ SubSeq(node.lp, 4, 3 + node.lp[3]) = Names(fields)
    IN [node EXCEPT !.lp = [@ EXCEPT ![1] = @ + 1] \o Item(IF same THEN 2 ELSE 0, id, node.id, fields)]

FreshNode(id, fields) == [id |-> id, lp |-> MasterEntry(fields) \o Item(2, id, id, fields)]

Accepts(s, id) == id = NoID \/ Less(s.last, id)

(* raxSeek "$" finds the node with the greatest ID; a node written at an ID *)
(* takes its place in the order of the IDs.                                *)
streamAppendItem(s, given, now, fields) ==
    LET id == IF given = NoID THEN streamNextID(s.last, now) ELSE given
        tail == Len(s.nodes)
        open == tail > 0 /\ s.nodes[tail].lp[1] <= NodeMax
        below == SelectSeq(s.nodes, LAMBDA n : Less(n.id, id))
        above == SelectSeq(s.nodes, LAMBDA n : Less(id, n.id))
    IN [s EXCEPT !.nodes = IF open THEN [@ EXCEPT ![tail] = AppendToNode(@, id, fields)]
                                   ELSE below \o <<FreshNode(id, fields)>> \o above,
                 !.length = @ + 1,
                 !.last = id]

-----------------------------------------------------------------------------
(* The iterator: the node and the element of its listpack it stands on,    *)
(* element 0 before a node is entered.                                     *)

streamIteratorStart(s, start, end, rev) ==
    LET bound == IF rev THEN end ELSE start
        upto == {n \in DOMAIN s.nodes : Leq(s.nodes[n].id, bound)}
        atLeast == IF rev THEN Len(s.nodes) ELSE 1
    IN [node |-> IF bound = ZeroID \/ upto = {} THEN atLeast
                                                ELSE CHOOSE n \in upto : \A m \in upto : m <= n,
        ele |-> 0]

Enter(lp, rev) == IF rev THEN Len(lp) ELSE 4 + lp[3]

(* How far back a reverse iterator goes from the fields of an item it      *)
(* skips to the end of the item before.                                    *)
PrevTimes(f) == IF Same(f) THEN 4 ELSE 5

NoEntry == [node |-> 0, ele |-> 0, flagged |-> 0, id |-> NoID, n |-> 0]

RECURSIVE GetID(_, _, _, _, _)
GetID(s, it, start, end, rev) ==
    LET node == s.nodes[it.node]
        lp == node.lp
        Entry(flagged, same) ==
            [node |-> it.node, ele |-> flagged + (IF same THEN 3 ELSE 4), flagged |-> flagged,
             id |-> <<node.id[1] + lp[flagged + 1], node.id[2] + lp[flagged + 2]>>,
             n |-> IF same THEN lp[3] ELSE lp[flagged + 3]]
        Skip(e, f) == IF rev THEN e.ele - PrevTimes(f) ELSE e.ele + (IF Same(f) THEN e.n ELSE 2 * e.n)
        Judge(e, f) ==
            IF Deleted(f) \/ (IF rev THEN Less(end, e.id) ELSE Less(e.id, start))
            THEN GetID(s, [it EXCEPT !.ele = Skip(e, f)], start, end, rev)
            ELSE IF (IF rev THEN Less(e.id, start) ELSE Less(end, e.id)) THEN NoEntry ELSE e
        ItemAt(flagged) == Judge(Entry(flagged, Same(lp[flagged])), lp[flagged])
        At(at) == IF (IF rev THEN lp[at] = 0 ELSE at = Len(lp))
                  THEN GetID(s, [node |-> it.node + (IF rev THEN -1 ELSE 1), ele |-> 0], start, end, rev)
                  ELSE ItemAt(IF rev THEN at - lp[at] ELSE at + 1)
    IN IF it.node \notin DOMAIN s.nodes THEN NoEntry
       ELSE At(IF it.ele = 0 THEN Enter(lp, rev) ELSE it.ele)

(* The fields of the entry the iterator stands on; reading them moves it   *)
(* to the end of the item.                                                 *)
GetFields(s, e) ==
    LET lp == s.nodes[e.node].lp
    IN IF Same(lp[e.flagged])
       THEN [i \in 1 .. e.n |-> <<lp[3 + i], lp[e.ele + i - 1]>>]
       ELSE [i \in 1 .. e.n |-> <<lp[e.ele + 2 * i - 2], lp[e.ele + 2 * i - 1]>>]

Advanced(s, e, rev) ==
    LET lp == s.nodes[e.node].lp
        To(last) == [node |-> e.node, ele |-> IF rev THEN last - lp[last] - 1 ELSE last]
    IN To(e.ele + (IF Same(lp[e.flagged]) THEN e.n ELSE 2 * e.n))

RECURSIVE Walk(_, _, _, _, _, _)
Walk(s, it, start, end, rev, count) ==
    LET From(e) == IF e = NoEntry THEN <<>>
                   ELSE <<<<e.id, GetFields(s, e)>>>> \o
                        (IF count = 1 THEN <<>>
                         ELSE Walk(s, Advanced(s, e, rev), start, end, rev, count - 1))
    IN From(GetID(s, it, start, end, rev))

(* streamReplyWithRange without a group; a count of 0 is no limit.         *)
XRange(s, start, end, rev, count) ==
    Walk(s, streamIteratorStart(s, start, end, rev), start, end, rev, count)

Found(s, id) == GetID(s, streamIteratorStart(s, id, id, FALSE), id, id, FALSE)

-----------------------------------------------------------------------------
(* Deleting and trimming.                                                  *)

WithoutNode(s, n) == [s EXCEPT !.nodes = SubSeq(@, 1, n - 1) \o SubSeq(@, n + 1, Len(@))]

MarkDeleted(lp, flagged) == [lp EXCEPT ![1] = @ - 1, ![2] = @ + 1, ![flagged] = @ + 1]

streamDeleteItem(s, id) ==
    LET Delete(e) ==
          IF e = NoEntry THEN s
          ELSE IF s.nodes[e.node].lp[1] = 1 THEN [WithoutNode(s, e.node) EXCEPT !.length = @ - 1]
          ELSE [s EXCEPT !.nodes[e.node].lp = MarkDeleted(@, e.flagged), !.length = @ - 1]
    IN Delete(Found(s, id))

(* The flags of the first item at or after an element that is not deleted. *)
RECURSIVE FirstLive(_, _)
FirstLive(lp, p) ==
    IF ~Deleted(lp[p]) THEN p
    ELSE FirstLive(lp, p + 4 + (IF Same(lp[p]) THEN lp[3] ELSE 1 + 2 * lp[p + 3]))

RECURSIVE streamTrimByLength(_, _, _)
streamTrimByLength(s, maxlen, approx) ==
    IF s.length <= maxlen \/ s.nodes = <<>> THEN s
    ELSE LET lp == s.nodes[1].lp
         IN IF s.length - lp[1] >= maxlen
            THEN streamTrimByLength([WithoutNode(s, 1) EXCEPT !.length = @ - lp[1]], maxlen, approx)
            ELSE IF approx THEN s
            ELSE streamTrimByLength([s EXCEPT !.nodes[1].lp = MarkDeleted(lp, FirstLive(lp, 5 + lp[3])),
                                              !.length = @ - 1], maxlen, approx)

-----------------------------------------------------------------------------
(* Consumer groups.  The NACK of a pending entry is shared by the group's  *)
(* pel and the pel of its consumer.                                        *)

streamCreateCG(s, g, id) ==
    [s EXCEPT !.groups = @ @@ (g :> [last |-> id, pel |-> <<>>, consumers |-> <<>>])]

streamLookupConsumer(cg, c) == [cg EXCEPT !.consumers = @ @@ (c :> {})]

Without(f, ids) == [x \in DOMAIN f \ ids |-> f[x]]

streamDelConsumer(cg, c) ==
    IF c \notin DOMAIN cg.consumers THEN cg
    ELSE [cg EXCEPT !.pel = Without(@, cg.consumers[c]), !.consumers = Without(@, {c})]

Unlink(cg, id) ==
    IF id \notin DOMAIN cg.pel THEN cg
    ELSE [cg EXCEPT !.consumers[cg.pel[id].consumer] = @ \ {id}]

AckID(cg, id) == [Unlink(cg, id) EXCEPT !.pel = Without(@, {id})]

(* Hand an entry to a consumer: the NACK moves between the consumers.      *)
AssignUnlinked(cg, id, c, count) ==
    [cg EXCEPT !.pel = (id :> [consumer |-> c, count |-> count]) @@ @,
               !.consumers[c] = @ \union {id}]

Assign(cg, id, c, count) ==
    [Unlink(cg, id) EXCEPT !.pel = (id :> [consumer |-> c, count |-> count]) @@ @,
                           !.consumers[c] = @ \union {id}]

(* What is propagated for one pending entry, and for a group's position.   *)
streamPropagateXCLAIM(g, cg, id) ==
    [cmd |-> "XCLAIM", g |-> g, c |-> cg.pel[id].consumer, ids |-> <<id>>, young |-> {},
     retry |-> cg.pel[id].count, force |-> TRUE, justid |-> TRUE, lastid |-> cg.last]

streamPropagateGroupID(g, cg) == [cmd |-> "SETID", g |-> g, id |-> cg.last]

(* streamReplyWithRange with a group: the entries are delivered in order.  *)
RECURSIVE DeliverAll(_, _, _, _, _)
DeliverAll(cg, g, c, noack, entries) ==
    IF entries = <<>> THEN [cg |-> cg, props |-> <<>>]
    ELSE LET id == entries[1][1]
             Prop(next) == IF ~noack THEN <<streamPropagateXCLAIM(g, next, id)>>
                           ELSE IF next # cg THEN <<streamPropagateGroupID(g, next)>> ELSE <<>>
             Rest(next) == [DeliverAll(next, g, c, noack, Tail(entries)) EXCEPT !.props = Prop(next) \o @]
             Moved(cg2) == Rest(IF noack THEN cg2 ELSE Assign(cg2, id, c, 1))
         IN Moved([cg EXCEPT !.last = IF Less(@, id) THEN id ELSE @])

(* Reading the history of a consumer counts a delivery of each entry that  *)
(* still exists; nothing of it is propagated.                              *)
History(s, cg, c, start) ==
    [cg EXCEPT !.pel = [id \in DOMAIN @ |->
        IF id \in cg.consumers[c] /\ Leq(start, id) /\ Found(s, id) # NoEntry
        THEN [@[id] EXCEPT !.count = @ + 1] ELSE @[id]]]

RECURSIVE ClaimIDs(_, _, _, _)
ClaimIDs(s, cg, cmd, ids) ==
    IF ids = <<>> THEN [cg |-> cg, props |-> <<>>]
    ELSE LET id == ids[1]
             known == id \in DOMAIN cg.pel
             passes == \/ known /\ id \notin cmd.young
                       \/ ~known /\ cmd.force /\ Found(s, id) # NoEntry
             before == IF known THEN cg.pel[id].count ELSE 1
             count == IF cmd.retry >= 0 THEN cmd.retry ELSE IF cmd.justid THEN before ELSE before + 1
             Claimed(next) == [ClaimIDs(s, next, cmd, Tail(ids)) EXCEPT
                                 !.props = <<streamPropagateXCLAIM(cmd.g, next, id)>> \o @]
         IN IF passes THEN Claimed(Assign(cg, id, cmd.c, count)) ELSE ClaimIDs(s, cg, cmd, Tail(ids))

-----------------------------------------------------------------------------
(* The commands: the stream after it, and the commands propagated.         *)

Result(s, props) == [s |-> s, props |-> props]

xadd(s0, cmd) ==
    LET Done(trimmed) == Result(trimmed, <<[cmd EXCEPT !.id = trimmed.last,
                                              !.maxlen = IF cmd.approx THEN trimmed.length ELSE @,
                                              !.approx = FALSE]>>)
        Trim(s) == IF cmd.maxlen >= 0 THEN streamTrimByLength(s, cmd.maxlen, cmd.approx) ELSE s
        Add(s) == IF ~Accepts(s, cmd.id) THEN Result(s, <<>>)
                  ELSE Done(Trim(streamAppendItem(s, cmd.id, cmd.now, cmd.fields)))
    IN Add(LookupOrCreate(s0))

xdel(s, cmd) ==
    LET Done(after) == Result(after, IF after # s THEN <<cmd>> ELSE <<>>)
    IN Done(IF s.key THEN streamDeleteItem(s, cmd.id) ELSE s)

xtrim(s, cmd) ==
    LET exact(after) == IF cmd.approx THEN [cmd EXCEPT !.approx = FALSE, !.maxlen = after.length] ELSE cmd
        Done(after) == Result(after, IF after # s THEN <<exact(after)>> ELSE <<>>)
    IN Done(IF s.key THEN streamTrimByLength(s, cmd.maxlen, cmd.approx) ELSE s)

xsetid(s, cmd) ==
    LET top == XRange(s, ZeroID, MaxID, TRUE, 1)
    IN IF ~s.key \/ (s.length > 0 /\ Less(cmd.id, top[1][1])) THEN Result(s, <<>>)
       ELSE Result([s EXCEPT !.last = cmd.id], <<cmd>>)

GroupID(s, id) == IF id = Dollar THEN s.last ELSE id

xgroupCreate(s0, cmd) ==
    LET s == IF cmd.mkstream THEN LookupOrCreate(s0) ELSE s0
    IN IF ~s.key \/ cmd.g \in DOMAIN s.groups THEN Result(s, <<>>)
       ELSE Result(streamCreateCG(s, cmd.g, GroupID(s0, cmd.id)), <<cmd>>)

HasGroup(s, g) == s.key /\ g \in DOMAIN s.groups

xgroupSetid(s, cmd) == Result([s EXCEPT !.groups[cmd.g].last = GroupID(s, cmd.id)], <<cmd>>)
xgroupDestroy(s, cmd) == Result([s EXCEPT !.groups = Without(@, {cmd.g})], <<cmd>>)
xgroupDelConsumer(s, cmd) == Result([s EXCEPT !.groups[cmd.g] = streamDelConsumer(@, cmd.c)], <<cmd>>)

xack(s, cmd) ==
    IF cmd.id \notin DOMAIN s.groups[cmd.g].pel THEN Result(s, <<>>)
    ELSE Result([s EXCEPT !.groups[cmd.g] = AckID(@, cmd.id)], <<cmd>>)

xclaim(s, cmd) ==
    LET cg == s.groups[cmd.g]
        moved == [cg EXCEPT !.last = IF Less(@, cmd.lastid) THEN cmd.lastid ELSE @]
        Done(r) == Result([s EXCEPT !.groups[cmd.g] = r.cg],
                          IF moved # cg /\ r.props = <<>> THEN <<streamPropagateGroupID(cmd.g, r.cg)>>
                          ELSE r.props)
    IN Done(ClaimIDs(s, streamLookupConsumer(moved, cmd.c), cmd, cmd.ids))

(* XREADGROUP when it answers at once; > is the ID NoID.                   *)
ReadsNow(s, cmd) == cmd.id # NoID \/ (s.length > 0 /\ Less(s.groups[cmd.g].last, s.last))

DeliverNew(s, g, c, noack, count) ==
    LET Done(r) == Result([s EXCEPT !.groups[g] = r.cg], r.props)
        To(cg) == Done(DeliverAll(cg, g, c, noack, XRange(s, Incr(cg.last), MaxID, FALSE, count)))
    IN To(streamLookupConsumer(s.groups[g], c))

xreadgroup(s, cmd) ==
    IF ~ReadsNow(s, cmd) THEN Result(s, <<>>)
    ELSE IF cmd.id # NoID
    THEN Result([s EXCEPT !.groups[cmd.g] = History(s, streamLookupConsumer(@, cmd.c), cmd.c, Incr(cmd.id))], <<>>)
    ELSE DeliverNew(s, cmd.g, cmd.c, cmd.noack, cmd.count)

Execute(s, cmd) ==
    CASE cmd.cmd = "XADD" -> xadd(s, cmd)
      [] cmd.cmd = "XDEL" -> xdel(s, cmd)
      [] cmd.cmd = "XTRIM" -> xtrim(s, cmd)
      [] cmd.cmd = "XSETID" -> xsetid(s, cmd)
      [] cmd.cmd = "CREATE" -> xgroupCreate(s, cmd)
      [] ~HasGroup(s, cmd.g) -> Result(s, <<>>)
      [] cmd.cmd = "SETID" -> xgroupSetid(s, cmd)
      [] cmd.cmd = "DESTROY" -> xgroupDestroy(s, cmd)
      [] cmd.cmd = "DELCONSUMER" -> xgroupDelConsumer(s, cmd)
      [] cmd.cmd = "XACK" -> xack(s, cmd)
      [] cmd.cmd = "XCLAIM" -> xclaim(s, cmd)
      [] cmd.cmd = "XREADGROUP" -> xreadgroup(s, cmd)

RECURSIVE ExecuteAll(_, _)
ExecuteAll(s, cmds) == IF cmds = <<>> THEN s ELSE ExecuteAll(Execute(s, cmds[1]).s, Tail(cmds))

-----------------------------------------------------------------------------
(* The readers blocked on the stream: top is the last ID of the stream     *)
(* when the reader blocked, or when XGROUP moved its group since.          *)

Cursor(s, w) == IF w.g = None THEN w.gt ELSE s.groups[w.g].last

RECURSIVE ServeBlocked(_, _)
ServeBlocked(s, waiting) ==
    IF waiting = <<>> THEN [s |-> s, props |-> <<>>, waiting |-> <<>>]
    ELSE LET w == waiting[1]
             gone == w.g # None /\ ~HasGroup(s, w.g)
             ready == ~gone /\ Less(Cursor(s, w), s.last)
             Rest(r) == [ServeBlocked(r.s, Tail(waiting)) EXCEPT
                           !.props = r.props \o @, !.waiting = IF gone \/ ready THEN @ ELSE <<w>> \o @]
         IN Rest(IF ready /\ w.g # None THEN DeliverNew(s, w.g, w.c, w.noack, w.count)
                                        ELSE Result(s, <<>>))

(* One command of a client, with the service of the blocked readers after  *)
(* an XADD, and what the replica makes of the commands it receives.        *)
ServesAfter(cmd, r) == cmd.cmd = "XADD" /\ r.props # <<>>

Reference(entries, cmd, r) ==
    LET added == IF cmd.cmd = "XADD" /\ r.props # <<>>
                 THEN Append(entries, <<r.props[1].id, cmd.fields>>) ELSE entries
        keep == IF cmd.approx THEN r.s.length ELSE cmd.maxlen
    IN CASE cmd.cmd = "XDEL" -> SelectSeq(entries, LAMBDA e : e[1] # cmd.id)
         [] cmd.cmd \in {"XADD", "XTRIM"} /\ cmd.maxlen >= 0 /\ Len(added) > keep /\ added # <<>>
              /\ (cmd.cmd = "XTRIM" \/ r.props # <<>>) ->
                SubSeq(added, Len(added) - keep + 1, Len(added))
         [] OTHER -> added

Moves(cmd, w) == cmd.cmd \in {"SETID", "CREATE"} /\ cmd.g = w.g
Retopped(waiting, cmd, s) ==
    [i \in DOMAIN waiting |-> IF Moves(cmd, waiting[i]) THEN [waiting[i] EXCEPT !.top = s.last] ELSE waiting[i]]

Command(cmd) ==
    \E r \in {Execute(impl, cmd)} :
    \E w \in {IF ServesAfter(cmd, r) THEN ServeBlocked(r.s, aux.waiting)
              ELSE [s |-> r.s, props |-> <<>>, waiting |-> aux.waiting]} :
       /\ aux.left > 0
       /\ impl' = w.s
       /\ ref' = Reference(ref, cmd, r)
       /\ aux' = [aux EXCEPT !.replica = ExecuteAll(@, r.props \o w.props),
                             !.waiting = Retopped(w.waiting, cmd, w.s),
                             !.left = IF w.s = impl THEN @ ELSE @ - 1]

Script(name) == {cmd \in Setups[aux.setup].cmds : cmd.cmd = name}

Xadd == \E cmd \in Script("XADD") : Command(cmd)
Xdel == \E cmd \in Script("XDEL") : Command(cmd)
Xtrim == \E cmd \in Script("XTRIM") : Command(cmd)
Xsetid == \E cmd \in Script("XSETID") : Command(cmd)
Xgroup == \E name \in {"CREATE", "SETID", "DESTROY", "DELCONSUMER"} : \E cmd \in Script(name) : Command(cmd)
Xreadgroup == \E cmd \in Script("XREADGROUP") : Command(cmd)
Xack == \E cmd \in Script("XACK") : Command(cmd)
Xclaim == \E cmd \in Script("XCLAIM") : Command(cmd)

(* XREAD or XREADGROUP with BLOCK that finds nothing to answer.            *)
Block ==
    \E w \in Setups[aux.setup].readers :
        /\ aux.left > 0
        /\ w.g # None => HasGroup(impl, w.g)
        /\ ~(impl.length > 0 /\ Less(Cursor(impl, w), impl.last))
        /\ aux' = [aux EXCEPT !.waiting = Append(@, [w EXCEPT !.top = impl.last]), !.left = @ - 1]
        /\ UNCHANGED <<impl, ref>>

(* The timeout of a blocked reader, or its client going away.              *)
Unblock ==
    \E i \in DOMAIN aux.waiting :
        /\ aux' = [aux EXCEPT !.waiting = SubSeq(@, 1, i - 1) \o SubSeq(@, i + 1, Len(@))]
        /\ UNCHANGED <<impl, ref>>

Init ==
    /\ impl = NoStream
    /\ ref = <<>>
    /\ \E p \in DOMAIN Setups :
         aux = [setup |-> p, left |-> Setups[p].steps, replica |-> NoStream, waiting |-> <<>>]

Next ==
    \/ Xadd \/ Xdel \/ Xtrim \/ Xsetid
    \/ Xgroup \/ Xreadgroup \/ Xack \/ Xclaim
    \/ Block \/ Unblock

Spec == Init /\ [][Next]_vars

-----------------------------------------------------------------------------
(* What an append only file rewrite writes for a stream (aof.c).           *)

AddCommand(id, fields, maxlen) ==
    [cmd |-> "XADD", id |-> id, now |-> 0, fields |-> fields, maxlen |-> maxlen, approx |-> FALSE]

EntryCommands(s) ==
    LET all == XRange(s, ZeroID, MaxID, FALSE, 0)
    IN IF s.length > 0 THEN [i \in DOMAIN all |-> AddCommand(all[i][1], all[i][2], -1)]
                       ELSE <<AddCommand(s.last, <<<<7, 8>>>>, 0)>>

PendingCommand(g, c, id, nack) ==
    [cmd |-> "XCLAIM", g |-> g, c |-> c, ids |-> <<id>>, young |-> {},
     retry |-> nack.count, force |-> TRUE, justid |-> TRUE, lastid |-> ZeroID]

GroupCommands(s, g) ==
    LET cg == s.groups[g]
        pending == SetToSeq({<<c, id>> \in (DOMAIN cg.consumers) \X (DOMAIN cg.pel) : id \in cg.consumers[c]})
    IN <<[cmd |-> "CREATE", g |-> g, id |-> cg.last, mkstream |-> FALSE]>> \o
       [i \in DOMAIN pending |-> PendingCommand(g, pending[i][1], pending[i][2], cg.pel[pending[i][2]])]

rewriteStreamObject(s) ==
    EntryCommands(s) \o <<[cmd |-> "XSETID", id |-> s.last]>> \o
    FlattenSeq(SetToSeq({GroupCommands(s, g) : g \in DOMAIN s.groups}))

-----------------------------------------------------------------------------
(* Properties.                                                             *)

IDs == {ref[i][1] : i \in DOMAIN ref} \union {<<2, 1>>, MaxID}

Between(start, end) == SelectSeq(ref, LAMBDA e : Leq(start, e[1]) /\ Leq(e[1], end))

(* XLEN, XRANGE and XREVRANGE over any bounds, with and without a COUNT,   *)
(* answer from the delta encoded nodes exactly the live entries, fields    *)
(* included, in order (streamIteratorGetID).                               *)
RangesExact ==
    /\ impl.length = Len(ref)
    /\ \A start, end \in IDs :
         LET live == Between(start, end)
         IN /\ XRange(impl, start, end, FALSE, 0) = live
            /\ XRange(impl, start, end, TRUE, 0) = Reverse(live)
            /\ XRange(impl, start, end, TRUE, 1) = IF live = <<>> THEN <<>> ELSE <<live[Len(live)]>>

(* No node outlives its entries, its count is that of its live entries,    *)
(* nodes are ordered, and no live entry is above the last ID: a new ID     *)
(* that XADD accepts is above every entry.                                 *)
NodesSound ==
    /\ \A i, j \in DOMAIN impl.nodes : i < j => Less(impl.nodes[i].id, impl.nodes[j].id)
    /\ \A i \in DOMAIN impl.nodes :
         LET node == impl.nodes[i]
             next == IF i = Len(impl.nodes) THEN MaxID ELSE impl.nodes[i + 1].id
             mine == {k \in DOMAIN ref : Leq(node.id, ref[k][1]) /\ Less(ref[k][1], next)}
         IN node.lp[1] = Cardinality(mine) /\ mine # {}
    /\ \A i \in DOMAIN ref : Leq(ref[i][1], impl.last)

(* The pel of a group and those of its consumers hold the same NACKs: an   *)
(* entry is pending for exactly the consumer its NACK names, whatever mix  *)
(* of deliveries, claims, acknowledgements, deletions and moves of the     *)
(* group back led here (the panics of streamReplyWithRange).               *)
PendingOwned ==
    \A g \in DOMAIN impl.groups :
        LET cg == impl.groups[g]
        IN /\ \A c \in DOMAIN cg.consumers :
                cg.consumers[c] = {id \in DOMAIN cg.pel : cg.pel[id].consumer = c}
           /\ \A id \in DOMAIN cg.pel : cg.pel[id].consumer \in DOMAIN cg.consumers

Owners(cg) == [id \in DOMAIN cg.pel |-> cg.pel[id].consumer]
Groups(s) == [g \in DOMAIN s.groups |-> <<s.groups[g].last, Owners(s.groups[g])>>]

(* A replica that executes the XADD, XCLAIM and SETID commands the reads   *)
(* and writes are turned into has the same entries, last ID and groups,    *)
(* with every group at the same position and every pending entry owned by  *)
(* the same consumer.  Delivery counts of history reads and consumers      *)
(* without pending entries are not propagated, and are not compared.       *)
ReplicaFollows ==
    /\ aux.replica.key = impl.key
    /\ XRange(aux.replica, ZeroID, MaxID, FALSE, 0) = ref
    /\ aux.replica.last = impl.last
    /\ Groups(aux.replica) = Groups(impl)

(* A reader is never left blocked with an entry in the stream that is      *)
(* newer than the stream was when it blocked and than its own position     *)
(* (XGROUP SETID moving a group back wakes no reader: only XADD does).     *)
NoReaderLeftBehind ==
    \A i \in DOMAIN aux.waiting :
        LET w == aux.waiting[i]
        IN \/ w.g # None /\ ~HasGroup(impl, w.g)
           \/ \A k \in DOMAIN ref : Leq(ref[k][1], w.top) \/ Leq(ref[k][1], Cursor(impl, w))

(* Loading what an append only file rewrite writes rebuilds the entries,   *)
(* the last ID, the groups and the pending entries with their counts, but  *)
(* for pending entries whose stream entry was deleted: their XCLAIM FORCE  *)
(* finds no entry.                                                         *)
RewriteRebuilds ==
    impl.key =>
      \A t \in {ExecuteAll(NoStream, rewriteStreamObject(impl))} :
        LET live == {ref[i][1] : i \in DOMAIN ref}
        IN /\ XRange(t, ZeroID, MaxID, FALSE, 0) = ref
           /\ t.last = impl.last
           /\ DOMAIN t.groups = DOMAIN impl.groups
           /\ \A g \in DOMAIN t.groups :
                LET was == impl.groups[g] IN
                /\ t.groups[g].last = was.last
                /\ t.groups[g].pel = [id \in DOMAIN was.pel \intersect live |-> was.pel[id]]
=============================================================================
