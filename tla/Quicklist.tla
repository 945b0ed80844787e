------------------------------ MODULE Quicklist ------------------------------
(***************************************************************************)
(* The list value: quicklist.c, a list of ziplist nodes of which those far *)
(* from both ends are compressed, under the commands of t_list.c.  The     *)
(* nodes are a sequence; a node has its elements, whether it is compressed *)
(* (encoding LZF) and its flag recompress.  "bad" records that a ziplist   *)
(* function was given the data of a compressed node.                       *)
(***************************************************************************)
EXTENDS Integers, Sequences, FiniteSets, FiniteSetsExt, SequencesExt

CONSTANTS
  Values,     \* what lists hold
  Dense,      \* the values that make a node worth compressing
  Configs,    \* [fill, compress, queue]: list-max-ziplist-size, list-compress-depth,
              \* and whether the list is used as a queue only
  MaxLen      \* bound on the length of the list

VARIABLES
  impl,  \* the quicklist
  ref,   \* the elements it should hold
  aux    \* the configuration

vars == <<impl, ref, aux>>

Empty == [nodes |-> <<>>, count |-> 0, bad |-> FALSE]
NewNode(els) == [els |-> els, lzf |-> FALSE, rec |-> FALSE]
Elements(q) == FlattenSeq([i \in DOMAIN q.nodes |-> q.nodes[i].els])
Concat(a, b) == a \o b

----------------------------------------------------------------------------
(* Compression.                                                            *)

\* quicklistCompressNode: a node that is too small to gain stays as it is, and
\* keeps its flag.
CompressNode(n) ==
  IF n.lzf \/ {n.els[i] : i \in DOMAIN n.els} \cap Dense = {} THEN n
  ELSE [n EXCEPT !.lzf = TRUE, !.rec = FALSE]

\* quicklistDecompressNode and quicklistDecompressNodeForUse
DecompressNode(n) == [n EXCEPT !.lzf = FALSE]
ForUse(n) == IF n.lzf THEN [n EXCEPT !.lzf = FALSE, !.rec = TRUE] ELSE n

Apply(Op(_), nodes, S) ==
  FoldSet(LAMBDA i, s : [s EXCEPT ![i] = Op(@)], nodes, S \cap DOMAIN nodes)

\* __quicklistCompress with the quicklist's own length, which may differ from the
\* number of nodes by the one being inserted or deleted; at is the node, 0 if NULL.
Compress(nodes, len, at) ==
  LET n == Len(nodes)
      open == (1 .. aux.compress) \cup (n + 1 - aux.compress .. n)
      met == n % 2 = 1 /\ (n + 1) \div 2 <= aux.compress
      more == (IF at \in open THEN {} ELSE {at})
              \cup (IF aux.compress >= 2 THEN {aux.compress + 1, n - aux.compress} ELSE {})
      raw == Apply(DecompressNode, nodes, open)
  IN IF aux.compress = 0 \/ len < 2 * aux.compress THEN nodes
     ELSE IF met THEN raw
     ELSE Apply(CompressNode, raw, more)

\* The macros quicklistCompress and quicklistRecompressOnly
CompressOrRecompress(nodes, len, at) ==
  IF nodes[at].rec THEN [nodes EXCEPT ![at] = CompressNode(@)] ELSE Compress(nodes, len, at)

RecompressOnly(q, i) ==
  IF q.nodes[i].rec THEN [q EXCEPT !.nodes[i] = CompressNode(@)] ELSE q

Leave(q, i) == [q EXCEPT !.nodes = CompressOrRecompress(@, Len(@), i)]
Open(q, i) == [q EXCEPT !.nodes[i] = ForUse(@)]

\* A ziplist function on the data of node i.
Touch(q, i) == [q EXCEPT !.bad = @ \/ q.nodes[i].lzf]

----------------------------------------------------------------------------
(* Nodes.                                                                  *)

Size(els) == FoldLeft(LAMBDA n, v : n + IF v \in Dense THEN 2 ELSE 1, 0, els)
SafetyLimit == 8

\* _quicklistNodeAllowInsert and _quicklistNodeAllowMerge: a negative fill limits
\* the bytes of a node, a positive one its entries.
Allows(els) ==
  IF aux.fill < 0 THEN Size(els) <= -aux.fill
  ELSE Size(els) <= SafetyLimit /\ Len(els) <= aux.fill

AllowInsert(q, i, v) == i \in DOMAIN q.nodes /\ Allows(Append(q.nodes[i].els, v))
AllowMerge(q, i, j) ==
  i \in DOMAIN q.nodes /\ j \in DOMAIN q.nodes /\ Allows(Concat(q.nodes[i].els, q.nodes[j].els))

\* __quicklistInsertNode; old is 0 when there is no node.
InsertNode(q, old, new, after) ==
  LET nodes == InsertAt(q.nodes, IF after THEN old + 1 ELSE Max({old, 1}), new)
      at == IF after THEN old ELSE old + 1
  IN [q EXCEPT !.nodes =
        IF old = 0 THEN nodes ELSE CompressOrRecompress(nodes, Len(q.nodes), at)]

\* __quicklistDelNode; n is the count of the node at that moment.
DelNode(q, i, n) ==
  [q EXCEPT !.nodes = Compress(RemoveAt(@, i), Len(@), 0), !.count = @ - n]

\* quicklistPushHead and quicklistPushTail
Push(q, v, head) ==
  LET at == IF head THEN Min({1, Len(q.nodes)}) ELSE Len(q.nodes)
      put == IF head THEN <<v>> \o q.nodes[at].els ELSE Append(q.nodes[at].els, v)
      r == IF AllowInsert(q, at, v)
           THEN [Touch(q, at) EXCEPT !.nodes[at].els = put]
           ELSE InsertNode(q, at, NewNode(<<v>>), ~head)
  IN [r EXCEPT !.count = @ + 1]

\* quicklistDelIndex
DelIndex(q, i, k) ==
  LET r == [Touch(q, i) EXCEPT !.nodes[i].els = RemoveAt(@, k)]
      s == IF r.nodes[i].els = <<>> THEN DelNode(r, i, 0) ELSE r
  IN [s EXCEPT !.count = @ - 1]

\* quicklistIndex: the node and the offset of the k-th element from the head; a
\* negative index is walked to from the tail and ends in the same place.
Index(q, k) ==
  LET Upto(i) == Len(Elements([q EXCEPT !.nodes = SubSeq(@, 1, i)]))
      node == Min({i \in DOMAIN q.nodes : Upto(i) >= k})
  IN [node |-> node, off |-> k - Upto(node - 1)]

\* quicklistReplaceAtIndex
ReplaceAtIndex(q, k, v) ==
  LET e == Index(q, k)
      r == Open(q, e.node)
  IN Leave([r EXCEPT !.nodes[e.node].els[e.off] = v], e.node)

\* _quicklistZiplistMerge of nodes i and i + 1: the larger one is kept.
ZiplistMerge(q, i) ==
  LET a == DecompressNode(q.nodes[i])
      b == DecompressNode(q.nodes[i + 1])
      keep == IF Len(a.els) >= Len(b.els) THEN a ELSE b
      drop == IF Len(a.els) >= Len(b.els) THEN i + 1 ELSE i
      merged == [keep EXCEPT !.els = Concat(a.els, b.els)]
      both == [q EXCEPT !.nodes[i] = merged, !.nodes[i + 1] = merged]
  IN Leave(DelNode(both, drop, 0), i)

MergeIf(q, i) == IF AllowMerge(q, i, i + 1) THEN ZiplistMerge(q, i) ELSE q

\* _quicklistMergeNodes around node c: the two before it, the two after it, then
\* it and the one before, then the result and the one after.
MergeNodes(q, c) ==
  LET Moved(s, d, r) == IF d < 0 THEN s.c - (Len(s.q.nodes) - Len(r.nodes)) ELSE s.c
      With(s, d, r) == [q |-> r, c |-> Moved(s, d, r)]
      Step(s, d) == With(s, d, MergeIf(s.q, s.c + d))
  IN FoldLeft(Step, [q |-> q, c |-> c], <<-2, 1, -1, 0>>).q

\* _quicklistSplitNode
SplitNode(els, off, after) ==
  IF after THEN [orig |-> SubSeq(els, 1, off), new |-> SubSeq(els, off + 1, Len(els))]
  ELSE [orig |-> SubSeq(els, off, Len(els)), new |-> SubSeq(els, 1, off - 1)]

\* _quicklistInsert at an entry an iterator stands on.  The test for the tail of a
\* node compares the offset with the count and never succeeds.
InsertEntry(q, i, off, v, after) ==
  LET full == ~AllowInsert(q, i, v)
      atHead == ~after /\ off = 1
      parts == SplitNode(q.nodes[i].els, off, after)
      r == IF ~full
           THEN RecompressOnly([Open(q, i) EXCEPT !.nodes[i].els =
                  InsertAt(@, IF after THEN off + 1 ELSE off, v)], i)
           ELSE IF atHead /\ i > 1 /\ AllowInsert(q, i - 1, v)
           THEN RecompressOnly([Open(q, i - 1) EXCEPT !.nodes[i - 1].els = Append(@, v)], i - 1)
           ELSE IF atHead /\ i > 1
           THEN InsertNode(q, i, NewNode(<<v>>), FALSE)
           ELSE LET new == NewNode(IF after THEN <<v>> \o parts.new ELSE Append(parts.new, v))
                    s == [Open(q, i) EXCEPT !.nodes[i].els = parts.orig]
                IN MergeNodes(InsertNode(s, i, new, after), IF after THEN i ELSE i + 1)
  IN [r EXCEPT !.count = @ + 1]

\* The loop of quicklistDelRange from an offset in node i; fromTail when the
\* range was given by a negative start.
RECURSIVE DelLoop(_, _, _, _, _)
DelLoop(q, i, off, extent, fromTail) ==
  LET n == Len(q.nodes[i].els)
      del == IF fromTail THEN Min({n - off + 1, extent})
             ELSE IF extent >= n THEN n - off + 1 ELSE extent
      cut == [Open(q, i) EXCEPT
                !.nodes[i].els = SubSeq(@, 1, off - 1) \o SubSeq(@, off + del, n),
                !.count = @ - del]
  IN IF extent = 0 THEN q
     ELSE IF ~fromTail /\ off = 1 /\ extent >= n
     THEN DelLoop(DelNode(q, i, n), i, 1, extent - n, FALSE)
     ELSE IF cut.nodes[i].els = <<>>
     THEN DelLoop(DelNode(cut, i, 0), i, 1, extent - del, FALSE)
     ELSE IF extent = del THEN RecompressOnly(cut, i)
     ELSE DelLoop(RecompressOnly(cut, i), i + 1, 1, extent - del, FALSE)

\* quicklistDelRange as LTRIM calls it: n elements from the head or to the tail.
DelRange(q, n, fromTail) ==
  LET e == Index(q, IF fromTail THEN q.count - n + 1 ELSE 1) IN
  IF n = 0 \/ q.count = 0 THEN q ELSE DelLoop(Open(q, e.node), e.node, e.off, n, fromTail)

\* quicklistNext from entry to entry: a node is opened when the iterator comes to
\* it and compressed again when it leaves it.  listTypeReleaseIterator frees the
\* iterator alone, so the node it stands in stays open.
Walk(q, from, to) == FoldLeft(LAMBDA r, i : Open(Leave(r, i), i + 1), Open(q, from),
                              [k \in 1 .. to - from |-> from + k - 1])

\* LREM with quicklistDelEntry; left is the number still to remove, 0 for all.
RECURSIVE RemoveFrom(_, _, _, _, _, _)
RemoveFrom(q, i, off, v, left, forward) ==
  LET r == Open(q, i)
      next == IF forward THEN i + 1 ELSE i - 1
      First(s, j) == IF forward \/ j \notin DOMAIN s.nodes THEN 1 ELSE Len(s.nodes[j].els)
      gone == Len(r.nodes[i].els) = 1
      d == DelIndex(r, i, off)
      after == IF gone /\ forward THEN i ELSE IF gone THEN i - 1 ELSE i
  IN IF i \notin DOMAIN q.nodes THEN q
     ELSE IF off \notin DOMAIN r.nodes[i].els
     THEN RemoveFrom(Leave(r, i), next, First(q, next), v, left, forward)
     ELSE IF r.nodes[i].els[off] # v
     THEN RemoveFrom(r, i, IF forward THEN off + 1 ELSE off - 1, v, left, forward)
     ELSE IF left = 1 THEN d
     ELSE RemoveFrom(d, after, IF gone THEN First(d, after) ELSE IF forward THEN off ELSE off - 1,
                 v, left - 1, forward)

----------------------------------------------------------------------------
Init == impl = Empty /\ ref = <<>> /\ aux \in Configs

\* LPUSH and RPUSH
PushCommand(v, head) ==
  /\ Len(ref) < MaxLen
  /\ impl' = Push(impl, v, head)
  /\ ref' = IF head THEN <<v>> \o ref ELSE Append(ref, v)
  /\ UNCHANGED aux

\* LPOP and RPOP: quicklistPopCustom
PopCommand(head) ==
  LET i == IF head THEN 1 ELSE Len(impl.nodes) IN
  /\ ref # <<>>
  /\ impl' = DelIndex(impl, i, IF head THEN 1 ELSE Len(impl.nodes[i].els))
  /\ ref' = IF head THEN Tail(ref) ELSE Front(ref)
  /\ UNCHANGED aux

\* RPOPLPUSH of a list onto itself pops, then pushes.
RotateCommand ==
  /\ Len(ref) > 1
  /\ impl' = Push(DelIndex(impl, Len(impl.nodes), Len(Last(impl.nodes).els)), Last(ref), TRUE)
  /\ ref' = <<Last(ref)>> \o Front(ref)
  /\ UNCHANGED aux

\* LINDEX: quicklistIndex opens the node and nothing closes it.
LindexCommand(k) ==
  /\ ~aux.queue /\ k \in DOMAIN ref
  /\ impl' = Open(impl, Index(impl, k).node)
  /\ UNCHANGED <<ref, aux>>

\* LRANGE
LrangeCommand(start, end) ==
  /\ ~aux.queue /\ start \in DOMAIN ref /\ end \in start .. Len(ref)
  /\ impl' = Walk(impl, Index(impl, start).node, Index(impl, end).node)
  /\ UNCHANGED <<ref, aux>>

\* LSET
LsetCommand(k, v) ==
  /\ ~aux.queue /\ k \in DOMAIN ref
  /\ impl' = ReplaceAtIndex(impl, k, v)
  /\ ref' = [ref EXCEPT ![k] = v]
  /\ UNCHANGED aux

\* LINSERT next to the first occurrence of a value.
LinsertCommand(pivot, v, after) ==
  LET k == Min({j \in DOMAIN ref : ref[j] = pivot})
      e == Index(impl, k)
  IN /\ ~aux.queue /\ Len(ref) < MaxLen /\ pivot \in {ref[j] : j \in DOMAIN ref}
     /\ impl' = InsertEntry(Walk(impl, 1, e.node), e.node, e.off, v, after)
     /\ ref' = InsertAt(ref, IF after THEN k + 1 ELSE k, v)
     /\ UNCHANGED aux

\* LTRIM: ltrim elements from the head and rtrim from the tail.
LtrimCommand(ltrim, rtrim) ==
  /\ ~aux.queue /\ ref # <<>> /\ ltrim + rtrim <= Len(ref)
  /\ impl' = DelRange(DelRange(impl, ltrim, FALSE), rtrim, TRUE)
  /\ ref' = SubSeq(ref, ltrim + 1, Len(ref) - rtrim)
  /\ UNCHANGED aux

\* LREM of the first, the last or all occurrences.
LremCommand(v, left, forward) ==
  LET at == {j \in DOMAIN ref : ref[j] = v}
      gone == IF left = 0 \/ at = {} THEN at ELSE {IF forward THEN Min(at) ELSE Max(at)}
      last == Len(impl.nodes)
  IN /\ ~aux.queue /\ ref # <<>>
     /\ impl' = RemoveFrom(impl, IF forward THEN 1 ELSE last,
                       IF forward THEN 1 ELSE Len(impl.nodes[last].els), v, left, forward)
     /\ ref' = [j \in 1 .. Len(ref) - Cardinality(gone) |->
                  ref[SetToSortSeq(DOMAIN ref \ gone, <)[j]]]
     /\ UNCHANGED aux

\* Loading the list from an RDB file: quicklistAppendZiplist of node after node.
Reload ==
  /\ impl' = [FoldLeft(LAMBDA q, n : InsertNode(q, Len(q.nodes), NewNode(n.els), TRUE),
                       Empty, impl.nodes)
              EXCEPT !.count = Len(ref), !.bad = impl.bad]
  /\ UNCHANGED <<ref, aux>>

Next ==
  \/ \E v \in Values, head \in BOOLEAN : PushCommand(v, head)
  \/ \E head \in BOOLEAN : PopCommand(head)
  \/ RotateCommand
  \/ \E k \in 1 .. MaxLen : LindexCommand(k)
  \/ \E start, end \in 1 .. MaxLen : LrangeCommand(start, end)
  \/ \E k \in 1 .. MaxLen, v \in Values : LsetCommand(k, v)
  \/ \E pivot, v \in Values, after \in BOOLEAN : LinsertCommand(pivot, v, after)
  \/ \E ltrim, rtrim \in 0 .. MaxLen : LtrimCommand(ltrim, rtrim)
  \/ \E v \in Values, left \in {0, 1}, forward \in BOOLEAN : LremCommand(v, left, forward)
  \/ Reload

Spec == Init /\ [][Next]_vars

----------------------------------------------------------------------------
\* The nodes hold the elements in order, none is empty, none is over the limit on
\* its entries, and the count is right, whatever was split, merged and deleted
\* (_quicklistInsert, _quicklistMergeNodes, quicklistDelRange, quicklistDelEntry).
ListExact ==
  /\ Elements(impl) = ref /\ impl.count = Len(ref)
  /\ \A i \in DOMAIN impl.nodes :
       /\ impl.nodes[i].els # <<>>
       /\ aux.fill > 0 => Len(impl.nodes[i].els) <= aux.fill

\* A list that is only pushed to, popped from, rotated and reloaded keeps
\* both ends uncompressed and never hands a compressed node to a ziplist
\* function (quicklistPushHead, quicklistPopCustom and quicklistDelIndex rely on it).
QueueEndsOpen ==
  aux.queue => /\ ~impl.bad
               /\ impl.nodes # <<>> => ~Head(impl.nodes).lzf /\ ~Last(impl.nodes).lzf

=============================================================================
