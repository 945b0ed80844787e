-------------------------------- MODULE Rax --------------------------------
(* The radix tree of rax.c.  A node is identified by the characters that   *)
(* lead to it from the head, so a child pointer is the path it leads to:   *)
(* a compressed node at p with string s has its one child at p \o s, a     *)
(* normal node has one child at p \o <<c>> for each of its characters c.   *)
(*   impl = [node |-> path -> raxNode, numele, numnodes]                   *)
(*   aux  = not used                                                       *)
EXTENDS Integers, Sequences, SequencesExt, FiniteSets, TLC

CONSTANTS Keys,      \* the keys inserted and removed, sequences of characters
          Probes,    \* the elements iterators are sought at
          Values,    \* the values stored at the keys
          NodeMax    \* RAX_NODE_MAX_SIZE; see Chain

VARIABLES impl, aux

vars == <<impl, aux>>

None == "none"
Head0 == <<>>

Leaf == [compr |-> FALSE, data |-> <<>>, key |-> FALSE, val |-> None]

\* memcmp order of two strings, a prefix first
Before(a, b) ==
    \E n \in 0 .. Len(a) :
        /\ n < Len(b)
        /\ SubSeq(a, 1, n) = SubSeq(b, 1, n)
        /\ (n = Len(a) \/ (n < Len(a) /\ a[n + 1] < b[n + 1]))

Size(n) == Len(n.data)
Children(p, n) ==
    IF n.compr THEN {p \o n.data} ELSE {p \o <<n.data[i]>> : i \in 1 .. Size(n)}
Without(t, S) == [p \in DOMAIN t \ S |-> t[p]]

(***************************************************************************)
(* raxLowWalk: how far the characters of s can be followed.  "stack" holds *)
(* the nodes above the one where the walk stops, "at" that node, "i" the   *)
(* number of characters matched and "j" the position inside a compressed   *)
(* node where the walk left it.                                            *)
(***************************************************************************)
RECURSIVE LowWalk(_, _, _, _, _)
LowWalk(t, s, at, i, stack) ==
    LET n    == t[at]
        rest == SubSeq(s, i + 1, Len(s))
        j    == Len(LongestCommonPrefix({n.data, rest}))
    IN  IF Size(n) = 0 \/ i >= Len(s)
        THEN [at |-> at, i |-> i, j |-> 0, stack |-> stack]
        ELSE IF n.compr
        THEN IF j # Size(n)
             THEN [at |-> at, i |-> i + j, j |-> j, stack |-> stack]
             ELSE LowWalk(t, s, at \o n.data, i + j, Append(stack, at))
        ELSE IF ~Contains(n.data, s[i + 1])
             THEN [at |-> at, i |-> i, j |-> 0, stack |-> stack]
             ELSE LowWalk(t, s, Append(at, s[i + 1]), i + 1, Append(stack, at))

Walk(t, s) == LowWalk(t, s, Head0, 0, <<>>)

\* raxAddChild keeps the characters of a normal node sorted
AddChar(data, c) ==
    IF Contains(data, c) THEN data
    ELSE SelectSeq(data, LAMBDA x : x < c) \o <<c>> \o SelectSeq(data, LAMBDA x : x > c)

\* the loop at the end of raxGenericInsert that appends what is left of s
RECURSIVE Extend(_, _, _, _)
Extend(r, s, at, i) ==
    LET n    == r.node[at]
        left == Len(s) - i
        take == IF Size(n) = 0 /\ left > 1
                THEN IF left > NodeMax THEN NodeMax ELSE left ELSE 1
        next == at \o SubSeq(s, i + 1, i + take)
        here == IF take > 1
                THEN [n EXCEPT !.compr = TRUE, !.data = SubSeq(s, i + 1, i + take)]
                ELSE [n EXCEPT !.data = AddChar(@, s[i + 1])]
    IN  IF left = 0 THEN r
        ELSE Extend([r EXCEPT !.node = (at :> here) @@ (next :> Leaf) @@ @,
                              !.numnodes = @ + 1], s, next, i + take)

Named(r, s, v) ==
    [r EXCEPT !.node[s].key = TRUE, !.node[s].val = v,
              !.numele = @ + (IF r.node[s].key THEN 0 ELSE 1)]

\* the node h cut after its first j characters, and the node after the cut
Trimmed(h, j) == [h EXCEPT !.data = SubSeq(@, 1, j), !.compr = j > 1]
Postfix(h, j) == [Leaf EXCEPT !.data = SubSeq(h.data, j + 1, Size(h)),
                              !.compr = Size(h) - j > 1]

\* ALGO 1: the mismatch at position j of a compressed node becomes a normal
\* node of its own, between the trimmed node and the postfix
SplitMismatch(r, at, j) ==
    LET h     == r.node[at]
        below == at \o SubSeq(h.data, 1, j)
        after == Append(below, h.data[j + 1])
        split == [Leaf EXCEPT !.data = <<h.data[j + 1]>>,
                              !.key = (j = 0 /\ h.key),
                              !.val = IF j = 0 THEN h.val ELSE None]
        t1    == IF j = 0 THEN r.node ELSE (at :> Trimmed(h, j)) @@ r.node
        t2    == IF Size(h) = j + 1 THEN t1
                 ELSE (after :> Postfix(h, j + 1)) @@ t1
    IN  [r EXCEPT !.node = (below :> split) @@ t2,
                  !.numnodes = @ + (IF j = 0 THEN 0 ELSE 1)
                                 + (IF Size(h) = j + 1 THEN 0 ELSE 1)]

\* ALGO 2: the key ends inside a compressed node, which is cut there
SplitPrefix(r, at, j, v) ==
    LET h     == r.node[at]
        below == at \o SubSeq(h.data, 1, j)
    IN  [r EXCEPT !.node = (below :> [Postfix(h, j) EXCEPT !.key = TRUE, !.val = v])
                           @@ (at :> Trimmed(h, j)) @@ @,
                  !.numnodes = @ + 1, !.numele = @ + 1]

\* raxGenericInsert
Insert(r, s, v, overwrite) ==
    LET w == Walk(r.node, s)
        h == r.node[w.at]
    IN  IF w.i = Len(s) /\ (~h.compr \/ w.j = 0)
        THEN IF h.key /\ ~overwrite THEN r ELSE Named(r, s, v)
        ELSE IF h.compr /\ w.i # Len(s)
        THEN LET split == SplitMismatch(r, w.at, w.j)
                 below == w.at \o SubSeq(h.data, 1, w.j)
             IN  Named(Extend(split, s, below, w.i), s, v)
        ELSE IF h.compr THEN SplitPrefix(r, w.at, w.j, v)
        ELSE Named(Extend(r, s, w.at, w.i), s, v)

\* raxFind
Find(t, s) ==
    LET w == Walk(t, s)
        h == t[w.at]
    IN  IF w.i # Len(s) \/ (h.compr /\ w.j # 0) \/ ~h.key THEN None ELSE h.val

(***************************************************************************)
(* raxRemove.  Climb frees the chain of nodes left without a key and       *)
(* returns the first one worth keeping and the child it must forget.       *)
(***************************************************************************)
RECURSIVE Climb(_, _, _)
Climb(r, at, stack) ==
    LET up == Last(stack)
        n  == r.node[up]
        r1 == [r EXCEPT !.node = Without(@, {at}), !.numnodes = @ - 1]
    IN  IF n.key \/ (~n.compr /\ Size(n) # 1) \/ up = Head0
        THEN [r |-> r1, at |-> up, child |-> at, stack |-> Front(stack)]
        ELSE Climb(r1, up, Front(stack))

\* raxRemoveChild
RemoveChild(p, n, child) ==
    IF n.compr THEN [n EXCEPT !.data = <<>>, !.compr = FALSE]
    ELSE [n EXCEPT !.data = SelectSeq(@, LAMBDA c : Append(p, c) # child)]

OneWay(n) == ~n.key /\ (n.compr \/ Size(n) = 1)

\* the highest node the chain through at can start from
RECURSIVE ChainStart(_, _, _)
ChainStart(t, at, stack) ==
    IF stack = <<>> \/ ~OneWay(t[Last(stack)]) THEN at
    ELSE ChainStart(t, Last(stack), Front(stack))

\* the nodes below at that can be merged with it, and the node after them, while
\* the text they hold fits one node.  The instances keep the keys shorter than
\* that: the second scan of raxRemove, which copies the text, does not stop there.
RECURSIVE Chain(_, _, _, _)
Chain(t, at, nodes, comprsize) ==
    LET next == CHOOSE p \in Children(at, t[at]) : TRUE
    IN  IF \/ Size(t[at]) = 0
           \/ nodes # {} /\ (~OneWay(t[at]) \/ comprsize + Size(t[at]) > NodeMax)
        THEN [nodes |-> nodes, end |-> at]
        ELSE Chain(t, next, nodes \cup {at}, comprsize + Size(t[at]))

\* the "trycompress" part of raxRemove
Recompress(r, at, stack) ==
    LET start == ChainStart(r.node, at, stack)
        c     == Chain(r.node, start, {}, 0)
        text  == SubSeq(c.end, Len(start) + 1, Len(c.end))
        new   == [Leaf EXCEPT !.data = text, !.compr = TRUE]
    IN  IF Cardinality(c.nodes) < 2 THEN r
        ELSE [r EXCEPT !.node = (start :> new) @@ Without(@, c.nodes),
                       !.numnodes = @ - Cardinality(c.nodes) + 1]

Remove0(r, s) ==
    LET w  == Walk(r.node, s)
        h  == r.node[w.at]
        r0 == [r EXCEPT !.node[w.at].key = FALSE, !.node[w.at].val = None,
                        !.numele = @ - 1]
        c  == Climb(r0, w.at, w.stack)
        r1 == [c.r EXCEPT !.node[c.at] = RemoveChild(c.at, @, c.child)]
        n1 == r1.node[c.at]
    IN  IF w.i # Len(s) \/ (h.compr /\ w.j # 0) \/ ~h.key THEN r
        ELSE IF Size(h) = 0
        THEN IF w.at = Head0 THEN r0
             ELSE IF Size(n1) = 1 /\ ~n1.key THEN Recompress(r1, c.at, c.stack)
             ELSE r1
        ELSE IF Size(h) = 1 THEN Recompress(r0, w.at, w.stack)
        ELSE r0

(***************************************************************************)
(* Iterators.  "key" is the key under construction, which in the middle of *)
(* a seek can differ from the path of "at"; "js" is RAX_ITER_JUST_SEEKED.  *)
(***************************************************************************)
IterStart == [at |-> Head0, stack |-> <<>>, key |-> <<>>, data |-> None,
              js |-> FALSE, eof |-> TRUE]

Down(it, p, chars) ==
    [it EXCEPT !.at = p, !.stack = Append(@, it.at), !.key = @ \o chars]
Cut(s, n) == SubSeq(s, 1, Len(s) - n)
DelWidth(n) == IF n.compr THEN Size(n) ELSE 1
Found(t, it) == [it EXCEPT !.data = t[it.at].val]

\* raxIteratorNextStep, and the part of it that climbs to a larger sibling
RECURSIVE NextDown(_, _, _, _)
RECURSIVE NextUp(_, _, _, _)
NextDown(t, it, noup, orig) ==
    LET n   == t[it.at]
        it1 == IF n.compr THEN Down(it, it.at \o n.data, n.data)
               ELSE Down(it, Append(it.at, n.data[1]), <<n.data[1]>>)
    IN  IF Size(n) = 0 \/ noup THEN NextUp(t, it, noup, orig)
        ELSE IF t[it1.at].key THEN Found(t, it1)
        ELSE NextDown(t, it1, FALSE, orig)
NextUp(t, it, noup, orig) ==
    LET last == Last(it.key)
        it1  == IF noup THEN it
                ELSE [it EXCEPT !.at = Last(it.stack), !.stack = Front(@)]
        n    == t[it1.at]
        it2  == [it1 EXCEPT !.key = Cut(@, DelWidth(n))]
        more == {c \in ToSet(n.data) : c > last}
        c    == CHOOSE x \in more : \A y \in more : x <= y
        it3  == Down(it2, Append(it1.at, c), <<c>>)
    IN  IF ~noup /\ it.at = Head0 THEN [orig EXCEPT !.eof = TRUE]
        ELSE IF n.compr \/ Size(n) <= (IF noup THEN 0 ELSE 1) \/ more = {}
        THEN NextUp(t, it2, FALSE, orig)
        ELSE IF t[it3.at].key THEN Found(t, it3)
        ELSE NextDown(t, it3, FALSE, orig)

NextStep(t, it, noup) ==
    IF it.eof THEN it
    ELSE IF it.js THEN [it EXCEPT !.js = FALSE]
    ELSE NextDown(t, it, noup, it)

\* raxSeekGreatest
RECURSIVE SeekGreatestByFirst(_, _)
SeekGreatestByFirst(t, it) ==
    LET n == t[it.at]
        text == IF n.compr THEN n.data ELSE <<n.data[1]>>
    IN  IF Size(n) = 0 THEN it
        ELSE SeekGreatestByFirst(t, Down(it, it.at \o text, text))
RECURSIVE SeekGreatest(_, _)
SeekGreatest(t, it) ==
    LET n == t[it.at]
        text == IF n.compr THEN n.data ELSE <<Last(n.data)>>
    IN  IF Size(n) = 0 THEN it ELSE SeekGreatest(t, Down(it, it.at \o text, text))

\* raxIteratorPrevStep
RECURSIVE PrevUp(_, _, _, _)
PrevUp(t, it, noup, orig) ==
    LET last == Last(it.key)
        it1  == IF noup THEN it
                ELSE [it EXCEPT !.at = Last(it.stack), !.stack = Front(@)]
        n    == t[it1.at]
        it2  == [it1 EXCEPT !.key = Cut(@, DelWidth(n))]
        less == {c \in ToSet(n.data) : c < last}
        c    == CHOOSE x \in less : \A y \in less : x >= y
        it3  == IF n.compr \/ Size(n) <= (IF noup THEN 0 ELSE 1) \/ less = {} THEN it2
                ELSE SeekGreatest(t, Down(it2, Append(it1.at, c), <<c>>))
    IN  IF ~noup /\ it.at = Head0 THEN [orig EXCEPT !.eof = TRUE]
        ELSE IF t[it3.at].key THEN Found(t, it3)
        ELSE PrevUp(t, it3, FALSE, orig)

PrevStep(t, it, noup) ==
    IF it.eof THEN it
    ELSE IF it.js THEN [it EXCEPT !.js = FALSE]
    ELSE PrevUp(t, it, noup, it)

\* raxSeek for the operator $
SeekLast(t) ==
    LET it == SeekGreatest(t, [IterStart EXCEPT !.eof = FALSE])
    IN  IF \A p \in DOMAIN t : ~t[p].key THEN IterStart
        ELSE [Found(t, it) EXCEPT !.js = TRUE]

\* raxSeek for the operators >, >=, <, <= and =, and for ^, which is >= of the
\* empty string; eq, lt and gt are its flags
Seek(t, numele, s, eq, lt, gt) ==
    LET w    == Walk(t, s)
        n    == t[w.at]
        it0  == [IterStart EXCEPT !.eof = FALSE, !.at = w.at, !.stack = w.stack]
        here == [it0 EXCEPT !.key = SubSeq(s, 1, w.i - w.j)]
        past == [here EXCEPT !.key = @ \o n.data]
        mism == [here EXCEPT !.key = @ \o <<s[w.i + 1]>>]
        c    == n.data[w.j + 1]
        k    == s[w.i + 1]
        noup == w.i # Len(s) /\ (n.compr /\ gt => c < k)
        from == IF ~noup THEN here ELSE IF n.compr THEN past ELSE mism
        r    == IF w.i # Len(s) /\ n.compr /\ ~gt /\ c < k
                THEN Found(t, SeekGreatest(t, here))
                ELSE IF w.i = Len(s) /\ n.compr /\ n.key /\ w.j # 0 /\ lt THEN here
                ELSE IF gt THEN NextStep(t, from, noup) ELSE PrevStep(t, from, noup)
    IN  IF numele = 0 THEN IterStart
        ELSE IF eq /\ w.i = Len(s) /\ (~n.compr \/ w.j = 0) /\ n.key
        THEN [Found(t, [here EXCEPT !.key = s]) EXCEPT !.js = TRUE]
        ELSE IF lt \/ gt THEN [r EXCEPT !.js = TRUE]
        ELSE [it0 EXCEPT !.eof = TRUE]

(***************************************************************************)
(* The module as a state machine: one insertion or removal at a time.      *)
(***************************************************************************)
Init ==
    /\ impl = [node |-> Head0 :> Leaf, numele |-> 0, numnodes |-> 1]
    /\ aux = None

\* raxInsert (overwrite) and raxTryInsert (not)
Add(k, v, overwrite) ==
    /\ impl' = Insert(impl, k, v, overwrite)
    /\ UNCHANGED aux

Del(k) ==
    /\ impl' = Remove0(impl, k)
    /\ UNCHANGED aux

Next == \E k \in Keys : Del(k) \/ \E v \in Values, overwrite \in BOOLEAN : Add(k, v, overwrite)
Spec == Init /\ [][Next]_vars

(***************************************************************************)
(* Properties.                                                             *)
(***************************************************************************)
\* The keys a lookup finds.
Held == {k \in Keys : Find(impl.node, k) # None}

\* The shape raxLowWalk and the iterators rely on: every child pointer leads
\* to a node and every node but the head is some node's child, characters are
\* sorted, a compressed node holds at least two, and no leaf that is not a key
\* is left behind by a removal; numele and numnodes count keys and nodes, and
\* a lookup finds exactly the keys that are marked.
TreeShape ==
    LET t == impl.node IN
    /\ impl.numele = Cardinality(Held)
    /\ impl.numele = Cardinality({p \in DOMAIN t : t[p].key})
    /\ impl.numnodes = Cardinality(DOMAIN t)
    /\ UNION {Children(p, t[p]) : p \in DOMAIN t} = DOMAIN t \ {Head0}
    /\ \A p \in DOMAIN t :
        /\ t[p].compr => Size(t[p]) > 1
        /\ ~t[p].compr => \A i \in 2 .. Size(t[p]) : t[p].data[i - 1] < t[p].data[i]
        /\ Size(t[p]) = 0 => t[p].key \/ p = Head0

\* Where an iterator stands after a seek and how it goes on from there.
RECURSIVE Ordered(_)
Ordered(S) ==
    IF S = {} THEN <<>>
    ELSE LET k == CHOOSE x \in S : \A y \in S : x = y \/ Before(x, y)
         IN  <<k>> \o Ordered(S \ {k})
Wanted(s, eq, lt, gt) ==
    {k \in Held : (eq /\ k = s) \/ (lt /\ Before(k, s)) \/ (gt /\ Before(s, k))}
RECURSIVE Forward(_, _)
Forward(it, n) ==
    IF it.eof \/ n = 0 THEN <<>>
    ELSE <<it.key>> \o Forward(NextStep(impl.node, [it EXCEPT !.js = FALSE], FALSE), n - 1)
RECURSIVE Backward(_, _)
Backward(it, n) ==
    IF it.eof \/ n = 0 THEN <<>>
    ELSE <<it.key>> \o Backward(PrevStep(impl.node, [it EXCEPT !.js = FALSE], FALSE), n - 1)

\* raxSeek with <, <=, =, >=, > finds the nearest key on the requested side of
\* any string, present or not, and raxNext and raxPrev go on from there through
\* exactly the remaining keys, in order and without repetition.
SeekExact ==
    LET max == Cardinality(Keys) + 1
    IN  /\ \A s \in Probes \cup {<<>>}, op \in {"<", "<=", "=", ">=", ">"} :
            \A eq \in {op \notin {"<", ">"}}, lt \in {op \in {"<", "<="}}, gt \in {op \in {">", ">="}} :
                \A it \in {Seek(impl.node, impl.numele, s, eq, lt, gt)},
                   keys \in {Ordered(Wanted(s, eq, lt, gt))} :
                    /\ it.eof = (keys = <<>>)
                    /\ gt => Forward(it, max) = keys
                    /\ lt => Backward(it, max) = Reverse(keys)
        /\ Backward(SeekLast(impl.node), max) = Reverse(Ordered(Held))

=============================================================================
