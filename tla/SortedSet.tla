------------------------------ MODULE SortedSet ------------------------------
(***************************************************************************)
(* The sorted set of t_zset.c in its two encodings: a ziplist of pairs in  *)
(* order, or a skip list with a dictionary from elements to scores.  The   *)
(* skip list is modelled with all its pointers and spans: a node is named  *)
(* by its element.  Elements are numbers in the order of sdscmp, scores    *)
(* are numbers; 0 is the header and -1 is NULL.                            *)
(***************************************************************************)
EXTENDS Integers, Sequences, FiniteSets, FiniteSetsExt, SequencesExt

CONSTANTS
  Eles,        \* elements, 1 .. n
  Long,        \* the elements longer than zset_max_ziplist_value
  Scores,
  MaxLevel,    \* ZSKIPLIST_MAXLEVEL
  MaxEntries,  \* zset_max_ziplist_entries
  Other        \* the second operand of ZUNIONSTORE and ZINTERSTORE

VARIABLES
  impl,   \* the value of the key: its encoding and the structures
  ref,    \* the scores of the elements it should hold
  aux     \* not used

vars == <<impl, ref, aux>>

Header == 0
Null == -1
NoScores == [e \in {} |-> 0]
Without(f, E) == [e \in DOMAIN f \ E |-> f[e]]
With(f, e, s) == [x \in DOMAIN f \cup {e} |-> IF x = e THEN s ELSE f[x]]

\* The order of the sorted set: by score, then by element.
Before(s1, e1, s2, e2) == s1 < s2 \/ (s1 = s2 /\ e1 < e2)
InOrder(f) ==
  SetToSortSeq(DOMAIN f, LAMBDA a, b : Before(f[a], a, f[b], b))

----------------------------------------------------------------------------
(* The skip list.                                                          *)

\* zslCreate
EmptySkiplist ==
  [node |-> [n \in {Header} |->
               [score |-> 0, back |-> Null, fwd |-> [i \in 1 .. MaxLevel |-> Null],
                span |-> [i \in 1 .. MaxLevel |-> 0]]],
   tail |-> Null, level |-> 1, length |-> 0]

Elements(z) == DOMAIN z.node \ {Header}

\* From node x along level i as long as the next node is in S: where that ends
\* and the sum of the spans.
Walk(z, i, x, S) ==
  LET w[y \in DOMAIN z.node] ==
        IF z.node[y].fwd[i] \in S
        THEN LET r == w[z.node[y].fwd[i]] IN [r EXCEPT !.rank = @ + z.node[y].span[i]]
        ELSE [x |-> y, rank |-> 0]
  IN w[x]

\* The descent all operations begin with: update[i] and rank[i] of each level.
Descend(z, S) ==
  LET d[i \in 1 .. z.level] ==
        LET from == IF i = z.level THEN [x |-> Header, rank |-> 0] ELSE d[i + 1]
            to == Walk(z, i, from.x, S)
        IN [to EXCEPT !.rank = @ + from.rank]
  IN d

Smaller(z, score, ele) ==
  {e \in Elements(z) : Before(z.node[e].score, e, score, ele)}

\* zslInsert with the level zslRandomLevel drew.
Insert(z, score, ele, lvl) ==
  LET d == Descend(z, Smaller(z, score, ele))
      up(i) == IF i <= z.level THEN d[i].x ELSE Header
      rank(i) == IF i <= z.level THEN d[i].rank ELSE 0
      span(i) == IF i <= z.level THEN z.node[up(i)].span[i] ELSE z.length
      new == [score |-> score, back |-> IF up(1) = Header THEN Null ELSE up(1),
              fwd |-> [i \in 1 .. lvl |-> z.node[up(i)].fwd[i]],
              span |-> [i \in 1 .. lvl |-> span(i) - (rank(1) - rank(i))]]
      Linked(n) ==
        [z.node[n] EXCEPT
          !.fwd = [i \in DOMAIN @ |-> IF i <= lvl /\ up(i) = n THEN ele ELSE @[i]],
          !.span = [i \in DOMAIN @ |->
            IF up(i) # n THEN @[i]
            ELSE IF i <= lvl THEN rank(1) - rank(i) + 1
            ELSE IF i <= z.level THEN @[i] + 1 ELSE @[i]],
          !.back = IF n = new.fwd[1] THEN ele ELSE @]
  IN [node |-> [n \in DOMAIN z.node \cup {ele} |-> IF n = ele THEN new ELSE Linked(n)],
      tail |-> IF new.fwd[1] = Null THEN ele ELSE z.tail,
      level |-> Max({z.level, lvl}), length |-> z.length + 1]

\* zslDeleteNode; d is the descent that ended in front of x.
DeleteNode(z, x, d) ==
  LET gone == z.node[x]
      Unlinked(n) ==
        [z.node[n] EXCEPT
          !.fwd = [i \in DOMAIN @ |-> IF @[i] = x THEN gone.fwd[i] ELSE @[i]],
          !.span = [i \in DOMAIN @ |->
            IF i > z.level \/ d[i].x # n THEN @[i]
            ELSE IF z.node[n].fwd[i] = x THEN @[i] + gone.span[i] - 1 ELSE @[i] - 1],
          !.back = IF n = gone.fwd[1] THEN gone.back ELSE @]
      node == [n \in DOMAIN z.node \ {x} |-> Unlinked(n)]
  IN [node |-> node,
      tail |-> IF gone.fwd[1] = Null THEN gone.back ELSE z.tail,
      level |-> Max({1} \cup {i \in 1 .. z.level : node[Header].fwd[i] # Null}),
      length |-> z.length - 1]

\* zslDelete
Delete(z, score, ele) ==
  LET d == Descend(z, Smaller(z, score, ele))
      x == z.node[d[1].x].fwd[1]
  IN IF x = ele /\ z.node[x].score = score THEN DeleteNode(z, x, d) ELSE z

\* zslUpdateScore: in place when the node stays between its neighbours.
UpdateScore(z, cur, ele, score, lvl) ==
  LET d == Descend(z, Smaller(z, cur, ele))
      x == z.node[d[1].x].fwd[1]
      fits == /\ z.node[x].back = Null \/ z.node[z.node[x].back].score < score
              /\ z.node[x].fwd[1] = Null \/ z.node[z.node[x].fwd[1]].score > score
  IN IF fits THEN [z EXCEPT !.node[x].score = score]
     ELSE Insert(DeleteNode(z, x, d), score, ele, lvl)

\* The nodes from x on, along the forward or the backward pointers.
Follow(z, x, reverse) ==
  LET f[y \in DOMAIN z.node \cup {Null}] ==
        IF y = Null THEN <<>>
        ELSE <<y>> \o f[IF reverse THEN z.node[y].back ELSE z.node[y].fwd[1]]
  IN f[x]

\* zslGetRank: 1-based, 0 when it is not there; the element may be met on any level.
GetRank(z, score, ele) ==
  LET d == Descend(z, Smaller(z, score, ele) \cup
                      {e \in Elements(z) : z.node[e].score = score /\ e = ele})
      hit == {i \in 1 .. z.level : d[i].x = ele}
  IN IF hit = {} THEN 0 ELSE d[Max(hit)].rank

\* zslGetElementByRank: the descent is by the spans alone.
RankWalk(z, i, x, r, limit) ==
  LET w[y \in DOMAIN z.node, t \in 0 .. Cardinality(DOMAIN z.node)] ==
        IF z.node[y].fwd[i] # Null /\ t + z.node[y].span[i] <= limit
        THEN w[z.node[y].fwd[i], t + z.node[y].span[i]]
        ELSE [x |-> y, rank |-> t]
  IN w[x, r]

RankDescend(z, limit) ==
  LET d[i \in 1 .. z.level] ==
        LET from == IF i = z.level THEN [x |-> Header, rank |-> 0] ELSE d[i + 1]
        IN RankWalk(z, i, from.x, from.rank, limit)
  IN d

GetElementByRank(z, rank) ==
  LET d == RankDescend(z, rank)
      hit == {i \in 1 .. z.level : d[i].rank = rank}
  IN IF hit = {} THEN Null ELSE d[Max(hit)].x

----------------------------------------------------------------------------
(* Ranges by score and by element (lexicographic).  The strings "-" and    *)
(* "+" are numbers below and above all elements.                           *)

Key(r, score, ele) == IF r.by = "score" THEN score ELSE ele

\* zslValueGteMin and zslLexValueGteMin
GteMin(r, score, ele) ==
  IF r.minex THEN Key(r, score, ele) > r.min ELSE Key(r, score, ele) >= r.min

\* zslValueLteMax and zslLexValueLteMax
LteMax(r, score, ele) ==
  IF r.maxex THEN Key(r, score, ele) < r.max ELSE Key(r, score, ele) <= r.max

NodeGte(z, r) == {e \in Elements(z) : GteMin(r, z.node[e].score, e)}
NodeLte(z, r) == {e \in Elements(z) : LteMax(r, z.node[e].score, e)}

EmptyRange(r) == r.min > r.max \/ (r.min = r.max /\ (r.minex \/ r.maxex))

\* zslIsInRange and zslIsInLexRange
IsInRange(z, r) ==
  LET first == z.node[Header].fwd[1] IN
  ~EmptyRange(r) /\ z.tail \in NodeGte(z, r) /\ first \in NodeLte(z, r)

\* zslFirstInRange and zslFirstInLexRange
FirstInRange(z, r) ==
  LET x == z.node[Descend(z, Elements(z) \ NodeGte(z, r))[1].x].fwd[1] IN
  IF IsInRange(z, r) /\ x \in NodeLte(z, r) THEN x ELSE Null

\* zslLastInRange and zslLastInLexRange
LastInRange(z, r) ==
  LET x == Descend(z, NodeLte(z, r))[1].x IN
  IF IsInRange(z, r) /\ x \in NodeGte(z, r) THEN x ELSE Null

\* The loops of zslDeleteRangeByScore, ByLex and ByRank: one descent, then node
\* after node as long as it is in S.
DeleteWhile(z, d, S) ==
  LET from == Follow(z, z.node[d[1].x].fwd[1], FALSE)
      n == Max({k \in 0 .. Len(from) : \A j \in 1 .. k : from[j] \in S})
  IN FoldLeft(LAMBDA y, e : DeleteNode(y, e, d), z, SubSeq(from, 1, n))

DeleteRange(z, r) ==
  DeleteWhile(z, Descend(z, Elements(z) \ NodeGte(z, r)), NodeLte(z, r))

DeleteRangeByRank(z, start, end) ==
  LET d == RankDescend(z, start - 1)
      from == Follow(z, z.node[d[1].x].fwd[1], FALSE)
  IN DeleteWhile(z, d, {from[k] : k \in 1 .. Min({Len(from), end - d[1].rank})})

----------------------------------------------------------------------------
(* The ziplist: a sequence of pairs <<element, score>>.                    *)

\* zzlInsert
ZzlInsert(zl, ele, score) ==
  LET at == {i \in DOMAIN zl : Before(score, ele, zl[i][2], zl[i][1])}
  IN IF at = {} THEN Append(zl, <<ele, score>>) ELSE InsertAt(zl, Min(at), <<ele, score>>)

ZzlFind(zl, ele) == {i \in DOMAIN zl : zl[i][1] = ele}
ZzlGte(zl, r) == {i \in DOMAIN zl : GteMin(r, zl[i][2], zl[i][1])}
ZzlLte(zl, r) == {i \in DOMAIN zl : LteMax(r, zl[i][2], zl[i][1])}

\* zzlIsInRange and zzlIsInLexRange
ZzlIsInRange(zl, r) ==
  ~EmptyRange(r) /\ zl # <<>> /\ Len(zl) \in ZzlGte(zl, r) /\ 1 \in ZzlLte(zl, r)

\* zzlFirstInRange and zzlFirstInLexRange; 0 when there is none.
ZzlFirstInRange(zl, r) ==
  IF ~ZzlIsInRange(zl, r) THEN 0
  ELSE LET i == Min(ZzlGte(zl, r)) IN IF i \in ZzlLte(zl, r) THEN i ELSE 0

\* zzlLastInRange and zzlLastInLexRange
ZzlLastInRange(zl, r) ==
  IF ~ZzlIsInRange(zl, r) THEN 0
  ELSE LET i == Max(ZzlLte(zl, r)) IN IF i \in ZzlGte(zl, r) THEN i ELSE 0

\* zzlDeleteRangeByScore and zzlDeleteRangeByLex
ZzlDeleteRange(zl, r) ==
  LET i == ZzlFirstInRange(zl, r)
      n == Max({k \in 0 .. Len(zl) - i + 1 : i .. i + k - 1 \subseteq ZzlLte(zl, r)})
  IN IF i = 0 THEN zl ELSE SubSeq(zl, 1, i - 1) \o SubSeq(zl, i + n, Len(zl))

----------------------------------------------------------------------------
(* The value.                                                              *)

NoKey == [enc |-> "none", zl |-> <<>>, zsl |-> EmptySkiplist, dict |-> NoScores]

\* zsetLength
Length(o) == IF o.enc = "ziplist" THEN Len(o.zl) ELSE o.zsl.length

\* A key whose value is empty is deleted.
Stored(o) == IF Length(o) = 0 THEN NoKey ELSE o

\* zsetConvert to a skip list; each node draws its level.
ToSkiplist(o, lvls) ==
  [enc |-> "skiplist", zl |-> <<>>,
   zsl |-> FoldLeft(LAMBDA z, p : Insert(z, p[2], p[1], lvls[p[1]]), EmptySkiplist, o.zl),
   dict |-> [e \in {o.zl[i][1] : i \in DOMAIN o.zl} |->
               o.zl[CHOOSE i \in DOMAIN o.zl : o.zl[i][1] = e][2]]]

\* zsetConvertToZiplistIfNeeded
ToZiplistIfNeeded(o) ==
  IF o.zsl.length > MaxEntries \/ DOMAIN o.dict \cap Long # {} THEN o
  ELSE [enc |-> "ziplist", zsl |-> EmptySkiplist, dict |-> NoScores,
        zl |-> LET s == Follow(o.zsl, o.zsl.node[Header].fwd[1], FALSE) IN
               [i \in DOMAIN s |-> <<s[i], o.zsl.node[s[i]].score>>]]

\* zaddGenericCommand: the value a missing key gets.
NewValue(ele) == [NoKey EXCEPT !.enc =
  IF MaxEntries = 0 \/ ele \in Long THEN "skiplist" ELSE "ziplist"]

\* zsetAdd on a ziplist
AddToZiplist(o, ele, score, flags, lvls) ==
  LET at == ZzlFind(o.zl, ele)
      cur == o.zl[CHOOSE i \in at : TRUE][2]
      new == IF "incr" \in flags THEN score + cur ELSE score
      grown == [o EXCEPT !.zl = ZzlInsert(@, ele, score)]
  IN IF at # {}
     THEN IF "nx" \in flags \/ new = cur THEN o
          ELSE [o EXCEPT !.zl = ZzlInsert(RemoveAt(@, Min(at)), ele, new)]
     ELSE IF "xx" \in flags THEN o
     ELSE IF Len(grown.zl) > MaxEntries \/ ele \in Long THEN ToSkiplist(grown, lvls)
     ELSE grown

\* zsetAdd on a skip list
AddToSkiplist(o, ele, score, flags, lvls) ==
  LET new == IF "incr" \in flags THEN score + o.dict[ele] ELSE score IN
  IF ele \in DOMAIN o.dict
  THEN IF "nx" \in flags \/ new = o.dict[ele] THEN o
       ELSE [o EXCEPT !.zsl = UpdateScore(@, o.dict[ele], ele, new, lvls[ele]),
                      !.dict = With(@, ele, new)]
  ELSE IF "xx" \in flags THEN o
  ELSE [o EXCEPT !.zsl = Insert(@, score, ele, lvls[ele]), !.dict = With(@, ele, score)]

\* zsetDel
Del(o, ele) ==
  IF o.enc = "ziplist"
  THEN [o EXCEPT !.zl = SelectSeq(@, LAMBDA p : p[1] # ele)]
  ELSE IF ele \notin DOMAIN o.dict THEN o
  ELSE [o EXCEPT !.zsl = Delete(@, o.dict[ele], ele), !.dict = Without(@, {ele})]

\* dictDelete of every node that was removed.
Trim(o, zsl) == [o EXCEPT !.zsl = zsl, !.dict = Without(@, Elements(o.zsl) \ Elements(zsl))]

----------------------------------------------------------------------------
Init == impl = NoKey /\ ref = NoScores /\ aux = 0

Levels == [Eles -> 1 .. MaxLevel]

\* ZADD and ZINCRBY of one element.
ZAdd(ele, score, flags, lvls) ==
  LET o == IF impl.enc = "none" THEN NewValue(ele) ELSE impl
      new == IF "incr" \in flags /\ ele \in DOMAIN ref THEN score + ref[ele] ELSE score
  IN /\ new \in Scores
     /\ impl' = IF impl.enc = "none" /\ "xx" \in flags THEN impl
                ELSE IF o.enc = "ziplist" THEN AddToZiplist(o, ele, score, flags, lvls)
                ELSE AddToSkiplist(o, ele, score, flags, lvls)
     /\ ref' = IF ele \in DOMAIN ref THEN IF "nx" \in flags THEN ref ELSE With(ref, ele, new)
               ELSE IF "xx" \in flags THEN ref ELSE With(ref, ele, new)
     /\ UNCHANGED aux

\* ZREM
ZRem(ele) ==
  /\ impl.enc # "none"
  /\ impl' = Stored(Del(impl, ele))
  /\ ref' = Without(ref, {ele})
  /\ UNCHANGED aux

\* ZPOPMIN and ZPOPMAX
ZPop(max) ==
  LET ele == IF impl.enc = "ziplist" THEN impl.zl[IF max THEN Len(impl.zl) ELSE 1][1]
             ELSE IF max THEN impl.zsl.tail ELSE impl.zsl.node[Header].fwd[1]
      order == InOrder(ref)
  IN /\ impl.enc # "none"
     /\ impl' = Stored(Del(impl, ele))
     /\ ref' = Without(ref, {order[IF max THEN Len(order) ELSE 1]})
     /\ UNCHANGED aux

RangeBy(by, lo, hi) ==
  [by : {by}, min : lo .. hi, max : lo .. hi, minex : BOOLEAN, maxex : BOOLEAN]
ScoreRanges == RangeBy("score", Min(Scores), Max(Scores))
LexRanges == RangeBy("lex", 0, Max(Eles) + 1)
In(r) == {e \in DOMAIN ref : ~EmptyRange(r) /\ GteMin(r, ref[e], e) /\ LteMax(r, ref[e], e)}

\* Ranges by element are meant for elements of equal score.
Meant(r) == r.by = "lex" => \A d, e \in DOMAIN ref : ref[d] = ref[e]

\* ZREMRANGEBYSCORE and ZREMRANGEBYLEX
ZRemRange(r) ==
  /\ impl.enc # "none" /\ Meant(r)
  /\ impl' = Stored(IF impl.enc = "ziplist"
                    THEN [impl EXCEPT !.zl = ZzlDeleteRange(@, r)]
                    ELSE Trim(impl, DeleteRange(impl.zsl, r)))
  /\ ref' = Without(ref, In(r))
  /\ UNCHANGED aux

\* The indexes of ZRANGE and ZREMRANGEBYRANK: negative ones count from the end.
Sanitize(start, end, len) ==
  [start |-> Max({0, IF start < 0 THEN len + start ELSE start}),
   end |-> Min({len - 1, IF end < 0 THEN len + end ELSE end})]

\* ZREMRANGEBYRANK
ZRemRangeByRank(start, end) ==
  LET i == Sanitize(start, end, Length(impl))
      order == InOrder(ref)
  IN /\ impl.enc # "none" /\ i.start <= i.end /\ i.start < Length(impl)
     /\ impl' = Stored(IF impl.enc = "ziplist"
                       THEN [impl EXCEPT !.zl = SubSeq(@, 1, i.start)
                                                \o SubSeq(@, i.end + 2, Len(@))]
                       ELSE Trim(impl, DeleteRangeByRank(impl.zsl, i.start + 1, i.end + 1)))
     /\ ref' = Without(ref, {order[k] : k \in i.start + 1 .. i.end + 1})
     /\ UNCHANGED aux

\* zuiNext: the elements and scores of an input, whatever its encoding
Walked(o) ==
  IF o.enc # "ziplist" THEN o.dict
  ELSE [e \in {o.zl[i][1] : i \in DOMAIN o.zl} |-> o.zl[Min(ZzlFind(o.zl, e))][2]]

\* The highest of the scores the element e has in the maps a and b
Highest(a, b, e) ==
  Max((IF e \in DOMAIN a THEN {a[e]} ELSE {}) \cup (IF e \in DOMAIN b THEN {b[e]} ELSE {}))

\* ZUNIONSTORE and ZINTERSTORE of the key and another one into the key itself,
\* aggregated with MAX: the result is built as a skip list.
ZStore(union, lvls) ==
  LET mine == Walked(impl)
      Of(m) == IF union THEN DOMAIN m \cup DOMAIN Other ELSE DOMAIN m \cap DOMAIN Other
      eles == Of(mine)
      scores == [e \in eles |-> Highest(mine, Other, e)]
      o == [enc |-> "skiplist", zl |-> <<>>, dict |-> scores,
            zsl |-> FoldLeft(LAMBDA z, e : Insert(z, scores[e], e, lvls[e]),
                             EmptySkiplist, SetToSeq(eles))]
  IN /\ impl' = IF eles = {} THEN NoKey ELSE ToZiplistIfNeeded(o)
     /\ ref' = [e \in Of(ref) |-> Highest(ref, Other, e)]
     /\ UNCHANGED aux

Next ==
  \/ \E ele \in Eles, score \in Scores, lvls \in Levels,
        flags \in {{}, {"nx"}, {"xx"}, {"incr"}} : ZAdd(ele, score, flags, lvls)
  \/ \E ele \in Eles : ZRem(ele)
  \/ \E max \in BOOLEAN : ZPop(max)
  \/ \E r \in ScoreRanges \cup LexRanges : ZRemRange(r)
  \/ \E start, end \in -2 .. 2 : ZRemRangeByRank(start, end)
  \/ \E union \in BOOLEAN, lvls \in Levels : ZStore(union, lvls)

Spec == Init /\ [][Next]_vars

----------------------------------------------------------------------------
(* What the reading commands answer.                                       *)

\* ZRANGE and ZREVRANGE
ZRange(o, start, end, reverse) ==
  LET i == Sanitize(start, end, Length(o))
      first == IF i.start = 0
               THEN IF reverse THEN o.zsl.tail ELSE o.zsl.node[Header].fwd[1]
               ELSE GetElementByRank(o.zsl, IF reverse THEN Length(o) - i.start ELSE i.start + 1)
      zl == IF reverse THEN Reverse(o.zl) ELSE o.zl
  IN IF i.start > i.end \/ i.start >= Length(o) THEN <<>>
     ELSE IF o.enc = "ziplist"
     THEN [k \in 1 .. i.end - i.start + 1 |-> zl[i.start + k][1]]
     ELSE SubSeq(Follow(o.zsl, first, reverse), 1, i.end - i.start + 1)

\* zsetRank
Rank(o, ele) ==
  IF o.enc = "ziplist" THEN Min(ZzlFind(o.zl, ele)) - 1
  ELSE GetRank(o.zsl, o.dict[ele], ele) - 1

\* ZCOUNT and ZLEXCOUNT
Count(o, r) ==
  LET first == FirstInRange(o.zsl, r)
      last == LastInRange(o.zsl, r)
      Rk(e) == GetRank(o.zsl, o.zsl.node[e].score, e)
      i == ZzlFirstInRange(o.zl, r)
  IN IF o.enc = "ziplist"
     THEN IF i = 0 THEN 0
          ELSE Max({k \in 0 .. Len(o.zl) - i + 1 : i .. i + k - 1 \subseteq ZzlLte(o.zl, r)})
     ELSE IF first = Null THEN 0
     ELSE (o.zsl.length - (Rk(first) - 1))
          - (IF last = Null THEN 0 ELSE o.zsl.length - Rk(last))

\* ZRANGEBYSCORE, ZRANGEBYLEX and their reverse: from the end of the range that
\* comes first, skipping offset elements, at most limit of them (-1: no limit).
RangeFrom(o, r, offset, limit, reverse) ==
  LET i == IF reverse THEN ZzlLastInRange(o.zl, r) ELSE ZzlFirstInRange(o.zl, r)
      x == IF reverse THEN LastInRange(o.zsl, r) ELSE FirstInRange(o.zsl, r)
      walk == IF o.enc = "skiplist" THEN Follow(o.zsl, x, reverse)
              ELSE IF i = 0 THEN <<>>
              ELSE LET zl == IF reverse THEN Reverse(SubSeq(o.zl, 1, i))
                             ELSE SubSeq(o.zl, i, Len(o.zl))
                   IN [k \in DOMAIN zl |-> zl[k][1]]
      rest == SubSeq(walk, offset + 1, Len(walk))
      OK(e) == IF reverse THEN GteMin(r, ref[e], e) ELSE LteMax(r, ref[e], e)
      n == Max({k \in 0 .. Len(rest) : \A j \in 1 .. k : OK(rest[j])})
  IN SubSeq(rest, 1, IF limit = -1 THEN n ELSE Min({n, limit}))

\* The skip list holds the elements in order on its lowest level, every higher
\* level is a part of it, every span is the distance it stands for, backward
\* pointers, tail and length agree, and the dictionary has the same scores
\* (zslInsert, zslDeleteNode and zslUpdateScore after any sequence of commands).
SkiplistSound ==
  impl.enc = "skiplist" =>
    LET z == impl.zsl
        order == InOrder(ref)
        Pos(n) == IF n = Header THEN 0 ELSE CHOOSE k \in DOMAIN order : order[k] = n
    IN /\ impl.dict = ref /\ z.length = Len(order) /\ Elements(z) = DOMAIN ref
       /\ \A e \in Elements(z) : z.node[e].score = ref[e]
       /\ Follow(z, z.node[Header].fwd[1], FALSE) = order
       /\ Follow(z, z.tail, TRUE) = Reverse(order)
       /\ \A n \in DOMAIN z.node : \A i \in 1 .. z.level :
            i <= Len(z.node[n].fwd) =>
              LET next == z.node[n].fwd[i] IN
              IF next = Null
              THEN /\ z.node[n].span[i] = Len(order) - Pos(n)
                   /\ \A e \in Elements(z) : Pos(e) > Pos(n) => Len(z.node[e].fwd) < i
              ELSE /\ z.node[n].span[i] = Pos(next) - Pos(n)
                   /\ \A e \in Elements(z) :
                        Pos(n) < Pos(e) /\ Pos(e) < Pos(next) => Len(z.node[e].fwd) < i

\* Ranges, counts and ranks are those of the elements in order, in both encodings
\* and both directions (zrangeGenericCommand, genericZrangebyscoreCommand,
\* genericZrangebylexCommand, zcountCommand, zlexcountCommand, zsetRank).
QueriesExact ==
  LET order == InOrder(ref) IN
  impl.enc # "none" =>
    /\ \A k \in DOMAIN order : Rank(impl, order[k]) = k - 1
    /\ \A reverse \in BOOLEAN :
         LET seq == IF reverse THEN Reverse(order) ELSE order IN
         /\ \A start, end \in -Len(order) - 1 .. Len(order) :
              LET i == Sanitize(start, end, Len(order)) IN
              ZRange(impl, start, end, reverse) = SubSeq(seq, i.start + 1, i.end + 1)
         /\ \A r \in ScoreRanges \cup LexRanges :
              Meant(r) =>
                LET want == SelectSeq(seq, LAMBDA e : e \in In(r)) IN
                /\ Count(impl, r) = Len(want)
                /\ \A offset \in {0, 1}, limit \in {-1, 1} :
                     RangeFrom(impl, r, offset, limit, reverse) =
                       SubSeq(want, offset + 1,
                              IF limit = -1 THEN Len(want) ELSE Min({offset + limit, Len(want)}))

\* The ziplist is in order and never holds more entries, or longer elements, than
\* the configuration allows.
ZiplistSound ==
  impl.enc = "ziplist" =>
    /\ [i \in DOMAIN impl.zl |-> impl.zl[i][1]] = InOrder(ref)
    /\ \A i \in DOMAIN impl.zl : impl.zl[i][2] = ref[impl.zl[i][1]]
    /\ Len(impl.zl) <= MaxEntries /\ DOMAIN ref \cap Long = {}
=============================================================================
