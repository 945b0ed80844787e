-------------------------------- MODULE Dict --------------------------------
(***************************************************************************)
(* The hash table of dict.c: two tables while it is rehashed step by step, *)
(* safe iterators, which stop the rehashing, and the stateless cursor of   *)
(* SCAN, which must survive that the table grows and shrinks between two   *)
(* calls.  A key is its hash; the value lives in the entry of its key and  *)
(* is left out.  A table is the sequence of its buckets, a bucket the      *)
(* chain of its entries.                                                   *)
(***************************************************************************)
EXTENDS Integers, Sequences, FiniteSets, FiniteSetsExt, SequencesExt

CONSTANTS
  Keys,          \* the hashes of the keys, within 0 .. 2^Width - 1
  Width,         \* bits of a hash and of a cursor
  InitialSize,   \* DICT_HT_INITIAL_SIZE
  ForceRatio,    \* dict_force_resize_ratio
  EmptyVisits,   \* empty buckets a rehashing step may pass
  MinFill        \* HASHTABLE_MIN_FILL, percent

VARIABLES
  impl,   \* ht, rehashidx, iterators and dict_can_resize
  aux     \* a SCAN and a safe iterator in progress

vars == <<impl, aux>>

----------------------------------------------------------------------------
(* Tables.                                                                 *)

NoTable == <<>>
Size(t) == Len(t)
Chain(t, h) == t[(h % Size(t)) + 1]
KeysOf(t) == UNION {Range(t[i]) : i \in DOMAIN t}
Used(t) == FoldSeq(LAMBDA c, n : n + Len(c), 0, t)
IsRehashing(d) == d.rehashidx # -1
All(d) == KeysOf(d.ht[1]) \cup KeysOf(d.ht[2])

\* _dictNextPower
NextPower(n) ==
  Min({s \in {InitialSize * 2^i : i \in 0 .. Width} : s >= n})

\* dictExpand: the new table is the only one, or the target of a rehashing.
Expand(d, size) ==
  LET new == [i \in 1 .. NextPower(size) |-> <<>>] IN
  IF IsRehashing(d) \/ Used(d.ht[1]) > size \/ NextPower(size) = Size(d.ht[1]) THEN d
  ELSE IF d.ht[1] = NoTable THEN [d EXCEPT !.ht[1] = new]
  ELSE [d EXCEPT !.ht[2] = new, !.rehashidx = 0]

\* _dictExpandIfNeeded
ExpandIfNeeded(d) ==
  LET t == d.ht[1] IN
  IF IsRehashing(d) THEN d
  ELSE IF Size(t) = 0 THEN Expand(d, InitialSize)
  ELSE IF Used(t) >= Size(t) /\ (d.can_resize \/ Used(t) \div Size(t) > ForceRatio)
  THEN Expand(d, Used(t) * 2)
  ELSE d

\* The entries of chain c move to the heads of their buckets, one by one.
MoveChain(t, c) ==
  FoldLeft(LAMBDA u, k : [u EXCEPT ![(k % Size(t)) + 1] = <<k>> \o @], t, c)

\* Mutant: the entry that was moved last stays behind.
RehashBucketLosesOne(d, visits) ==
  LET full == {i \in DOMAIN d.ht[1] : i > d.rehashidx /\ d.ht[1][i] # <<>>}
      i == Min(full)
  IN [d EXCEPT !.ht[2] = MoveChain(@, Tail(d.ht[1][i])), !.ht[1][i] = <<>>, !.rehashidx = i]

\* One turn of the loop of dictRehash: the next bucket that is not empty moves,
\* unless there are too many empty ones in front of it.
RehashBucket(d, visits) ==
  LET full == {i \in DOMAIN d.ht[1] : i > d.rehashidx /\ d.ht[1][i] # <<>>}
      i == Min(full)
  IN IF i - 1 - d.rehashidx >= visits THEN [d EXCEPT !.rehashidx = @ + visits]
     ELSE [d EXCEPT !.ht[2] = MoveChain(@, d.ht[1][i]), !.ht[1][i] = <<>>, !.rehashidx = i]

\* The end of dictRehash: the second table takes the place of the first.
RehashDone(d) ==
  IF Used(d.ht[1]) # 0 THEN d
  ELSE [d EXCEPT !.ht = <<d.ht[2], NoTable>>, !.rehashidx = -1]

\* dictRehash(d, n): turn[i] is the table after i turns and the empty buckets that
\* may still be passed; with none left the loop is over.
Rehash(d, n) ==
  LET Left(was, is) ==
        was.visits - (is.rehashidx - was.d.rehashidx) + (IF Used(is.ht[1]) < Used(was.d.ht[1]) THEN 1 ELSE 0)
      Turned(was, is) == [d |-> is, visits |-> Left(was, is)]
      turn[i \in 0 .. n] ==
        IF i = 0 THEN [d |-> d, visits |-> EmptyVisits * n]
        ELSE IF turn[i - 1].visits = 0 \/ Used(turn[i - 1].d.ht[1]) = 0 THEN turn[i - 1]
        ELSE Turned(turn[i - 1], RehashBucket(turn[i - 1].d, turn[i - 1].visits))
  IN IF IsRehashing(d) THEN RehashDone(turn[n].d) ELSE d

\* _dictRehashStep
RehashStep(d) == IF d.iterators = 0 THEN Rehash(d, 1) ELSE d

----------------------------------------------------------------------------
(* Operations.                                                             *)

\* dictAddRaw and _dictKeyIndex; dictAdd, dictReplace and dictAddOrFind differ
\* in the value only.
AddRaw(d, k) ==
  LET e == ExpandIfNeeded(RehashStep(d))
      t == IF IsRehashing(e) THEN 2 ELSE 1
  IN IF \E i \in 1 .. t : k \in Range(Chain(e.ht[i], k)) THEN e
     ELSE [e EXCEPT !.ht[t][(k % Size(e.ht[t])) + 1] = <<k>> \o @]

\* dictGenericDelete: the key is looked for in the bucket of its hash.
GenericDelete(d, k) ==
  LET e == RehashStep(d)
      Drop(t) == IF t = NoTable THEN t
                 ELSE [t EXCEPT ![(k % Size(t)) + 1] = SelectSeq(@, LAMBDA x : x # k)]
  IN IF Used(d.ht[1]) = 0 /\ Used(d.ht[2]) = 0 THEN d
     ELSE [e EXCEPT !.ht = <<Drop(@[1]), Drop(@[2])>>]

\* What dictFind, and with it every lookup, answers.
Finds(d, k) ==
  \E i \in {1, 2} : d.ht[i] # NoTable /\ k \in Range(Chain(d.ht[i], k))

\* The buckets dictGetRandomKey draws from: those not yet rehashed and the new ones.
RandomKeys(d) ==
  KeysOf(SubSeq(d.ht[1], Max({d.rehashidx, 0}) + 1, Size(d.ht[1]))) \cup KeysOf(d.ht[2])

----------------------------------------------------------------------------
(* SCAN.                                                                   *)

\* rev: the bits in reverse order.
Rev(v) ==
  MapThenSumSet(LAMBDA i : ((v \div 2^i) % 2) * 2^(Width - 1 - i), 0 .. Width - 1)

\* Mutant: the cursor counts up in the usual order of the bits.
PlainCursor(v, size) == (v + 1) % size

\* v |= ~mask; v = rev(v); v++; v = rev(v): the next bucket of a table of that
\* size, counting on the reversed bits.
NextCursor(v, size) ==
  Rev((Rev((v % size) + 2^Width - size) + 1) % 2^Width)

\* dictScan with cursor v: what it returns and the next cursor.  While the table
\* is rehashed a bucket of the smaller one is followed by all its expansions in
\* the larger one.
Scan(d, v) ==
  LET small == IF Size(d.ht[1]) > Size(d.ht[2]) THEN d.ht[2] ELSE d.ht[1]
      large == IF Size(d.ht[1]) > Size(d.ht[2]) THEN d.ht[1] ELSE d.ht[2]
      cursor[n \in 0 .. Size(large)] ==
        IF n = 0 THEN v ELSE NextCursor(cursor[n - 1], Size(large))
      n == Min({i \in 1 .. Size(large) : (cursor[i] % Size(large)) \div Size(small) = 0})
  IN IF All(d) = {} THEN [keys |-> {}, cursor |-> 0]
     ELSE IF ~IsRehashing(d)
     THEN [keys |-> Range(Chain(d.ht[1], v)), cursor |-> NextCursor(v, Size(d.ht[1]))]
     ELSE [keys |-> Range(Chain(small, v))
                    \cup UNION {Range(Chain(large, cursor[i])) : i \in 0 .. n - 1},
           cursor |-> cursor[n]]

----------------------------------------------------------------------------
(* Safe iterators.                                                         *)

NoIter == [table |-> 1, index |-> 0, next |-> <<>>, cur |-> -1]

Iterating == aux.use = "iter" /\ aux.on

\* The buckets dictNext has still to visit, in order.
Ahead(d, it) ==
  IF it.table = 1
  THEN SubSeq(d.ht[1], it.index + 1, Size(d.ht[1])) \o d.ht[2]
  ELSE SubSeq(d.ht[2], it.index + 1, Size(d.ht[2]))

\* dictNext: the successor in the chain that was noted with the current entry, or
\* the first entry of the next bucket that has one.
DictNext(d, it) ==
  LET ahead == Ahead(d, it)
      full == {i \in DOMAIN ahead : ahead[i] # <<>>}
      i == Min(full)
      inFirst == it.table = 1 /\ it.index + i <= Size(d.ht[1])
      chain == IF it.next # <<>> THEN it.next ELSE ahead[i]
  IN IF it.next = <<>> /\ full = {} THEN [it EXCEPT !.cur = -1]
     ELSE [it EXCEPT !.cur = chain[1], !.next = Tail(chain),
             !.table = IF it.next # <<>> \/ inFirst THEN @ ELSE 2,
             !.index = IF it.next # <<>> THEN @
                       ELSE IF inFirst \/ it.table = 2 THEN @ + i
                       ELSE it.index + i - Size(d.ht[1])]

----------------------------------------------------------------------------
\* The keys a lookup finds.
Held == {k \in Keys : Finds(impl, k)}

Init ==
  /\ impl = [ht |-> <<NoTable, NoTable>>, rehashidx |-> -1, iterators |-> 0,
             can_resize |-> TRUE]
  /\ aux \in {[use |-> use, on |-> FALSE, cursor |-> 0, iter |-> NoIter,
               owed |-> {}, got |-> {}, missed |-> {}, twice |-> FALSE] :
               use \in {"scan", "iter"}}

Add(k) ==
  /\ impl' = AddRaw(impl, k)
  /\ UNCHANGED aux

\* While an iterator is active only the entry it returned last may be deleted.
Delete(k) ==
  /\ Iterating => k = aux.iter.cur
  /\ impl' = GenericDelete(impl, k)
  /\ aux' = [aux EXCEPT !.owed = @ \ {k}, !.got = @ \ {k}]

\* dictFind: a lookup moves the rehashing on.
Find ==
  /\ All(impl) # {} /\ IsRehashing(impl)
  /\ impl' = RehashStep(impl)
  /\ UNCHANGED aux

\* dictRehashMilliseconds, called by the cron between two commands.
RehashMilliseconds(n) ==
  /\ ~Iterating /\ IsRehashing(impl)
  /\ impl' = Rehash(impl, n)
  /\ UNCHANGED aux

\* tryResizeHashTables: htNeedsResize and dictResize.
Resize ==
  LET t == impl.ht[1] IN
  /\ ~Iterating /\ impl.can_resize /\ ~IsRehashing(impl)
  /\ Size(t) > InitialSize /\ Used(t) * 100 < MinFill * Size(t)
  /\ impl' = Expand(impl, Max({Used(t), InitialSize}))
  /\ UNCHANGED aux

\* dictEnableResize and dictDisableResize (updateDictResizePolicy).
ResizePolicy ==
  /\ impl' = [impl EXCEPT !.can_resize = ~@]
  /\ UNCHANGED aux

\* dictEmpty
Empty ==
  /\ ~Iterating
  /\ impl' = [impl EXCEPT !.ht = <<NoTable, NoTable>>, !.rehashidx = -1, !.iterators = 0]
  /\ aux' = [aux EXCEPT !.owed = {}]

\* One call of SCAN; the cursor 0 starts one and ends one.
ScanCall ==
  LET r == Scan(impl, aux.cursor)
      owed == (IF aux.on THEN aux.owed ELSE Held) \ r.keys
  IN /\ aux.use = "scan"
     /\ aux' = [aux EXCEPT !.on = r.cursor # 0, !.cursor = r.cursor,
                           !.owed = IF r.cursor = 0 THEN {} ELSE owed,
                           !.missed = IF r.cursor = 0 THEN owed ELSE {}]
     /\ UNCHANGED impl

\* dictNext: the history keeps which keys that stay were returned.
Returned(it, owed, got) ==
  aux' = [aux EXCEPT !.iter = it, !.on = TRUE, !.owed = owed \ {it.cur},
                     !.got = got \cup ({it.cur} \cap owed),
                     !.twice = @ \/ it.cur \in got,
                     !.missed = IF it.cur = -1 THEN owed ELSE {}]

\* dictGetSafeIterator and the first dictNext.
IterStart ==
  /\ aux.use = "iter" /\ ~aux.on /\ All(impl) # {}
  /\ impl' = [impl EXCEPT !.iterators = @ + 1]
  /\ Returned(DictNext(impl, NoIter), Held, {})

IterNext ==
  /\ aux.use = "iter" /\ aux.on /\ aux.iter.cur # -1
  /\ Returned(DictNext(impl, aux.iter), aux.owed, aux.got)
  /\ UNCHANGED impl

\* dictReleaseIterator
IterEnd ==
  /\ aux.use = "iter" /\ aux.on /\ aux.iter.cur = -1
  /\ impl' = [impl EXCEPT !.iterators = @ - 1]
  /\ aux' = [aux EXCEPT !.on = FALSE, !.iter = NoIter, !.owed = {}, !.got = {}, !.missed = {}]

Next ==
  \/ \E k \in Keys : Add(k) \/ Delete(k)
  \/ Find \/ Resize \/ ResizePolicy \/ Empty
  \/ \E n \in {1, 2} : RehashMilliseconds(n)
  \/ ScanCall
  \/ IterStart \/ IterNext \/ IterEnd

Spec == Init /\ [][Next]_vars

----------------------------------------------------------------------------
\* Whatever stage the rehashing is in, every entry of the two tables is found
\* by a lookup and counted once, and the buckets the rehashing has passed are
\* empty, so that dictGetRandomKey, which does not look there, can return
\* every key.
Coherent ==
  /\ Used(impl.ht[1]) + Used(impl.ht[2]) = Cardinality(Held)
  /\ IsRehashing(impl) => impl.rehashidx < Size(impl.ht[1]) \/ Used(impl.ht[1]) = 0
  /\ RandomKeys(impl) = Held

\* A complete SCAN has returned every key that was there from its first call to
\* its last, however often the table grew, shrank or moved on in between.
ScanComplete == aux.use = "scan" => aux.missed = {}

\* Of the keys that are there all the time a safe iteration returns none twice,
\* and at its end it has returned all: no rehashing step moves entries under it.
IterationExact == aux.use = "iter" => aux.missed = {} /\ ~aux.twice
=============================================================================
