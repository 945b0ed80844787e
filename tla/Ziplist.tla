------------------------------- MODULE Ziplist -------------------------------
(***************************************************************************)
(* The ziplist of ziplist.c: entries in one block of memory, each of which *)
(* stores the length of the one before it in 1 or 5 bytes, so that one     *)
(* insertion or deletion may have to widen a whole run of entries.  The    *)
(* model keeps every length and offset and the integers as they are        *)
(* stored; of a string it keeps the length.                                *)
(***************************************************************************)
EXTENDS Integers, Sequences, FiniteSets, FiniteSetsExt, SequencesExt

CONSTANTS
  Setups,   \* [values, max, merge]: what is stored, at most how many entries,
            \* and the ziplists it is merged with
  LenMax    \* UINT16_MAX: the header counts up to this number of entries

VARIABLES
  impl,  \* the ziplist: entries, and zlbytes, zltail and zllen of the header
  ref,   \* the values it should hold
  aux    \* the setup

vars == <<impl, ref, aux>>

HeaderSize == 10
EndSize == 1
BigPrevLen == 254

Str(n) == [int |-> FALSE, n |-> n]
Num(n) == [int |-> TRUE, n |-> n]

----------------------------------------------------------------------------
(* Encoding of one entry.                                                  *)

\* zipTryEncoding: the bits the integer takes, 0 when it is part of the encoding
\* byte itself.  (64 bits are beyond the integers of the model checker.)
TryEncoding(v) ==
  IF v \in 0 .. 12 THEN 0
  ELSE IF v \in -128 .. 127 THEN 8
  ELSE IF v \in -(2^15) .. 2^15 - 1 THEN 16
  ELSE IF v \in -(2^23) .. 2^23 - 1 THEN 24 ELSE 32

\* zipSaveInteger and zipLoadInteger; of 32 bits the value itself.
SaveInteger(v, bits) == IF bits \in {0, 32} THEN v ELSE (v + 2^24) % 2^bits
LoadInteger(s, bits) ==
  IF bits \in {0, 32} THEN s ELSE IF s < 2^(bits - 1) THEN s ELSE s - 2^bits

\* zipStoreEntryEncoding and zipIntSize: the bytes of an entry after prevlen.
Encode(val) ==
  IF val.int
  THEN LET b == TryEncoding(val.n) IN
       [enc |-> b, data |-> SaveInteger(val.n, b), body |-> 1 + (b \div 8)]
  ELSE [enc |-> -1, data |-> val.n,
        body |-> val.n + IF val.n <= 63 THEN 1 ELSE IF val.n <= 16383 THEN 2 ELSE 5]

\* ziplistGet
Decode(e) == IF e.enc = -1 THEN Str(e.data) ELSE Num(LoadInteger(e.data, e.enc))

\* zipStorePrevEntryLength with a NULL pointer
PrevLenSize(len) == IF len < BigPrevLen THEN 1 ELSE 5

Entry(val, psz, plen) ==
  LET e == Encode(val) IN
  [psz |-> psz, plen |-> plen, enc |-> e.enc, data |-> e.data, body |-> e.body]
Raw(e) == e.psz + e.body

----------------------------------------------------------------------------
(* The list.                                                               *)

New == [es |-> <<>>, bytes |-> HeaderSize + EndSize, tail |-> HeaderSize, len |-> 0]

SumRaw(es) == FoldLeft(LAMBDA n, e : n + Raw(e), 0, es)
Offset(zl, i) == HeaderSize + SumRaw(SubSeq(zl.es, 1, i - 1))

\* ZIPLIST_ENTRY_TAIL: the entry the tail offset points to.
TailEntry(zl) == zl.es[CHOOSE i \in DOMAIN zl.es : Offset(zl, i) = zl.tail]

\* ZIPLIST_INCR_LENGTH
IncrLength(n, by) == IF n < LenMax THEN n + by ELSE n

\* Mutant: the cascade stops at the first entry it widens.
CascadeOnce(zl, i) ==
  LET raw == Raw(zl.es[i])
      next == zl.es[i + 1]
  IN IF i \notin DOMAIN zl.es \/ i + 1 \notin DOMAIN zl.es \/ next.plen = raw THEN zl
     ELSE IF next.psz < PrevLenSize(raw)
     THEN [zl EXCEPT !.es[i + 1].psz = 5, !.es[i + 1].plen = raw, !.bytes = @ + 4,
                     !.tail = IF @ # Offset(zl, i + 1) THEN @ + 4 ELSE @]
     ELSE [zl EXCEPT !.es[i + 1].plen = raw]

\* __ziplistCascadeUpdate from entry i on: prevlen fields are widened as long as
\* that changes the length of the entry; they are never narrowed.
RECURSIVE CascadeUpdate(_, _)
CascadeUpdate(zl, i) ==
  LET raw == Raw(zl.es[i])
      next == zl.es[i + 1]
  IN IF i \notin DOMAIN zl.es \/ i + 1 \notin DOMAIN zl.es \/ next.plen = raw THEN zl
     ELSE IF next.psz < PrevLenSize(raw)
     THEN CascadeUpdate([zl EXCEPT !.es[i + 1].psz = 5, !.es[i + 1].plen = raw,
                                   !.bytes = @ + 4,
                                   !.tail = IF @ # Offset(zl, i + 1) THEN @ + 4 ELSE @], i + 1)
     ELSE [zl EXCEPT !.es[i + 1].plen = raw]

\* __ziplistDelete of num entries from entry i on.
Delete(zl, i, num) ==
  LET n == Len(zl.es)
      first == zl.es[i]
      deleted == Min({num, n - i + 1})
      total == SumRaw(SubSeq(zl.es, i, i + deleted - 1))
      next == zl.es[i + deleted]
      diff == PrevLenSize(first.plen) - next.psz
      shifted == [next EXCEPT !.psz = @ + diff, !.plen = first.plen]
      joined == [es |-> SubSeq(zl.es, 1, i - 1) \o <<shifted>>
                        \o SubSeq(zl.es, i + deleted + 1, n),
                 bytes |-> zl.bytes - total + diff,
                 tail |-> zl.tail - total + IF i + deleted < n THEN diff ELSE 0,
                 len |-> IncrLength(zl.len, -deleted)]
  IN IF i + deleted > n
     THEN [es |-> SubSeq(zl.es, 1, i - 1), bytes |-> zl.bytes - total,
           tail |-> Offset(zl, i) - first.plen, len |-> IncrLength(zl.len, -deleted)]
     ELSE IF diff # 0 THEN CascadeUpdate(joined, i) ELSE joined

\* __ziplistInsert in front of entry i, or at the end.
Insert(zl, i, val) ==
  LET atEnd == i > Len(zl.es)
      prev == IF ~atEnd THEN zl.es[i].plen ELSE IF zl.es = <<>> THEN 0 ELSE Raw(TailEntry(zl))
      next == zl.es[i]
      Want(raw) == IF atEnd THEN 0 ELSE PrevLenSize(raw) - next.psz
      Diff(raw, want) == IF want = -4 /\ raw < 4 THEN 0 ELSE want     \* forcelarge
      Moved(raw, diff) == [next EXCEPT !.psz = @ + diff, !.plen = raw]
      Placed(new, raw, diff) ==
        [es |-> SubSeq(zl.es, 1, i - 1) \o (IF atEnd THEN <<new>> ELSE <<new, Moved(raw, diff)>>)
                \o SubSeq(zl.es, i + 1, Len(zl.es)),
         bytes |-> zl.bytes + raw + diff,
         tail |-> IF atEnd THEN Offset(zl, i)
                  ELSE zl.tail + raw + IF i < Len(zl.es) THEN diff ELSE 0,
         len |-> IncrLength(zl.len, 1)]
      Cascaded(z, diff) == IF diff # 0 THEN CascadeUpdate(z, i + 1) ELSE z
      With(new, raw, diff) == Cascaded(Placed(new, raw, diff), diff)
      Of(new, raw) == With(new, raw, Diff(raw, Want(raw)))
      At(p) == LET new == Entry(val, PrevLenSize(p), p) IN Of(new, Raw(new))
  IN At(prev)

FromValues(vals) == FoldLeft(LAMBDA z, v : Insert(z, Len(z.es) + 1, v), New, vals)

\* ziplistMerge of two lists that are not empty.
Merge(a, b) ==
  CascadeUpdate([es |-> a.es \o b.es, bytes |-> a.bytes + b.bytes - HeaderSize - EndSize,
                 tail |-> (a.bytes - EndSize) + (b.tail - HeaderSize),
                 len |-> Min({a.len + b.len, LenMax})], Len(a.es))

\* ziplistLen: at the maximum the entries are counted, and the header corrected
\* when they have become fewer.
Length(zl) == IF zl.len < LenMax THEN zl.len ELSE Len(zl.es)
Counted(zl) == IF Length(zl) < LenMax THEN [zl EXCEPT !.len = Length(zl)] ELSE zl

\* ziplistIndex with a negative index, and ziplistPrev: from the tail backwards by
\* the prevlen fields; where the k-th step arrives.
BackTo(zl, k) ==
  LET b[j \in 0 .. k] ==
        IF j = 0 THEN zl.tail
        ELSE b[j - 1] - zl.es[CHOOSE i \in DOMAIN zl.es : Offset(zl, i) = b[j - 1]].plen
  IN b[k]

----------------------------------------------------------------------------
Init == impl = New /\ ref = <<>> /\ aux \in Setups

\* ziplistPush, ziplistInsert
InsertOp(i, v) ==
  /\ Len(ref) < aux.max /\ i \in 1 .. Len(ref) + 1
  /\ impl' = Insert(impl, i, v)
  /\ ref' = InsertAt(ref, i, v)
  /\ UNCHANGED aux

\* ziplistDelete and ziplistDeleteRange
DeleteOp(i, num) ==
  /\ i \in DOMAIN ref
  /\ impl' = Delete(impl, i, num)
  /\ ref' = SubSeq(ref, 1, i - 1) \o SubSeq(ref, i + num, Len(ref))
  /\ UNCHANGED aux

MergeOp(vals, first) ==
  /\ ref # <<>> /\ Len(ref) + Len(vals) <= aux.max
  /\ impl' = IF first THEN Merge(impl, FromValues(vals)) ELSE Merge(FromValues(vals), impl)
  /\ ref' = IF first THEN ref \o vals ELSE vals \o ref
  /\ UNCHANGED aux

LenOp == impl' = Counted(impl) /\ UNCHANGED <<ref, aux>>

Next ==
  \/ \E i \in 1 .. aux.max, v \in aux.values : InsertOp(i, v)
  \/ \E i \in 1 .. aux.max, num \in 1 .. 3 : DeleteOp(i, num)
  \/ \E vals \in aux.merge, first \in BOOLEAN : MergeOp(vals, first)
  \/ LenOp

Spec == Init /\ [][Next]_vars

----------------------------------------------------------------------------
\* Every entry decodes to the value stored, and the number of entries is right in
\* spite of the 16-bit counter (zipTryEncoding, zipSaveInteger, ziplistGet, ziplistLen).
ValuesKept ==
  /\ Len(impl.es) = Len(ref) /\ Length(impl) = Len(ref)
  /\ \A i \in DOMAIN ref : Decode(impl.es[i]) = ref[i]

\* The size in the header is the size of the entries, the tail offset is that of
\* the last one, and each entry's field holds the length of the one before it, so
\* that both directions meet the same entries (__ziplistInsert, __ziplistDelete,
\* ziplistMerge and the cascade).
BlockSound ==
  /\ impl.bytes = HeaderSize + SumRaw(impl.es) + EndSize
  /\ impl.tail = IF ref = <<>> THEN HeaderSize ELSE Offset(impl, Len(ref))
  /\ \A i \in DOMAIN ref :
       /\ impl.es[i].plen = IF i = 1 THEN 0 ELSE Raw(impl.es[i - 1])
       /\ impl.es[i].psz \in {PrevLenSize(impl.es[i].plen), 5}
  /\ \A i \in DOMAIN ref : BackTo(impl, Len(ref) - i) = Offset(impl, i)
=============================================================================
