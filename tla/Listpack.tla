----------------------------- MODULE Listpack ------------------------------
(* The listpack of listpack.c: a block of entries, each followed by its    *)
(* own length, written so that it can be read backwards.  Strings are      *)
(* known by their length, integers by their value; an entry is the fields  *)
(* its bytes hold.                                                         *)
(*   impl = [entries, bytes, num], num the element count of the header     *)
(*   ref  = the sequence of values the block stands for                    *)
(*   aux  = the setup: which values are used and how many may be inserted  *)
EXTENDS Integers, Sequences, SequencesExt, FiniteSets

CONSTANTS Setups,      \* [values, max] records
          NumUnknown,  \* LP_HDR_NUMELE_UNKNOWN, 65535 in the code
          MaxBytes,    \* UINT32_MAX: no block grows beyond
          LongBits     \* the width of the widest integers, 64 in the code

VARIABLES impl, ref, aux

vars == <<impl, ref, aux>>

\* The integer hi * 2^24 + n, and a string of l bytes.
Wide(hi, n) == [int |-> TRUE, hi |-> hi, n |-> n]
Num(n) == Wide(n \div 2 ^ 24, n % 2 ^ 24)
Str(l) == [int |-> FALSE, hi |-> 0, n |-> l]

HdrSize == 6
NULL == 0

(***************************************************************************)
(* Encodings.                                                              *)
(***************************************************************************)
\* lpEncodeGetType and lpEncodeString: the tag, the bits stored after it (those
\* above the 24th in hi) and the number of bytes of the entry without its length
SignBits ==
    [t \in {"13", "16", "24", "32", "64"} |->
        CASE t = "13" -> 13 [] t = "16" -> 16 [] t = "24" -> 24 [] t = "32" -> 32 [] t = "64" -> LongBits]
Fits(e, w) ==
    IF w > 24 THEN e.hi \in -(2 ^ (w - 25)) .. 2 ^ (w - 25) - 1
    ELSE \/ e.hi = 0 /\ e.n < 2 ^ (w - 1)
         \/ e.hi = -1 /\ e.n >= 2 ^ 24 - 2 ^ (w - 1)
Signed(e, tag, len) ==
    LET w == SignBits[tag]
    IN  [tag |-> tag, len |-> len, hi |-> IF w > 24 THEN e.hi % 2 ^ (w - 24) ELSE 0,
         bits |-> IF w < 24 THEN e.n % 2 ^ w ELSE e.n]
Plain(e, tag, len) == [tag |-> tag, len |-> len, hi |-> 0, bits |-> e.n]
Encode(e) ==
    IF e.int
    THEN IF e.hi = 0 /\ e.n <= 127 THEN Plain(e, "7u", 1)
         ELSE IF Fits(e, 13) THEN Signed(e, "13", 2)
         ELSE IF Fits(e, 16) THEN Signed(e, "16", 3)
         ELSE IF Fits(e, 24) THEN Signed(e, "24", 4)
         ELSE IF Fits(e, 32) THEN Signed(e, "32", 5)
         ELSE Signed(e, "64", 9)
    ELSE IF e.n < 64 THEN Plain(e, "6s", 1 + e.n)
    ELSE IF e.n < 4096 THEN Plain(e, "12s", 2 + e.n)
    ELSE Plain(e, "32s", 5 + e.n)

\* lpGet: from negstart on the bits stand for a negative number
Get(x) ==
    LET w == SignBits[x.tag]   \* of a signed integer
    IN  IF x.tag \in {"6s", "12s", "32s"} THEN Str(x.bits)
        ELSE IF x.tag = "7u" THEN Num(x.bits)
        ELSE IF w <= 24
        THEN IF x.bits >= 2 ^ (w - 1) THEN Num(-((2 ^ w - 1) - x.bits) - 1) ELSE Num(x.bits)
        ELSE IF x.hi >= 2 ^ (w - 25) THEN Wide(-((2 ^ (w - 24) - 1) - x.hi) - 1, x.bits)
        ELSE Wide(x.hi, x.bits)

\* lpCurrentEncodedSize, from the first bytes of the entry
CurrentEncodedSize(x) ==
    CASE x.tag = "7u" -> 1
      [] x.tag = "6s" -> 1 + x.bits
      [] x.tag = "13" -> 2
      [] x.tag = "16" -> 3
      [] x.tag = "24" -> 4
      [] x.tag = "32" -> 5
      [] x.tag = "64" -> 9
      [] x.tag = "12s" -> 2 + x.bits
      [] x.tag = "32s" -> 5 + x.bits

\* lpEncodeBacklen: the length in groups of seven bits, every byte but the
\* first marked as having another one before it
BacklenWidth(l) ==
    IF l <= 127 THEN 1 ELSE IF l < 16383 THEN 2 ELSE IF l < 2097151 THEN 3
    ELSE IF l < 268435455 THEN 4 ELSE 5
EncodeBacklen(l) ==
    LET w == BacklenWidth(l)
    IN  [i \in 1 .. w |-> [more |-> i > 1, seven |-> (l \div 128 ^ (w - i)) % 128]]

\* lpDecodeBacklen, from the last byte backwards
RECURSIVE DecodeFrom(_, _, _)
DecodeFrom(b, i, shift) ==
    IF b[i].more THEN b[i].seven * 128 ^ shift + DecodeFrom(b, i - 1, shift + 1)
    ELSE b[i].seven * 128 ^ shift
DecodeBacklen(b) == DecodeFrom(b, Len(b), 0)

Entry(e) ==
    LET x == Encode(e)
    IN  [tag |-> x.tag, hi |-> x.hi, bits |-> x.bits, back |-> EncodeBacklen(x.len)]
EntrySize(x) == CurrentEncodedSize(x) + BacklenWidth(CurrentEncodedSize(x))

(***************************************************************************)
(* Positions: an entry is found by the number of bytes before it.          *)
(***************************************************************************)
SizeUpTo(lp, i) ==
    FoldLeft(LAMBDA n, x : n + CurrentEncodedSize(x) + Len(x.back),
             HdrSize, SubSeq(lp.entries, 1, i))
\* the entry that starts at offset p, NULL for the end mark
At(lp, p) ==
    IF \E i \in DOMAIN lp.entries : SizeUpTo(lp, i - 1) = p
    THEN CHOOSE i \in DOMAIN lp.entries : SizeUpTo(lp, i - 1) = p ELSE NULL

\* lpFirst, lpNext, lpPrev, lpLast on indices
First(lp) == IF lp.entries = <<>> THEN NULL ELSE 1
NextOf(lp, i) == At(lp, SizeUpTo(lp, i - 1) + EntrySize(lp.entries[i]))
\* the length read in front of offset p
Back(lp, p) ==
    LET i   == CHOOSE j \in DOMAIN lp.entries : SizeUpTo(lp, j) = p
        len == DecodeBacklen(lp.entries[i].back)
    IN  p - (len + BacklenWidth(len))
PrevOf(lp, p) == IF p = HdrSize THEN NULL ELSE At(lp, Back(lp, p))
LastOf(lp) == PrevOf(lp, lp.bytes - 1)

\* lpLength: <<length, the block with its header refreshed>>
Length(lp) ==
    LET n == Len(lp.entries)
    IN  IF lp.num # NumUnknown THEN <<lp.num, lp>>
        ELSE <<n, IF n < NumUnknown THEN [lp EXCEPT !.num = n] ELSE lp>>

\* lpSeek
RECURSIVE Forwards(_, _, _)
Forwards(lp, i, n) == IF n = 0 \/ i = NULL THEN i ELSE Forwards(lp, NextOf(lp, i), n - 1)
RECURSIVE Backwards(_, _, _)
Backwards(lp, i, n) ==
    IF n = 0 \/ i = NULL THEN i ELSE Backwards(lp, PrevOf(lp, SizeUpTo(lp, i - 1)), n - 1)

Seek(lp, index) ==
    LET known == lp.num # NumUnknown
        at    == IF known /\ index < 0 THEN lp.num + index ELSE index
        fwd   == IF known THEN at <= lp.num \div 2 ELSE index >= 0
        from  == IF known /\ ~fwd THEN at - lp.num ELSE at
    IN  IF known /\ (at < 0 \/ at >= lp.num) THEN NULL
        ELSE IF fwd THEN Forwards(lp, First(lp), from)
        ELSE Backwards(lp, LastOf(lp), -1 - from)

(***************************************************************************)
(* lpInsert: before entry i (one past the end for the end mark), or in     *)
(* place of it; lpDelete replaces by nothing.                              *)
(***************************************************************************)
Counted(lp, d) == IF lp.num = NumUnknown THEN lp.num ELSE lp.num + d
InsertBefore(lp, i, e) ==
    [entries |-> InsertAt(lp.entries, i, Entry(e)),
     bytes   |-> lp.bytes + EntrySize(Entry(e)),
     num     |-> Counted(lp, 1)]
Replace(lp, i, e) ==
    [entries |-> [lp.entries EXCEPT ![i] = Entry(e)],
     bytes   |-> lp.bytes + EntrySize(Entry(e)) - EntrySize(lp.entries[i]),
     num     |-> lp.num]
DeleteAt(lp, i) ==
    [entries |-> RemoveAt(lp.entries, i),
     bytes   |-> lp.bytes - EntrySize(lp.entries[i]),
     num     |-> Counted(lp, -1)]

New == [entries |-> <<>>, bytes |-> HdrSize + 1, num |-> 0]

Init ==
    /\ aux \in Setups
    /\ impl = New
    /\ ref = <<>>

\* lpInsert returns NULL, and the block stays, when it would grow too large
Grown(lp, new) ==
    IF lp.bytes > MaxBytes THEN UNCHANGED <<impl, ref>> ELSE impl' = lp /\ ref' = new

\* lpInsert with LP_BEFORE, LP_AFTER (before what follows) and lpAppend
Insert ==
    /\ Len(ref) < aux.max
    /\ \E e \in aux.values, i \in 1 .. Len(ref) + 1 :
        Grown(InsertBefore(impl, i, e), InsertAt(ref, i, e))
    /\ UNCHANGED aux

Overwrite ==
    \E e \in aux.values, i \in DOMAIN ref :
        /\ Grown(Replace(impl, i, e), [ref EXCEPT ![i] = e])
        /\ UNCHANGED aux

Delete ==
    \E i \in DOMAIN ref :
        /\ impl' = DeleteAt(impl, i)
        /\ ref' = RemoveAt(ref, i)
        /\ UNCHANGED aux

Count ==
    /\ impl' = Length(impl)[2]
    /\ UNCHANGED <<ref, aux>>

Next == Insert \/ Overwrite \/ Delete \/ Count
Spec == Init /\ [][Next]_vars

(***************************************************************************)
(* Properties.                                                             *)
(***************************************************************************)
\* Reading the block forwards and backwards gives the values written, signs
\* and widths included: lpGet inverts lpEncodeGetType, and the length written
\* after an entry leads lpPrev to the byte the entry starts at.
RECURSIVE ReadForward(_, _)
ReadForward(lp, i) ==
    IF i = NULL THEN <<>> ELSE <<Get(lp.entries[i])>> \o ReadForward(lp, NextOf(lp, i))
RECURSIVE ReadBackward(_, _)
ReadBackward(lp, i) ==
    IF i = NULL THEN <<>>
    ELSE ReadBackward(lp, PrevOf(lp, SizeUpTo(lp, i - 1))) \o <<Get(lp.entries[i])>>
BothWays ==
    /\ ReadForward(impl, First(impl)) = ref
    /\ ReadBackward(impl, LastOf(impl)) = ref
    /\ impl.bytes = SizeUpTo(impl, Len(ref)) + 1

\* lpSeek finds every index, from either end and past both, whether the header
\* still knows the number of elements or has overflowed, and lpLength is right.
SeekExact ==
    /\ Length(impl)[1] = Len(ref)
    /\ \A k \in -Len(ref) - 1 .. Len(ref) :
        Seek(impl, k) = IF k >= Len(ref) \/ k < -Len(ref) THEN NULL
                        ELSE IF k >= 0 THEN k + 1 ELSE Len(ref) + k + 1
=============================================================================
