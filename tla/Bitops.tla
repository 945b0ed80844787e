------------------------------- MODULE Bitops -------------------------------
(* Strings as bit arrays (bitops.c): SETBIT, BITOP, BITCOUNT, BITPOS and      *)
(* BITFIELD with its overflow types.  A string is a sequence of bytes of BYTE *)
(* bits, the most significant bit first.  Integers have WORD bits (64 in the  *)
(* code); signed arithmetic that overflows wraps, and a shift by WORD shifts  *)
(* by zero, as the build does.  The loops that take several bytes at a time   *)
(* take CHUNK of them, from an address that is a multiple of CHUNK.           *)
EXTENDS Integers, Sequences, FiniteSets, SequencesExt, TLC

CONSTANTS Setups,   \* keys, commands and bounds of a behaviour
          BYTE,     \* bits of a byte
          WORD,     \* bits of an integer
          CHUNK     \* bytes handled at once

VARIABLES impl,     \* [db, reply]: the strings, and the last reply of BITFIELD
          ref,      \* [bits, reply]: the strings as bits, and the reply due
          aux       \* setup and bound

vars == <<impl, ref, aux>>

----------------------------------------------------------------------------
(* Integers of WORD bits.                                                     *)

Unsigned(x) == x % 2 ^ WORD
Signed(x) == ((x + 2 ^ (WORD - 1)) % 2 ^ WORD) - 2 ^ (WORD - 1)

\* Every bit from bit n on: (uint64_t)-1 << n, where a shift by WORD is none.
MaskFrom(n) == IF n = WORD THEN 2 ^ WORD - 1 ELSE 2 ^ WORD - 2 ^ n

\* x with the bits of MaskFrom(n) set, and with them cleared.
OrMask(x, n) == IF n = WORD THEN 2 ^ WORD - 1 ELSE MaskFrom(n) + (x % 2 ^ n)
AndNotMask(x, n) == IF n = WORD THEN 0 ELSE x % 2 ^ n

----------------------------------------------------------------------------
(* Fields of bits.                                                            *)

ByteBit(b, bit) == (b \div 2 ^ bit) % 2

PutBit(b, bit, v) == b + (v - ByteBit(b, bit)) * 2 ^ bit

RECURSIVE setUnsignedBitfield(_, _, _, _)
setUnsignedBitfield(p, offset, bits, value) ==
  IF bits = 0 THEN p
  ELSE LET byte == offset \div BYTE
           bit == BYTE - 1 - (offset % BYTE)
           bitval == (value \div 2 ^ (bits - 1)) % 2 IN
       setUnsignedBitfield([p EXCEPT ![byte + 1] = PutBit(@, bit, bitval)], offset + 1, bits - 1, value)

RECURSIVE getUnsignedBitfield(_, _, _)
getUnsignedBitfield(p, offset, bits) ==
  IF bits = 0 THEN 0
  ELSE LET last == offset + bits - 1 IN
       2 * getUnsignedBitfield(p, offset, bits - 1)
         + ByteBit(p[last \div BYTE + 1], BYTE - 1 - (last % BYTE))

getSignedBitfield(p, offset, bits) ==
  LET u == getUnsignedBitfield(p, offset, bits) IN
  IF ByteBit(u, bits - 1) = 1 THEN Signed(OrMask(u, bits)) ELSE Signed(u)

None == [ov |-> 0, limit |-> 0]

\* The result of an overflow: where to stop, or the wrapped sum.  Type FAIL
\* gives no limit.
Overflows(side, owtype, limit, wrapped) ==
  CASE owtype = "WRAP" -> [ov |-> 1, limit |-> wrapped]
    [] owtype = "SAT" -> [ov |-> side, limit |-> limit]
    [] owtype = "FAIL" -> [ov |-> side, limit |-> 0]

checkUnsignedBitfieldOverflow(value, incr, bits, owtype) ==
  LET max == 2 ^ bits - 1
      maxincr == Signed(max - value)
      minincr == Signed(-value)
      wrapped == AndNotMask(Unsigned(value + incr), bits) IN
  IF value > max \/ (incr > 0 /\ incr > maxincr) THEN Overflows(1, owtype, max, wrapped)
  ELSE IF incr < 0 /\ incr < minincr THEN Overflows(-1, owtype, 0, wrapped)
  ELSE None

checkSignedBitfieldOverflow(value, incr, bits, owtype) ==
  LET max == 2 ^ (bits - 1) - 1
      min == -max - 1
      maxincr == Signed(max - value)
      minincr == Signed(min - value)
      c == Unsigned(value + incr)
      wrapped == Signed(IF ByteBit(c, bits - 1) = 1 THEN OrMask(c, bits) ELSE AndNotMask(c, bits)) IN
  IF \/ value > max
     \/ bits # WORD /\ incr > maxincr
     \/ value >= 0 /\ incr > 0 /\ incr > maxincr
  THEN Overflows(1, owtype, max, wrapped)
  ELSE IF \/ value < min
          \/ bits # WORD /\ incr < minincr
          \/ value < 0 /\ incr < 0 /\ incr < minincr
  THEN Overflows(-1, owtype, min, wrapped)
  ELSE None

----------------------------------------------------------------------------
(* Counting and searching.                                                    *)

\* bitsinbyte, or the sum in parallel of the words of a chunk.
Ones(bytes) ==
  Cardinality({<<i, b>> \in (DOMAIN bytes) \X (0..(BYTE - 1)) : ByteBit(bytes[i], b) = 1})

\* Bytes up to an address that is a multiple of CHUNK.
ToAlign(align, count) ==
  LET n == (CHUNK - (align % CHUNK)) % CHUNK IN IF n < count THEN n ELSE count

RECURSIVE CountChunks(_)
CountChunks(s) ==
  IF Len(s) >= CHUNK THEN Ones(SubSeq(s, 1, CHUNK)) + CountChunks(SubSeq(s, CHUNK + 1, Len(s)))
  ELSE Ones(s)

redisPopcount(s, align) ==
  LET n == ToAlign(align, Len(s)) IN
  Ones(SubSeq(s, 1, n)) + CountChunks(SubSeq(s, n + 1, Len(s)))

Filled(bytes, bit) == \A i \in DOMAIN bytes : bytes[i] = IF bit = 1 THEN 0 ELSE 2 ^ BYTE - 1

RECURSIVE SkipBytes(_, _, _, _)
SkipBytes(s, pos, n, bit) ==
  IF n > 0 /\ Filled(SubSeq(s, pos + 1, pos + 1), bit) THEN SkipBytes(s, pos + 1, n - 1, bit)
  ELSE <<pos, n > 0>>

RECURSIVE SkipChunks(_, _, _)
SkipChunks(s, pos, bit) ==
  IF Len(s) - pos >= CHUNK /\ Filled(SubSeq(s, pos + 1, pos + CHUNK), bit)
  THEN SkipChunks(s, pos + CHUNK, bit) ELSE pos

\* The last word is read with zeros behind the end of the string.
redisBitpos(s, align, bit) ==
  LET lead == SkipBytes(s, 0, ToAlign(align, Len(s)), bit)
      pos == IF lead[2] THEN lead[1] ELSE SkipChunks(s, lead[1], bit)
      word == [i \in 1..CHUNK |-> IF pos + i <= Len(s) THEN s[pos + i] ELSE 0]
      hits == {j \in 0..(CHUNK * BYTE - 1) :
                 ByteBit(word[j \div BYTE + 1], BYTE - 1 - (j % BYTE)) = bit} IN
  IF bit = 1 /\ hits = {} THEN -1
  ELSE pos * BYTE + CHOOSE j \in hits : \A k \in hits : j <= k

\* The bytes a range of BITCOUNT and BITPOS selects.
Clip(n, strlen) == IF n < 0 THEN (IF strlen + n < 0 THEN 0 ELSE strlen + n) ELSE n
ClipEnd(n, strlen) == IF Clip(n, strlen) >= strlen THEN strlen - 1 ELSE Clip(n, strlen)

bitcountCommand(s, start, end, base) ==
  LET first == Clip(start, Len(s))
      last == ClipEnd(end, Len(s)) IN
  IF (start < 0 /\ end < 0 /\ start > end) \/ first > last THEN 0
  ELSE redisPopcount(SubSeq(s, first + 1, last + 1), base + first)

bitposCommand(s, bit, start, end, endgiven, base) ==
  LET first == Clip(start, Len(s))
      last == IF endgiven THEN ClipEnd(end, Len(s)) ELSE Len(s) - 1
      pos == redisBitpos(SubSeq(s, first + 1, last + 1), base + first, bit) IN
  IF first > last THEN -1
  ELSE IF endgiven /\ bit = 0 /\ pos = (last - first + 1) * BYTE THEN -1
  ELSE IF pos = -1 THEN -1 ELSE pos + first * BYTE

----------------------------------------------------------------------------
(* The commands that write.  A missing key is an empty string here: none of   *)
(* them leaves an empty string behind.                                        *)

Zeros(n) == [i \in 1..n |-> 0] \o <<>>

\* lookupStringForBitCommand: the string, grown with zeros up to a bit.
Grown(s, maxbit) ==
  LET len == maxbit \div BYTE + 1 IN
  IF Len(s) < len THEN s \o Zeros(len - Len(s)) ELSE s

Bit1(x) == IF x THEN 1 ELSE 0

\* ref: the bits of a string in order.
BitsOf(s) ==
  [j \in 1..(Len(s) * BYTE) |-> ByteBit(s[(j - 1) \div BYTE + 1], BYTE - 1 - ((j - 1) % BYTE))]

GrownBits(bs, maxbit) ==
  LET len == (maxbit \div BYTE + 1) * BYTE IN
  IF Len(bs) < len THEN bs \o Zeros(len - Len(bs)) ELSE bs

setbitCommand(k, offset, on) ==
  /\ impl' = [impl EXCEPT !.db[k] = setUnsignedBitfield(Grown(@, offset), offset, 1, on),
                          !.reply = <<>>]
  /\ ref' = [bits |-> [ref.bits EXCEPT ![k] = [GrownBits(@, offset) EXCEPT ![offset + 1] = on]],
             reply |-> <<>>]

BitOf(op, vs) ==
  CASE op = "and" -> Bit1(\A i \in DOMAIN vs : vs[i] = 1)
    [] op = "or" -> Bit1(\E i \in DOMAIN vs : vs[i] = 1)
    [] op = "xor" -> Bit1(Cardinality({i \in DOMAIN vs : vs[i] = 1}) % 2 = 1)
    [] op = "not" -> 1 - vs[1]

\* The operation on bytes, bit by bit.
RECURSIVE ByteOp(_, _, _)
ByteOp(op, bytes, bit) ==
  IF bit = BYTE THEN 0
  ELSE BitOf(op, [i \in DOMAIN bytes |-> ByteBit(bytes[i], bit)]) * 2 ^ bit + ByteOp(op, bytes, bit + 1)

MinLen(strs) ==
  LET ls == {Len(strs[i]) : i \in DOMAIN strs} IN CHOOSE m \in ls : \A l \in ls : m <= l
MaxLen(strs) ==
  LET ls == {Len(strs[i]) : i \in DOMAIN strs} IN CHOOSE m \in ls : \A l \in ls : l <= m

\* The bytes of the fast path: whole chunks of the shortest string.
FastLen(strs) == (MinLen(strs) \div CHUNK) * CHUNK

\* After the fast path a string that has ended reads as zeros.
TailByte(s, j) == IF j <= Len(s) THEN s[j] ELSE 0

bitopResult(op, strs) ==
  LET fast == FastLen(strs) IN
  [j \in 1..MaxLen(strs) |->
     ByteOp(op, [i \in DOMAIN strs |-> IF j <= fast THEN strs[i][j] ELSE TailByte(strs[i], j)], 0)]
    \o <<>>

bitopCommand(op, dest, srcs) ==
  LET strs == [i \in DOMAIN srcs |-> impl.db[srcs[i]]]
      bits == [i \in DOMAIN srcs |-> ref.bits[srcs[i]]] IN
  /\ impl' = [impl EXCEPT !.db[dest] = bitopResult(op, strs), !.reply = <<>>]
  /\ ref' = [bits |-> [ref.bits EXCEPT ![dest] =
               [j \in 1..MaxLen(bits) |->
                  BitOf(op, [i \in DOMAIN bits |-> IF j <= Len(bits[i]) THEN bits[i][j] ELSE 0])] \o <<>>],
             reply |-> <<>>]

----------------------------------------------------------------------------
(* BITFIELD: a list of operations on one key, with one string lookup.         *)

\* The nine bytes (a word and one) from the first byte of a field, zeros behind
\* the end.
Window(s, byte) ==
  [i \in 1..(WORD \div BYTE + 1) |-> IF byte + i <= Len(s) THEN s[byte + i] ELSE 0]

FieldGet(s, op) ==
  LET byte == op.offset \div BYTE
      buf == Window(s, byte) IN
  IF op.sign THEN getSignedBitfield(buf, op.offset - byte * BYTE, op.bits)
  ELSE getUnsignedBitfield(buf, op.offset - byte * BYTE, op.bits)

\* The old value, the new one and whether it overflows.
FieldNew(s, op) ==
  LET old == IF op.sign THEN getSignedBitfield(s, op.offset, op.bits)
             ELSE getUnsignedBitfield(s, op.offset, op.bits)
      value == IF op.opcode = "INCRBY" THEN old
               ELSE IF op.sign THEN op.i64 ELSE Unsigned(op.i64)
      incr == IF op.opcode = "INCRBY" THEN op.i64 ELSE 0
      o == IF op.sign THEN checkSignedBitfieldOverflow(value, incr, op.bits, op.owtype)
           ELSE checkUnsignedBitfieldOverflow(value, incr, op.bits, op.owtype)
      new == IF o.ov # 0 THEN o.limit ELSE value + incr IN
  [fail |-> o.ov # 0 /\ op.owtype = "FAIL", new |-> new,
   reply |-> IF op.opcode = "INCRBY" THEN new ELSE old]

Nil == 9999     \* the null reply of a failed operation

\* One operation: the string and the reply.
FieldStep(s, op) ==
  IF op.opcode = "GET" THEN <<s, FieldGet(s, op)>>
  ELSE LET f == FieldNew(s, op) IN
       IF f.fail THEN <<s, Nil>>
       ELSE <<setUnsignedBitfield(s, op.offset, op.bits, Unsigned(f.new)), f.reply>>

RECURSIVE FieldSteps(_, _, _)
FieldSteps(s, ops, replies) ==
  IF ops = <<>> THEN <<s, replies>>
  ELSE LET r == FieldStep(s, Head(ops)) IN FieldSteps(r[1], Tail(ops), Append(replies, r[2]))

Highest(ops) ==
  LET ends == {ops[i].offset + ops[i].bits - 1 : i \in {j \in DOMAIN ops : ops[j].opcode # "GET"}} IN
  CHOOSE m \in ends : \A e \in ends : e <= m

ReadOnly(ops) == \A i \in DOMAIN ops : ops[i].opcode = "GET"

(* What the fields mean, on bits. *)

RECURSIVE NumberOf(_)
NumberOf(bs) == IF bs = <<>> THEN 0 ELSE 2 * NumberOf(Front(bs)) + Last(bs)

RefGet(bs, op) ==
  LET field == [j \in 1..op.bits |-> IF op.offset + j <= Len(bs) THEN bs[op.offset + j] ELSE 0]
      n == NumberOf(field) IN
  IF op.sign /\ field[1] = 1 THEN n - 2 ^ op.bits ELSE n

RefMin(op) == IF op.sign THEN -(2 ^ (op.bits - 1)) ELSE 0
RefMax(op) == IF op.sign THEN 2 ^ (op.bits - 1) - 1 ELSE 2 ^ op.bits - 1

RefStep(bs, op) ==
  LET old == RefGet(bs, op)
      want == IF op.opcode = "INCRBY" THEN old + op.i64
              ELSE IF op.sign THEN op.i64 ELSE Unsigned(op.i64)
      fits == want >= RefMin(op) /\ want <= RefMax(op)
      new == IF fits THEN want
             ELSE IF op.owtype = "SAT"
             THEN (IF want < RefMin(op) THEN RefMin(op) ELSE RefMax(op))
             ELSE ((want - RefMin(op)) % 2 ^ op.bits) + RefMin(op) IN
  IF op.opcode = "GET" THEN <<bs, old>>
  ELSE IF ~fits /\ op.owtype = "FAIL" THEN <<bs, Nil>>
  ELSE <<[j \in DOMAIN bs |->
            IF j > op.offset /\ j <= op.offset + op.bits
            THEN ((new % 2 ^ op.bits) \div 2 ^ (op.bits - (j - op.offset))) % 2 ELSE bs[j]] \o <<>>,
         IF op.opcode = "INCRBY" THEN new ELSE old>>

RECURSIVE RefSteps(_, _, _)
RefSteps(bs, ops, replies) ==
  IF ops = <<>> THEN <<bs, replies>>
  ELSE LET r == RefStep(bs, Head(ops)) IN RefSteps(r[1], Tail(ops), Append(replies, r[2]))

bitfieldCommand(k, ops) ==
  LET s == IF ReadOnly(ops) THEN impl.db[k] ELSE Grown(impl.db[k], Highest(ops))
      bs == IF ReadOnly(ops) THEN ref.bits[k] ELSE GrownBits(ref.bits[k], Highest(ops))
      r == FieldSteps(s, ops, <<>>)
      q == RefSteps(bs, ops, <<>>) IN
  /\ impl' = [impl EXCEPT !.db[k] = r[1], !.reply = r[2]]
  /\ ref' = [bits |-> [ref.bits EXCEPT ![k] = q[1]], reply |-> q[2]]

----------------------------------------------------------------------------

Bound == aux.cmds > 0 /\ aux' = [aux EXCEPT !.cmds = @ - 1]

Next ==
  \/ \E k \in DOMAIN impl.db, offset \in aux.setup.offsets, on \in {0, 1} :
       Bound /\ setbitCommand(k, offset, on)
  \/ \E p \in aux.setup.bitops : Bound /\ bitopCommand(p.op, p.dest, p.srcs)
  \/ \E k \in DOMAIN impl.db, ops \in aux.setup.fields : Bound /\ bitfieldCommand(k, ops)

Init ==
  \E i \in DOMAIN Setups :
    LET setup == Setups[i] IN
    /\ impl = [db |-> setup.db, reply |-> <<>>]
    /\ ref = [bits |-> [k \in DOMAIN setup.db |-> BitsOf(setup.db[k]) \o <<>>], reply |-> <<>>]
    /\ aux = [setup |-> setup, cmds |-> setup.cmds]

Spec == Init /\ [][Next]_vars

----------------------------------------------------------------------------
(* Properties.                                                                *)

\* The bytes after any sequence of SETBIT, BITOP and BITFIELD are the bits the
\* commands define: byte and bit numbers, the growth of the string, the fast
\* path of bitopCommand and the tail after it.
BitsExact == \A k \in DOMAIN impl.db : BitsOf(impl.db[k]) = ref.bits[k]

\* The replies of BITFIELD are the values of the fields as integers: sign
\* extension, the window of bytes GET reads, and the sums that wrap, saturate
\* or fail at the limits of the field.  SET takes the number for an unsigned
\* field as unsigned: a negative one is large, and saturates at the maximum.
FieldsExact == impl.reply = ref.reply

InRange(s, start, end) ==
  {j \in 1..(Len(s) * BYTE) : (j - 1) \div BYTE >= Clip(start, Len(s))
                              /\ (j - 1) \div BYTE <= ClipEnd(end, Len(s))}

\* BITCOUNT and BITPOS agree with a search bit by bit, for any range of bytes,
\* negative ends included, and for any alignment of the string in memory; when
\* both ends are negative and in the wrong order BITCOUNT is 0 before they are
\* clipped to the string.
SearchExact ==
  \A k \in DOMAIN impl.db, start \in aux.setup.ranges, end \in aux.setup.ranges, base \in 0..(CHUNK - 1) :
    LET s == impl.db[k]
        bs == ref.bits[k]
        sel == InRange(s, start, end) IN
    s # <<>> =>
      /\ bitcountCommand(s, start, end, base) =
           IF start < 0 /\ end < 0 /\ start > end THEN 0 ELSE Cardinality({j \in sel : bs[j] = 1})
      /\ \A bit \in {0, 1} :
           LET hits == {j \in sel : bs[j] = bit} IN
           bitposCommand(s, bit, start, end, TRUE, base) =
             IF hits = {} THEN -1 ELSE (CHOOSE j \in hits : \A h \in hits : j <= h) - 1
=============================================================================
