---------------------------- MODULE Hyperloglog ----------------------------
(* HyperLogLog values (hyperloglog.c): the dense representation, registers of *)
(* HLL_BITS bits packed into bytes, the sparse one, run-length opcodes that   *)
(* are split and joined in place, the promotion from one to the other, the    *)
(* cached cardinality, and the commands PFADD, PFCOUNT and PFMERGE.           *)
(*                                                                            *)
(* The cardinality is a function of the histogram of the registers; the       *)
(* histogram stands for it.  The hash of an element is given as a number.     *)
EXTENDS Integers, Sequences, FiniteSets, SequencesExt, TLC

CONSTANTS Setups,                    \* where a behaviour starts, what is added
          HLL_P, HLL_Q,              \* bits of the hash for index and count
          HLL_BITS, BYTE,            \* bits of a register, bits of a byte
          ZERO_MAX_LEN, VAL_MAX_LEN, \* longest runs of ZERO and VAL
          VAL_MAX_VALUE              \* largest value of VAL

VARIABLES impl,     \* [db, dirty]: the values by key, and what the last command said
          ref,      \* the registers by key that the elements added call for
          aux       \* setup and bound

vars == <<impl, ref, aux>>

HLL_REGISTERS == 2 ^ HLL_P
XZERO_MAX_LEN == HLL_REGISTERS
Registers == 0..(HLL_REGISTERS - 1)

----------------------------------------------------------------------------
(* The hash of an element gives a register and the length of a pattern.       *)

hllPatLen(hash) ==
  LET rest == (hash \div HLL_REGISTERS) % 2 ^ HLL_Q IN
  [index |-> hash % HLL_REGISTERS,
   count |-> CHOOSE n \in 1..(HLL_Q + 1) :
               /\ n = HLL_Q + 1 \/ (rest \div 2 ^ (n - 1)) % 2 = 1
               /\ \A k \in 1..(n - 1) : (rest \div 2 ^ (k - 1)) % 2 = 0]

----------------------------------------------------------------------------
(* Dense: registers packed in bytes, one byte more than they fill (the null   *)
(* term of the string).                                                       *)

DenseLen == (HLL_REGISTERS * HLL_BITS) \div BYTE + 1

HLL_DENSE_GET_REGISTER(bytes, r) ==
  LET byte == (r * HLL_BITS) \div BYTE
      fb == (r * HLL_BITS) % BYTE IN
  (bytes[byte + 1] \div 2 ^ fb + bytes[byte + 2] * 2 ^ (BYTE - fb)) % 2 ^ HLL_BITS

\* b with the n bits from bit f on replaced by v, within a byte.
PutBits(b, f, n, v) ==
  LET top == IF f + n < BYTE THEN f + n ELSE BYTE IN
  (b \div 2 ^ top) * 2 ^ top + ((v * 2 ^ f) % 2 ^ top) + (b % 2 ^ f)

HLL_DENSE_SET_REGISTER(bytes, r, v) ==
  LET byte == (r * HLL_BITS) \div BYTE
      fb == (r * HLL_BITS) % BYTE
      fb8 == BYTE - fb
      over == IF HLL_BITS > fb8 THEN HLL_BITS - fb8 ELSE 0 IN
  [bytes EXCEPT ![byte + 1] = PutBits(@, fb, HLL_BITS, v),
                ![byte + 2] = PutBits(@, 0, over, v \div 2 ^ fb8)]

DenseZero == [i \in 1..DenseLen |-> 0] \o <<>>

hllDenseSet(bytes, index, count) ==
  IF count > HLL_DENSE_GET_REGISTER(bytes, index)
  THEN HLL_DENSE_SET_REGISTER(bytes, index, count)
  ELSE bytes

----------------------------------------------------------------------------
(* Sparse: a sequence of opcodes.  ZERO and VAL take a byte, XZERO two.       *)

ZERO(len) == [op |-> "zero", len |-> len, val |-> 0]
XZERO(len) == [op |-> "xzero", len |-> len, val |-> 0]
VAL(val, len) == [op |-> "val", len |-> len, val |-> val]

OpLen(o) == IF o.op = "xzero" THEN 2 ELSE 1

RECURSIVE SparseBytes(_)
SparseBytes(ops) == IF ops = <<>> THEN 0 ELSE OpLen(Head(ops)) + SparseBytes(Tail(ops))

RECURSIVE Covered(_)
Covered(ops) == IF ops = <<>> THEN 0 ELSE Head(ops).len + Covered(Tail(ops))

\* The registers, from the opcodes in order.
Run(o) == [i \in 1..o.len |-> o.val]

RECURSIVE Expand(_)
Expand(ops) == IF ops = <<>> THEN <<>> ELSE Run(Head(ops)) \o Expand(Tail(ops))

RECURSIVE SetAll(_, _, _)
SetAll(bytes, values, r) ==
  IF r = HLL_REGISTERS THEN bytes
  ELSE SetAll(IF values[r + 1] = 0 THEN bytes ELSE HLL_DENSE_SET_REGISTER(bytes, r, values[r + 1]),
              values, r + 1)

hllSparseToDense(h) ==
  IF h.enc = "dense" THEN h
  ELSE [h EXCEPT !.enc = "dense", !.ops = <<>>, !.bytes = SetAll(DenseZero, Expand(h.ops), 0)]

\* createHLLObject: runs of zeros, and an empty cache that says zero.
NoCard == <<>>

Histogram(values) ==
  [v \in 0..(HLL_Q + 1) |-> Cardinality({r \in DOMAIN values : values[r] = v})]

createHLLObject ==
  [enc |-> "sparse", ops |-> <<XZERO(HLL_REGISTERS)>>, bytes |-> <<>>,
   card |-> <<Histogram([r \in Registers |-> 0])>>]

\* A run of zeros of a given length, in the shorter opcode that holds it.
ZerosAlways(len) == IF len = 0 THEN <<>> ELSE <<ZERO(len)>>

Zeros(len) ==
  IF len = 0 THEN <<>>
  ELSE IF len > ZERO_MAX_LEN THEN <<XZERO(len)>> ELSE <<ZERO(len)>>

Vals(val, len) == IF len = 0 THEN <<>> ELSE <<VAL(val, len)>>

\* The opcode that covers a register, and the first register it covers.
OpAt(ops, index) ==
  CHOOSE k \in DOMAIN ops :
    /\ Covered(SubSeq(ops, 1, k - 1)) <= index
    /\ index < Covered(SubSeq(ops, 1, k))

\* Joins equal runs whatever their length.
RECURSIVE JoinAlways(_, _, _)
JoinAlways(ops, p, scanlen) ==
  IF scanlen = 0 \/ p >= Len(ops) THEN ops
  ELSE IF ops[p].op = "val" /\ ops[p + 1].op = "val" /\ ops[p].val = ops[p + 1].val
  THEN JoinAlways(SubSeq(ops, 1, p - 1) \o <<VAL(ops[p].val, ops[p].len + ops[p + 1].len)>>
                    \o SubSeq(ops, p + 2, Len(ops)), p, scanlen - 1)
  ELSE JoinAlways(ops, p + 1, scanlen - 1)

\* Five steps over the opcodes from p on, joining runs of the same value.
RECURSIVE JoinRuns(_, _, _)
JoinRuns(ops, p, scanlen) ==
  IF scanlen = 0 \/ p >= Len(ops) THEN ops
  ELSE IF /\ ops[p].op = "val" /\ ops[p + 1].op = "val" /\ ops[p].val = ops[p + 1].val
          /\ ops[p].len + ops[p + 1].len <= VAL_MAX_LEN
  THEN JoinRuns(SubSeq(ops, 1, p - 1) \o <<VAL(ops[p].val, ops[p].len + ops[p + 1].len)>>
                  \o SubSeq(ops, p + 2, Len(ops)), p, scanlen - 1)
  ELSE JoinRuns(ops, p + 1, scanlen - 1)

Promoted(h, index, count) ==
  LET d == hllSparseToDense(h) IN
  [d EXCEPT !.bytes = hllDenseSet(d.bytes, index, count)]

\* The opcodes that take the place of opcode o for registers first onwards.
Split(o, first, index, count) ==
  LET before == index - first
      after == first + o.len - 1 - index IN
  IF o.op = "val"
  THEN Vals(o.val, before) \o <<VAL(count, 1)>> \o Vals(o.val, after)
  ELSE Zeros(before) \o <<VAL(count, 1)>> \o Zeros(after)

hllSparseSet(h, index, count) ==
  LET k == OpAt(h.ops, index)
      o == h.ops[k]
      first == Covered(SubSeq(h.ops, 1, k - 1))
      inplace == o.len = 1 /\ o.op # "xzero"
      seq == Split(o, first, index, count)
      delta == SparseBytes(seq) - OpLen(o)
      ops == SubSeq(h.ops, 1, k - 1) \o seq \o SubSeq(h.ops, k + 1, Len(h.ops)) IN
  IF count > VAL_MAX_VALUE THEN Promoted(h, index, count)
  ELSE IF o.op = "val" /\ o.val >= count THEN h
  ELSE IF ~inplace /\ delta > 0 /\ SparseBytes(h.ops) + delta > aux.setup.maxbytes
  THEN Promoted(h, index, count)
  ELSE [h EXCEPT !.ops = JoinRuns(ops, IF k = 1 THEN 1 ELSE k - 1, 5), !.card = NoCard]

----------------------------------------------------------------------------
(* Both representations.                                                      *)

ValuesOf(h) ==
  IF h.enc = "sparse" THEN LET e == Expand(h.ops) IN [r \in Registers |-> e[r + 1]]
  ELSE [r \in Registers |-> HLL_DENSE_GET_REGISTER(h.bytes, r)]

SetRegister(h, index, count) ==
  IF h.enc = "dense" THEN [h EXCEPT !.bytes = hllDenseSet(@, index, count)]
  ELSE hllSparseSet(h, index, count)

hllAdd(h, hash) ==
  LET pat == hllPatLen(hash) IN SetRegister(h, pat.index, pat.count)

\* hllMerge over several values: the largest value of every register.
hllMerge(keys) ==
  [r \in Registers |->
    LET vs == {0} \cup {ValuesOf(impl.db[k][1])[r] : k \in keys} IN
    CHOOSE m \in vs : \A v \in vs : v <= m]

RECURSIVE AddAll(_, _)
AddAll(h, hashes) == IF hashes = <<>> THEN h ELSE AddAll(hllAdd(h, Head(hashes)), Tail(hashes))

RECURSIVE Raise(_, _, _)
Raise(h, max, r) ==
  IF r = HLL_REGISTERS THEN h
  ELSE Raise(IF max[r] = 0 THEN h ELSE SetRegister(h, r, max[r]), max, r + 1)

----------------------------------------------------------------------------
(* The commands.  A key holds <<>> or <<value>>.                              *)

Exists(k) == impl.db[k] # <<>>
Keys == DOMAIN impl.db

Stored(k, h, dirty) == impl' = [impl EXCEPT !.db[k] = <<h>>, !.dirty = dirty]

RefMax(a, b) == [r \in Registers |-> IF a[r] > b[r] THEN a[r] ELSE b[r]]
RefOf(hash) == LET pat == hllPatLen(hash) IN
  [r \in Registers |-> IF r = pat.index THEN pat.count ELSE 0]

\* hllAdd says whether a register was raised.
pfaddCommand(k, hashes) ==
  LET old == IF Exists(k) THEN impl.db[k][1] ELSE createHLLObject
      h == AddAll(old, hashes)
      updated == ~Exists(k) \/ h # old IN
  /\ aux.ops > 0
  /\ Stored(k, IF updated THEN [h EXCEPT !.card = NoCard] ELSE h, updated)
  /\ ref' = [ref EXCEPT ![k] = IF hashes = <<>> THEN @ ELSE RefMax(@, RefOf(hashes[1]))]
  /\ aux' = [aux EXCEPT !.ops = @ - 1]

\* PFCOUNT of one key: the cached cardinality, or a new one that is stored.
pfcountCommand(k) ==
  /\ aux.ops > 0 /\ Exists(k)
  /\ impl.db[k][1].card = NoCard
  /\ Stored(k, [impl.db[k][1] EXCEPT !.card = <<Histogram(ValuesOf(impl.db[k][1]))>>], TRUE)
  /\ aux' = [aux EXCEPT !.ops = @ - 1]
  /\ UNCHANGED ref

\* The destination takes part in the merge.
pfmergeCommand(dest, sources) ==
  LET keys == {k \in sources \cup {dest} : Exists(k)}
      max == hllMerge(keys)
      start == IF Exists(dest) THEN impl.db[dest][1] ELSE createHLLObject
      dense == \E k \in keys : impl.db[k][1].enc = "dense"
      h == Raise(IF dense THEN hllSparseToDense(start) ELSE start, max, 0) IN
  /\ aux.ops > 0
  /\ Stored(dest, [h EXCEPT !.card = NoCard], TRUE)
  /\ ref' = [ref EXCEPT ![dest] =
       [r \in Registers |-> LET vs == {ref[k][r] : k \in sources \cup {dest}} IN
                            CHOOSE m \in vs : \A v \in vs : v <= m]]
  /\ aux' = [aux EXCEPT !.ops = @ - 1]

Next ==
  \/ \E k \in Keys, hashes \in aux.setup.adds : pfaddCommand(k, hashes)
  \/ \E k \in Keys : pfcountCommand(k)
  \/ \E dest \in Keys, sources \in aux.setup.merges : pfmergeCommand(dest, sources)

Init ==
  \E i \in DOMAIN Setups :
    LET setup == Setups[i] IN
    /\ impl = [db |-> [k \in setup.keys |-> <<>>], dirty |-> FALSE]
    /\ ref = [k \in setup.keys |-> [r \in Registers |-> 0]]
    /\ aux = [setup |-> setup, ops |-> setup.ops]

Spec == Init /\ [][Next]_vars

----------------------------------------------------------------------------
(* Properties.                                                                *)

\* Every register holds the longest pattern added to it, in either
\* representation, through splits, joins, promotions and merges: hllSparseSet,
\* hllSparseToDense and hllDenseSet against the plain maximum.
RegistersExact == \A k \in Keys : Exists(k) => ValuesOf(impl.db[k][1]) = ref[k]

\* Every opcode of a sparse value fits its bits and they cover the registers:
\* hllSparseSet writes no run longer, and no value larger, than the opcode can
\* hold.
OpcodesFit ==
  \A k \in Keys : Exists(k) /\ impl.db[k][1].enc = "sparse" =>
    LET ops == impl.db[k][1].ops IN
    /\ Covered(ops) = HLL_REGISTERS
    /\ \A i \in DOMAIN ops :
         /\ ops[i].len \in 1..(CASE ops[i].op = "zero" -> ZERO_MAX_LEN
                                [] ops[i].op = "xzero" -> XZERO_MAX_LEN
                                [] ops[i].op = "val" -> VAL_MAX_LEN)
         /\ ops[i].op = "val" => ops[i].val \in 1..VAL_MAX_VALUE

\* A cached cardinality is the cardinality of the registers: whatever raises a
\* register (pfaddCommand, pfmergeCommand, a promotion on the way) drops it.
CacheExact ==
  \A k \in Keys : Exists(k) /\ impl.db[k][1].card # NoCard =>
    impl.db[k][1].card[1] = Histogram(ValuesOf(impl.db[k][1]))
=============================================================================
