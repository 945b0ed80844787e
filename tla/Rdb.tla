-------------------------------- MODULE Rdb ---------------------------------
(***************************************************************************)
(* RDB files (rdb.c, rio.h) and their checker (redis-check-rdb.c): the     *)
(* bytes a data set is saved as, and the loop that loads them back, one    *)
(* opcode or key at a time, also from a file that was cut short or has a   *)
(* changed byte.                                                           *)
(*                                                                         *)
(* Bytes are numbers below Base, whose two high bits select the format of  *)
(* a length, as in the code.  Multi-byte fields are narrower than the      *)
(* code's: see Base, Wide and IntBytes.  A time, a score or a stream ID is *)
(* one raw byte.  Characters are bytes: 0, a space, a dash, ten digits and *)
(* letters.                                                                *)
(*   impl = the loader: its position, what it will attach to the next key, *)
(*          and the databases it has filled                                *)
(*   aux  = the setup: the data set, the options, and the file             *)
(***************************************************************************)
EXTENDS Integers, Sequences, FiniteSets, SequencesExt, FiniteSetsExt, Functions, TLC

CONSTANTS
    Low,         \* lengths below Low take one byte; a byte is 4 * Low values
    IntChars,    \* strings up to this length are tried as integers (11)
    LzfMin,      \* strings above this length are compressed (20)
    Setups       \* a sequence: the data sets and options to save and load

VARIABLES impl, aux

vars == <<impl, aux>>

Base == 4 * Low
Wide == [w32 |-> 2, w64 |-> 3]           \* bytes of the long lengths (4, 8)
IntBytes == <<1, 2, 3>>                  \* bytes of RDB_ENC_INT8, 16, 32

\* types and opcodes, the latter counted from the top as in the code
RDB_TYPE_STRING == 0
RDB_TYPE_LIST == 1
RDB_TYPE_SET == 2
RDB_TYPE_HASH == 4
RDB_TYPE_ZSET_2 == 5
RDB_TYPE_LIST_ZIPLIST == 10
RDB_TYPE_SET_INTSET == 11
RDB_TYPE_ZSET_ZIPLIST == 12
RDB_TYPE_HASH_ZIPLIST == 13
RDB_TYPE_LIST_QUICKLIST == 14
RDB_TYPE_STREAM_LISTPACKS == 15
Opcode(n) == Base - 256 + n
IDLE == Opcode(248)
FREQ == Opcode(249)
AUX == Opcode(250)
RESIZEDB == Opcode(251)
EXPIRETIME_MS == Opcode(252)
EXPIRETIME == Opcode(253)
SELECTDB == Opcode(254)
EOF == Opcode(255)

Magic == <<19, 19>>                      \* REDIS0009
Space == 1
Dash == 2
Zero == 4                                \* digits are Zero .. Zero + 9

\* the names of the auxiliary fields
Ver == <<20>>
ReplStreamDb == <<21, 20>>
ReplId == <<21, 21>>
ReplOffset == <<21, 22>>
Lua == <<22>>
ReplIdSize == 2                          \* CONFIG_RUN_ID_SIZE

-----------------------------------------------------------------------------
(* Lengths, integers and strings, written.                                 *)

BigEndian(n, w) == [i \in 1 .. w |-> (n \div Base ^ (w - i)) % Base]
LittleEndian(n, w) == Reverse(BigEndian(n % Base ^ w, w))

rdbSaveLen(len) ==
    IF len < Low THEN <<len>>
    ELSE IF len < Low * Base THEN <<Low + len \div Base, len % Base>>
    ELSE IF len < Base ^ Wide.w32 THEN <<2 * Low>> \o BigEndian(len, Wide.w32)
    ELSE <<2 * Low + 1>> \o BigEndian(len, Wide.w64)

RECURSIVE Digits(_)
Digits(n) == IF n < 10 THEN <<Zero + n>> ELSE Append(Digits(n \div 10), Zero + (n % 10))
ll2string(n) == IF n < 0 THEN <<Dash>> \o Digits(-n) ELSE Digits(n)

DigitChars == Zero .. Zero + 9
RECURSIVE Number(_)
Number(s) == IF s = <<>> THEN 0 ELSE 10 * Number(Front(s)) + Last(s) - Zero

(* strtoll: skips blanks, takes a sign and digits, and tells where it      *)
(* stopped: at the start when there is no digit.                           *)
strtoll(s) ==
    LET Run(i, chars) == CHOOSE j \in i .. Len(s) + 1 :
                              /\ \A k \in i .. j - 1 : s[k] \in chars
                              /\ j <= Len(s) => s[j] \notin chars
        Parsed(sign, first, end) ==
            IF end = first THEN [value |-> 0, end |-> 1]
            ELSE [value |-> sign * Number(SubSeq(s, first, end - 1)), end |-> end]
        Signed(sign, first) ==
            Parsed(sign, first, IF first > Len(s) THEN first ELSE Run(first, DigitChars))
        From(start) == IF start <= Len(s) /\ s[start] = Dash THEN Signed(-1, start + 1)
                       ELSE Signed(1, start)
    IN From(Run(1, {Space}))

rdbEncodeInteger(value) ==
    LET fits(w) == -(Base ^ w \div 2) <= value /\ value < Base ^ w \div 2
        Enc(i) == <<3 * Low + i - 1>> \o LittleEndian(value, IntBytes[i])
        Shortest(codes) == IF codes = {} THEN <<>> ELSE Enc(Min(codes))
    IN Shortest({i \in DOMAIN IntBytes : fits(IntBytes[i])})

(* rdbTryIntegerEncoding: only a string that is written exactly as the     *)
(* integer is printed.  A byte 0 ends the number early.                    *)
TryIntegerPrefix(s) ==
    LET Try(r) == IF (r.end <= Len(s) /\ s[r.end] # 0) \/ ~IsPrefix(ll2string(r.value), s) THEN <<>>
                  ELSE rdbEncodeInteger(r.value)
    IN Try(strtoll(s))

rdbTryIntegerEncoding(s) ==
    LET Try(r) == IF (r.end <= Len(s) /\ s[r.end] # 0) \/ ll2string(r.value) # s THEN <<>>
                  ELSE rdbEncodeInteger(r.value)
    IN Try(strtoll(s))

(* lzf_compress, which gives up on what it cannot shorten: it shortens a   *)
(* run of one byte.                                                        *)
lzf_compress(s) == IF \A i \in DOMAIN s : s[i] = s[1] THEN <<Len(s), s[1]>> ELSE <<>>

rdbSaveLzfBlob(c, len) == <<3 * Low + 3>> \o rdbSaveLen(Len(c)) \o rdbSaveLen(len) \o c

rdbSaveRawString(s) ==
    LET Lzf(c) == IF c # <<>> THEN rdbSaveLzfBlob(c, Len(s)) ELSE rdbSaveLen(Len(s)) \o s
        OrElse(int) == IF int # <<>> THEN int
                       ELSE Lzf(IF aux.setup.compress /\ Len(s) > LzfMin THEN lzf_compress(s) ELSE <<>>)
    IN OrElse(IF Len(s) <= IntChars THEN rdbTryIntegerEncoding(s) ELSE <<>>)

(* A node of a quicklist is written compressed if it is.                   *)
SaveNode(b, lzf) ==
    LET Of(c) == IF c # <<>> THEN rdbSaveLzfBlob(c, Len(b)) ELSE rdbSaveRawString(b)
    IN Of(IF lzf THEN lzf_compress(b) ELSE <<>>)

-----------------------------------------------------------------------------
(* Formats.  A value is written and read along a format: a length, a       *)
(* string, a raw byte, a quicklist node, a tuple of formats, or a counted  *)
(* sequence of one.  What is saved and what is loaded have their own.      *)

LenF == [k |-> "len"]
StrF == [k |-> "str"]
RawF == [k |-> "raw"]
NodeF == [k |-> "node"]
AllF(fs) == [k |-> "all", of |-> fs]
ManyF(f) == [k |-> "many", of |-> f]

(* A ziplist or an intset as the string of its memory.                     *)
Blob(elems) == <<Len(elems)>> \o FlattenSeq([i \in DOMAIN elems |-> <<Len(elems[i])>> \o elems[i]])

RECURSIVE Put(_, _)
Put(f, v) ==
    CASE f.k = "len" -> rdbSaveLen(v)
      [] f.k = "str" -> rdbSaveRawString(v)
      [] f.k = "raw" -> <<v>>
      [] f.k = "node" -> SaveNode(Blob(v.elems), v.lzf)
      [] f.k = "all" -> FlattenSeq([i \in DOMAIN f.of |-> Put(f.of[i], v[i])])
      [] f.k = "many" -> rdbSaveLen(Len(v)) \o FlattenSeq([i \in DOMAIN v |-> Put(f.of, v[i])])

(* The type byte of an object.                                             *)
rdbSaveObjectType(o) ==
    CASE o.type = "string" -> RDB_TYPE_STRING
      [] o.type = "list" -> RDB_TYPE_LIST_QUICKLIST
      [] o.type = "set" -> IF o.enc = "intset" THEN RDB_TYPE_SET_INTSET ELSE RDB_TYPE_SET
      [] o.type = "zset" -> IF o.enc = "ziplist" THEN RDB_TYPE_ZSET_ZIPLIST ELSE RDB_TYPE_ZSET_2
      [] o.type = "hash" -> IF o.enc = "ziplist" THEN RDB_TYPE_HASH_ZIPLIST ELSE RDB_TYPE_HASH
      [] o.type = "stream" -> RDB_TYPE_STREAM_LISTPACKS

(* rdbSaveStreamPEL with and without the delivery data, and the groups.    *)
PELOf(nacks) == ManyF(IF nacks THEN AllF(<<RawF, RawF, LenF>>) ELSE RawF)
ConsumersOut == ManyF(AllF(<<StrF, RawF, PELOf(FALSE)>>))
StreamOut == AllF(<<ManyF(AllF(<<StrF, StrF>>)), LenF, LenF, LenF,
                   ManyF(AllF(<<StrF, LenF, LenF, PELOf(TRUE), ConsumersOut>>))>>)

Pairs(o) == IF o.type = "set" THEN o.v ELSE FlattenSeq([i \in DOMAIN o.v |->
                <<o.v[i][1], IF o.type = "zset" THEN <<o.v[i][2]>> ELSE o.v[i][2]>>])

(* rdbSaveObject.  A skiplist is written from its tail.                    *)
rdbSaveObject(o) ==
    LET compact == o.enc \in {"intset", "ziplist"}
        format == CASE o.type = "string" -> StrF
                    [] o.type = "list" -> ManyF(NodeF)
                    [] o.type = "stream" -> StreamOut
                    [] compact -> StrF
                    [] o.type = "set" -> ManyF(StrF)
                    [] o.type = "zset" -> ManyF(AllF(<<StrF, RawF>>))
                    [] o.type = "hash" -> ManyF(AllF(<<StrF, StrF>>))
    IN Put(format, IF compact THEN Blob(Pairs(o)) ELSE IF o.type = "zset" THEN Reverse(o.v) ELSE o.v)

(* rdbSaveKeyValuePair.                                                    *)
rdbSaveKeyValuePair(e) ==
       (IF e.expire # -1 THEN <<EXPIRETIME_MS, e.expire>> ELSE <<>>)
    \o (IF aux.setup.policy = "lru" THEN <<IDLE>> \o rdbSaveLen(e.idle) ELSE <<>>)
    \o (IF aux.setup.policy = "lfu" THEN <<FREQ, e.freq>> ELSE <<>>)
    \o <<rdbSaveObjectType(e.val)>> \o rdbSaveRawString(e.key) \o rdbSaveObject(e.val)

rdbSaveAuxField(key, val) == <<AUX>> \o rdbSaveRawString(key) \o rdbSaveRawString(val)

rdbSaveInfoAuxFields ==
    LET rsi == aux.setup.rsi
        fields == << <<Ver, <<Zero + 5>>>> >> \o
                  IF ~rsi.on THEN <<>>
                  ELSE << <<ReplStreamDb, ll2string(rsi.db)>>, <<ReplId, rsi.id>>,
                          <<ReplOffset, ll2string(rsi.offset)>> >>
    IN FlattenSeq([i \in DOMAIN fields |-> rdbSaveAuxField(fields[i][1], fields[i][2])])

SaveDb(j) ==
    LET d == aux.setup.dbs[j]
    IN IF d = <<>> THEN <<>>
       ELSE    <<SELECTDB>> \o rdbSaveLen(j - 1)
            \o <<RESIZEDB>> \o rdbSaveLen(Len(d))
            \o rdbSaveLen(Cardinality({i \in DOMAIN d : d[i].expire # -1}))
            \o FlattenSeq([i \in DOMAIN d |-> rdbSaveKeyValuePair(d[i])])

(* crc64: never 0, and different when one byte differs.                    *)
RECURSIVE Total(_, _, _)
Total(bytes, i, j) ==
    IF i > j THEN 0 ELSE IF i = j THEN bytes[i]
    ELSE Total(bytes, i, (i + j) \div 2) + Total(bytes, (i + j) \div 2 + 1, j)
crc64(bytes) == BigEndian(1 + (Total(bytes, 1, Len(bytes)) % (Base * Base - 1)), 2)

rdbSaveRio ==
    LET Summed(body) == body \o IF aux.setup.sum THEN crc64(body) ELSE <<0, 0>>
    IN Summed(   Magic \o rdbSaveInfoAuxFields
              \o FlattenSeq([j \in DOMAIN aux.setup.dbs |-> SaveDb(j)])
              \o (IF aux.setup.rsi.on THEN FlattenSeq([i \in DOMAIN aux.setup.scripts |->
                                               rdbSaveAuxField(Lua, aux.setup.scripts[i])]) ELSE <<>>)
              \o <<EOF>>)

-----------------------------------------------------------------------------
(* Reading.  A read from position at returns where it ends and the value,  *)
(* or Bad: rioRead came to the end of the file, or the bytes make no       *)
(* sense.  A length that cannot be read is Bad as well: where the code     *)
(* does not look at RDB_LENERR, the next read fails at the same place.     *)

file == aux.file
Bad == [ok |-> FALSE, at |-> 0, v |-> 0]
Ok(at, v) == [ok |-> TRUE, at |-> at, v |-> v]

rioRead(at, n) == IF at + n - 1 > Len(file) THEN Bad ELSE Ok(at + n, SubSeq(file, at, at + n - 1))

(* What follows a read that succeeded.                                     *)
Then(r, F(_, _)) == IF r.ok THEN F(r.at, r.v) ELSE Bad

RECURSIVE FromBig(_)
FromBig(bytes) == IF bytes = <<>> THEN 0 ELSE FromBig(Front(bytes)) * Base + Last(bytes)
ReadBig(at, n) == Then(rioRead(at, n), LAMBDA p, bytes : Ok(p, FromBig(bytes)))

rdbLoadType(at) == ReadBig(at, 1)

rdbLoadLen(at) ==
    LET Of(p, b) ==
          IF b \div Low \in {0, 3} THEN Ok(p, b % Low)
          ELSE IF b \div Low = 1
          THEN Then(ReadBig(p, 1), LAMBDA q, c : Ok(q, (b % Low) * Base + c))
          ELSE IF b > 2 * Low + 1 THEN Bad
          ELSE ReadBig(p, IF b = 2 * Low THEN Wide.w32 ELSE Wide.w64)
    IN Then(ReadBig(at, 1), Of)

IsEncoded(at) == file[at] \div Low = 3

rdbLoadIntegerObject(at, enctype) ==
    LET w == IntBytes[enctype + 1]
        Signed(u) == IF u >= Base ^ w \div 2 THEN u - Base ^ w ELSE u
    IN Then(rioRead(at, w), LAMBDA p, bytes : Ok(p, ll2string(Signed(FromBig(Reverse(bytes))))))

rdbLoadLzfStringObject(at) ==
    LET Of(p, v) ==      \* v: the compressed and the uncompressed length
          Then(rioRead(p, v[1]),
               LAMBDA q, c : IF Len(c) # 2 \/ c[1] # v[2] THEN Bad
                             ELSE Ok(q, [i \in 1 .. c[1] |-> c[2]]))
        Both(p, clen) == Then(rdbLoadLen(p), LAMBDA q, ulen : Ok(q, <<clen, ulen>>))
    IN Then(Then(rdbLoadLen(at), Both), Of)

rdbGenericLoadStringObject(at) ==
    LET Of(p, n) == IF ~IsEncoded(at) THEN rioRead(p, n)
                    ELSE IF n < 3 THEN rdbLoadIntegerObject(p, n)
                    ELSE IF n = 3 THEN rdbLoadLzfStringObject(p)
                    ELSE Bad
    IN Then(rdbLoadLen(at), Of)

(* The elements of a ziplist or intset.                                    *)
RECURSIVE Elems(_)
Elems(b) == IF b = <<>> \/ b[1] >= Len(b) THEN <<>>
            ELSE <<SubSeq(b, 2, b[1] + 1)>> \o Elems(SubSeq(b, b[1] + 2, Len(b)))
Unblob(b) == IF b = <<>> THEN <<>> ELSE Elems(Tail(b))

RECURSIVE Get(_, _), GetAll(_, _, _)
Get(f, at) ==
    CASE f.k = "len" -> rdbLoadLen(at)
      [] f.k = "str" -> rdbGenericLoadStringObject(at)
      [] f.k = "raw" -> ReadBig(at, 1)
      [] f.k = "all" -> GetAll(f.of, at, <<>>)
      [] f.k = "many" -> Then(rdbLoadLen(at),
                              LAMBDA p, n : IF n > Len(file) THEN Bad
                                            ELSE GetAll([i \in 1 .. n |-> f.of], p, <<>>))
GetAll(fs, at, acc) ==
    IF fs = <<>> THEN Ok(at, acc)
    ELSE Then(Get(Head(fs), at), LAMBDA p, v : GetAll(Tail(fs), p, Append(acc, v)))

StreamIn == AllF(<<ManyF(AllF(<<StrF, StrF>>)), LenF, LenF, LenF,
                   ManyF(AllF(<<StrF, LenF, LenF, ManyF(AllF(<<RawF, RawF, LenF>>)),
                                ManyF(AllF(<<StrF, RawF, ManyF(RawF)>>))>>))>>)

LoadFormat(type) ==
    CASE type = RDB_TYPE_STRING -> StrF
      [] type \in {RDB_TYPE_LIST, RDB_TYPE_SET, RDB_TYPE_LIST_QUICKLIST} -> ManyF(StrF)
      [] type = RDB_TYPE_ZSET_2 -> ManyF(AllF(<<StrF, RawF>>))
      [] type = RDB_TYPE_HASH -> ManyF(AllF(<<StrF, StrF>>))
      [] type = RDB_TYPE_STREAM_LISTPACKS -> StreamIn
      [] OTHER -> StrF

IsInteger(s) == s # <<>> /\ ll2string(strtoll(s).value) = s
Longest(strings) == Max({0} \cup {Len(strings[i]) : i \in DOMAIN strings})

(* The value of an object whatever its encoding: what a client sees.       *)
Content(type, v) ==
    CASE type = "list" -> v
      [] type = "set" -> ToSet(v)
      [] type \in {"zset", "hash"} -> ToSet(v)
      [] OTHER -> v

TwoByTwo(s) == [i \in 1 .. Len(s) \div 2 |-> <<s[2 * i - 1], s[2 * i]>>]

Object(type, compact, v) == [type |-> type, compact |-> compact, content |-> Content(type, v)]

(* The consumer of a stream group owns entries of the group's pending list *)
(* only.                                                                   *)
GroupsSound(v) ==
    \A g \in ToSet(v[5]) : \A c \in ToSet(g[5]) : ToSet(c[3]) \subseteq {g[4][i][1] : i \in DOMAIN g[4]}

(* rdbLoadObject: the object of what was read, small ones in a compact     *)
(* encoding if the limits of this server allow, and compact ones with too  *)
(* many elements in the general one.                                       *)
Small(n, strings) == n <= aux.setup.maxent /\ Longest(strings) <= aux.setup.maxval

TableObject(type, v) ==
    LET strings == IF type = RDB_TYPE_ZSET_2 THEN [i \in DOMAIN v |-> v[i][1]] ELSE FlattenSeq(v)
    IN IF type = RDB_TYPE_SET
       THEN Object("set", Len(v) <= aux.setup.maxint /\ \A i \in DOMAIN v : IsInteger(v[i]), v)
       ELSE Object(IF type = RDB_TYPE_ZSET_2 THEN "zset" ELSE "hash", Small(Len(v), strings), v)

CompactObject(type, e, pairs) ==
       CASE type = RDB_TYPE_LIST_ZIPLIST -> Object("list", FALSE, e)
         [] type = RDB_TYPE_SET_INTSET -> Object("set", Len(e) <= aux.setup.maxint, e)
         [] type = RDB_TYPE_ZSET_ZIPLIST ->
                Object("zset", Len(pairs) <= aux.setup.maxent,
                       [i \in DOMAIN pairs |-> <<pairs[i][1], IF pairs[i][2] = <<>> THEN 0 ELSE pairs[i][2][1]>>])
         [] type = RDB_TYPE_HASH_ZIPLIST -> Object("hash", Len(pairs) <= aux.setup.maxent, pairs)

rdbLoadObject(type, at) ==
    LET compact == {RDB_TYPE_LIST_ZIPLIST, RDB_TYPE_SET_INTSET, RDB_TYPE_ZSET_ZIPLIST, RDB_TYPE_HASH_ZIPLIST}
        Compact(e) == CompactObject(type, e, TwoByTwo(e))
        Value(v) ==
            CASE type = RDB_TYPE_STRING -> Object("string", FALSE, v)
              [] type = RDB_TYPE_LIST -> Object("list", FALSE, v)
              [] type = RDB_TYPE_LIST_QUICKLIST ->
                     Object("list", FALSE, FlattenSeq([i \in DOMAIN v |-> Unblob(v[i])]))
              [] type \in compact -> Compact(Unblob(v))
              [] type \in {RDB_TYPE_SET, RDB_TYPE_ZSET_2, RDB_TYPE_HASH} -> TableObject(type, v)
              [] type = RDB_TYPE_STREAM_LISTPACKS -> Object("stream", FALSE, v)
        known == compact \cup {RDB_TYPE_STRING, RDB_TYPE_LIST, RDB_TYPE_LIST_QUICKLIST, RDB_TYPE_SET,
                               RDB_TYPE_ZSET_2, RDB_TYPE_HASH, RDB_TYPE_STREAM_LISTPACKS}
        Of(p, v) == IF type \notin known \/ (type = RDB_TYPE_STREAM_LISTPACKS /\ ~GroupsSound(v)) THEN Bad
                    ELSE Ok(p, Value(v))
    IN Then(Get(LoadFormat(type), at), Of)

-----------------------------------------------------------------------------
(* rdbLoadRio, an opcode or a key per step.                                *)

Clock == 6                               \* LRU_CLOCK and its range
ClockMax == 8

(* objectSetLRUOrLFU, and the idle time and frequency that are then read.  *)
objectSetLRUOrLFU(freq, idle) ==
    LET abs == Clock - idle
        lru == IF abs < 0 THEN (Clock + ClockMax \div 2) % ClockMax ELSE abs
    IN IF aux.setup.policy2 = "lfu" THEN IF freq >= 0 THEN [freq |-> freq] ELSE <<>>
       ELSE IF idle >= 0 THEN [idle |-> IF Clock >= lru THEN Clock - lru ELSE Clock + ClockMax - lru]
       ELSE <<>>

Exit == impl' = [impl EXCEPT !.status = "exit"]

Loading(types) ==
    /\ impl.status = "loading"
    /\ rdbLoadType(impl.at).ok
    /\ file[impl.at] \in types
    /\ UNCHANGED aux

LoadHeader ==
    /\ impl.status = "start"
    /\ LET r == rioRead(1, Len(Magic))
       IN IF r.ok /\ r.v = Magic THEN impl' = [impl EXCEPT !.status = "loading", !.at = r.at] ELSE Exit
    /\ UNCHANGED aux

(* What an opcode says of the next key is kept until then.                 *)
LoadAttribute ==
    /\ Loading({EXPIRETIME, EXPIRETIME_MS, FREQ, IDLE})
    /\ LET op == file[impl.at]
       IN \E r \in {IF op = IDLE THEN rdbLoadLen(impl.at + 1) ELSE ReadBig(impl.at + 1, 1)} :
          IF ~r.ok THEN Exit
          ELSE impl' = [impl EXCEPT !.at = r.at,
                           !.expire = IF op \in {EXPIRETIME, EXPIRETIME_MS} THEN r.v ELSE @,
                           !.freq = IF op = FREQ THEN r.v ELSE @,
                           !.idle = IF op = IDLE THEN r.v ELSE @]

LoadSelect ==
    /\ Loading({SELECTDB})
    /\ \E r \in {rdbLoadLen(impl.at + 1)} :
          IF r.ok /\ r.v < Len(impl.dbs) THEN impl' = [impl EXCEPT !.at = r.at, !.db = r.v + 1] ELSE Exit

LoadResize ==
    /\ Loading({RESIZEDB})
    /\ \E r \in {GetAll(<<LenF, LenF>>, impl.at + 1, <<>>)} :
          IF r.ok THEN impl' = [impl EXCEPT !.at = r.at] ELSE Exit

LoadAux ==
    /\ Loading({AUX})
    /\ \E r \in {GetAll(<<StrF, StrF>>, impl.at + 1, <<>>)} :
       LET key == r.v[1]
           val == r.v[2]
       IN IF ~r.ok THEN Exit
          ELSE impl' = [impl EXCEPT !.at = r.at,
                           !.rsi.db = IF key = ReplStreamDb THEN strtoll(val).value ELSE @,
                           !.rsi.id = IF key = ReplId /\ Len(val) = ReplIdSize THEN val ELSE @,
                           !.rsi.offset = IF key = ReplOffset THEN strtoll(val).value ELSE @,
                           !.scripts = IF key = Lua THEN @ \cup {val} ELSE @]

(* A key.  A master drops it if it has expired.  dbAdd fails on a key that *)
(* is there.                                                               *)
KeyLoaded(s, at, key, val) ==
    LET expired == ~aux.setup.replica /\ s.expire # -1 /\ s.expire < aux.setup.now
        entry == [val |-> val, expire |-> s.expire, lru |-> objectSetLRUOrLFU(s.freq, s.idle)]
    IN [s EXCEPT !.at = at, !.expire = -1, !.freq = -1, !.idle = -1,
                 !.status = IF ~expired /\ key \in DOMAIN s.dbs[s.db] THEN "exit" ELSE @,
                 !.dbs[s.db] = IF expired \/ key \in DOMAIN @ THEN @ ELSE @ @@ (key :> entry)]

KeyAndValue(type, at) ==
    LET Value(p, key) == Then(rdbLoadObject(type, p), LAMBDA q, val : Ok(q, <<key, val>>))
    IN Then(rdbGenericLoadStringObject(at), Value)

LoadKey ==
    /\ Loading(0 .. Opcode(247))
    /\ \E r \in {KeyAndValue(file[impl.at], impl.at + 1)} :
          IF r.ok THEN impl' = KeyLoaded(impl, r.at, r.v[1], r.v[2]) ELSE Exit

(* The checksum is read whether it is verified or not.                     *)
SumOk(at) ==
    LET r == rioRead(at, 2)
    IN /\ r.ok
       /\ aux.setup.verify => r.v = <<0, 0>> \/ r.v = crc64(SubSeq(file, 1, at - 1))

LoadEnd ==
    /\ Loading({EOF})
    /\ IF SumOk(impl.at + 1) THEN impl' = [impl EXCEPT !.status = "ok"] ELSE Exit

LoadShort ==
    /\ impl.status = "loading" /\ ~rdbLoadType(impl.at).ok
    /\ Exit /\ UNCHANGED aux

-----------------------------------------------------------------------------
(* redis_check_rdb: its own loop over the same file.                       *)

CheckEnd(at) == aux.setup.verify => SumOk(at)

RECURSIVE CheckFrom(_)
CheckFrom(at) ==
    LET Skip(op, p) ==      \* what belongs to an opcode
            IF op \in {EXPIRETIME, EXPIRETIME_MS, FREQ} THEN ReadBig(p, 1)
            ELSE IF op \in {IDLE, SELECTDB} THEN rdbLoadLen(p)
            ELSE IF op = RESIZEDB THEN GetAll(<<LenF, LenF>>, p, <<>>)
            ELSE IF op = AUX THEN GetAll(<<StrF, StrF>>, p, <<>>)
            ELSE KeyAndValue(op, p)
        CheckNext(r) == r.ok /\ CheckFrom(r.at)
        Of(t) == /\ t.ok
                 /\ IF t.v = EOF THEN CheckEnd(t.at) ELSE CheckNext(Skip(t.v, t.at))
    IN Of(rdbLoadType(at))

redis_check_rdb == LET r == rioRead(1, Len(Magic)) IN r.ok /\ r.v = Magic /\ CheckFrom(r.at)

-----------------------------------------------------------------------------
(* What happened to the file: nothing, it was cut, or a byte changed.      *)
Damaged(f) ==
    {f} \cup (IF aux.setup.cut THEN {SubSeq(f, 1, n) : n \in 1 .. Len(f) - 1} ELSE {})
        \cup (IF aux.setup.flip THEN {[f EXCEPT ![i] = (@ + d) % Base] : i \in DOMAIN f, d \in {1, Low, Base - 1}}
                                ELSE {})

Init ==
    \E i \in DOMAIN Setups : LET u == Setups[i] IN
        /\ aux = [setup |-> u, file |-> <<>>, whole |-> FALSE]
        /\ impl = [status |-> "saving", at |-> 1, db |-> 1, expire |-> -1, freq |-> -1, idle |-> -1,
                   dbs |-> [j \in DOMAIN u.dbs |-> <<>>], scripts |-> {},
                   rsi |-> [db |-> -1, id |-> <<>>, offset |-> -1]]

Save ==
    /\ impl.status = "saving"
    /\ \E saved \in {rdbSaveRio} : \E f \in Damaged(saved) :
           aux' = [aux EXCEPT !.file = f, !.whole = f = saved]
    /\ impl' = [impl EXCEPT !.status = "start"]

Next ==
    \/ Save
    \/ LoadHeader
    \/ LoadAttribute
    \/ LoadSelect
    \/ LoadResize
    \/ LoadAux
    \/ LoadKey
    \/ LoadEnd
    \/ LoadShort

Spec == Init /\ [][Next]_vars

-----------------------------------------------------------------------------
Kept(e) == aux.setup.replica \/ e.expire = -1 \/ e.expire >= aux.setup.now

SameMeta(e, l) ==
    CASE aux.setup.policy = "lfu" /\ aux.setup.policy2 = "lfu" -> l.lru = [freq |-> e.freq]
      [] aux.setup.policy = "lru" /\ aux.setup.policy2 # "lfu" ->
             l.lru = [idle |-> IF e.idle <= Clock THEN e.idle ELSE ClockMax \div 2]
      [] OTHER -> l.lru = <<>>

Same(e, l) ==
    /\ l.val.type = e.val.type /\ l.expire = e.expire
    /\ l.val.content = Content(e.val.type, IF e.val.type = "list"
                                           THEN FlattenSeq([i \in DOMAIN e.val.v |-> e.val.v[i].elems])
                                           ELSE e.val.v)
    /\ SameMeta(e, l)

SameData ==
    /\ \A j \in DOMAIN aux.setup.dbs :
          LET d == aux.setup.dbs[j]
          IN /\ DOMAIN impl.dbs[j] = {d[i].key : i \in {k \in DOMAIN d : Kept(d[k])}}
             /\ \A i \in DOMAIN d : Kept(d[i]) => Same(d[i], impl.dbs[j][d[i].key])
    /\ aux.setup.rsi.on => /\ impl.rsi = [db |-> aux.setup.rsi.db, id |-> aux.setup.rsi.id,
                                          offset |-> aux.setup.rsi.offset]
                           /\ impl.scripts = ToSet(aux.setup.scripts)

(* A saved file loads, and gives the data set back: every key in its       *)
(* database with its value whatever the encodings of either server, its    *)
(* expire, its idle time or frequency, and the replication identity; only  *)
(* a master leaves out what has expired.                                   *)
RoundTrip ==
    /\ aux.whole => impl.status # "exit"
    /\ aux.whole /\ impl.status = "ok" => SameData

(* A file that was cut anywhere is never accepted, and one with a changed  *)
(* byte only if what was loaded is the same.                               *)
DamageNoticed == impl.status = "ok" => SameData /\ Len(file) = Len(rdbSaveRio)

(* The checker accepts exactly the files the server loads.                 *)
CheckerAgrees == impl.status \in {"ok", "exit"} => (redis_check_rdb <=> impl.status = "ok")

(* What was loaded in a compact encoding has no more elements than the     *)
(* loading server allows, nor longer ones unless it was compact before.    *)
CompactFits ==
    aux.whole => \A j \in DOMAIN impl.dbs : \A k \in DOMAIN impl.dbs[j] :
        LET o == impl.dbs[j][k].val
            strings == IF o.type = "hash" THEN {p[1] : p \in o.content} \cup {p[2] : p \in o.content}
                       ELSE IF o.type = "zset" THEN {p[1] : p \in o.content} ELSE {}
            before == {e \in ToSet(aux.setup.dbs[j]) : e.key = k}
        IN o.compact =>
             /\ Cardinality(o.content) <= IF o.type = "set" THEN aux.setup.maxint ELSE aux.setup.maxent
             /\ \A e \in before : e.val.enc \notin {"ziplist"} => \A s \in strings : Len(s) <= aux.setup.maxval
=============================================================================
