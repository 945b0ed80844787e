------------------------------ MODULE MCValues ------------------------------
(***************************************************************************)
(* The values with their own encodings (streams, HyperLogLogs, bit fields), *)
(* the protocol, the snapshot file and the configuration file, each on an   *)
(* instance of its own: "part" says which a behaviour is about.             *)
(***************************************************************************)
EXTENDS Integers, Sequences, FiniteSets, SequencesExt

VARIABLES part, impl, ref, aux

vars == <<part, impl, ref, aux>>

(* Streams. *)

F1 == <<<<11, 21>>>>
F2 == <<<<12, 22>>, <<11, 23>>>>
Add(id, now, fields, maxlen, approx) ==
  [cmd |-> "XADD", id |-> id, now |-> now, fields |-> fields, maxlen |-> maxlen, approx |-> approx]
Claim(c, ids, young, force, justid, lastid) ==
  [cmd |-> "XCLAIM", g |-> "g", c |-> c, ids |-> ids, young |-> young, retry |-> -1,
   force |-> force, justid |-> justid, lastid |-> lastid]
ReadGroup(c, id, noack, count) ==
  [cmd |-> "XREADGROUP", g |-> "g", c |-> c, id |-> id, noack |-> noack, count |-> count]
Reader(g, c, noack, gt) ==
  [g |-> g, c |-> c, noack |-> noack, gt |-> gt, count |-> 2, top |-> <<0, 0>>]
NoID == <<-1, 0>>
Dollar == <<-2, 0>>
StoreSetup == [steps |-> 6, readers |-> {},
  cmds |-> {Add(NoID, 1, F1, -1, FALSE), Add(NoID, 2, F2, -1, FALSE), Add(<<1, 0>>, 0, F2, -1, FALSE),
            Add(<<2, 2>>, 0, F1, 2, TRUE), Add(NoID, 1, F2, 1, FALSE)}
    \cup {[cmd |-> "XDEL", id |-> id] : id \in {<<1, 0>>, <<1, 1>>, <<2, 0>>, <<2, 3>>}}
    \cup {[cmd |-> "XTRIM", maxlen |-> 2, approx |-> a] : a \in BOOLEAN}
    \cup {[cmd |-> "XTRIM", maxlen |-> 0, approx |-> FALSE]}
    \cup {[cmd |-> "XSETID", id |-> id] : id \in {<<1, 1>>, <<2, 1>>}}]
GroupSetup == [steps |-> 6,
  readers |-> {Reader("none", "", FALSE, <<1, 0>>), Reader("g", "c", FALSE, NoID), Reader("g", "d", TRUE, NoID)},
  cmds |-> {Add(<<1, 0>>, 0, F1, -1, FALSE), Add(<<2, 0>>, 0, F1, -1, FALSE), Add(<<3, 0>>, 0, F1, 1, FALSE)}
    \cup {[cmd |-> "XDEL", id |-> <<1, 0>>]}
    \cup {[cmd |-> "CREATE", g |-> "g", id |-> Dollar, mkstream |-> TRUE],
          [cmd |-> "CREATE", g |-> "g", id |-> <<0, 0>>, mkstream |-> FALSE],
          [cmd |-> "SETID", g |-> "g", id |-> <<0, 0>>], [cmd |-> "SETID", g |-> "g", id |-> Dollar],
          [cmd |-> "DESTROY", g |-> "g"], [cmd |-> "DELCONSUMER", g |-> "g", c |-> "c"]}
    \cup {[cmd |-> "XACK", g |-> "g", id |-> <<1, 0>>]}
    \cup {ReadGroup("c", NoID, FALSE, 1), ReadGroup("d", NoID, FALSE, 0), ReadGroup("d", NoID, TRUE, 0), ReadGroup("c", <<0, 0>>, FALSE, 0)}
    \cup {Claim("d", <<<<1, 0>>, <<2, 0>>>>, {<<2, 0>>}, FALSE, FALSE, <<0, 0>>),
          Claim("c", <<<<1, 0>>>>, {}, TRUE, TRUE, <<2, 0>>)}]

T == INSTANCE Stream WITH SeqMax <- 9, NodeMax <- 1,
                          Setups <- [store |-> StoreSetup, group |-> GroupSetup]

(* Requests, cut anywhere. *)

RA == <<"a", 0>>
RB == <<"b", 0>>
NL == <<<<"cr", 0>>, <<"lf", 0>>>>
Bulk(p) == <<<<"$", Len(p)>>>> \o NL \o p \o NL
Cmd(args) == <<<<"*", Len(args)>>>> \o NL \o FlattenSeq([i \in DOMAIN args |-> Bulk(args[i])])
Lines == <<RA, <<"sp", 0>>, RA>> \o NL
MultiC == Cmd(<<<<<<"multi", 0>>>>>>)
ExecC == Cmd(<<<<<<"exec", 0>>>>>>)
Conversations == {
  Cmd(<<<<RA>>>>) \o <<RA, RA, RA, RA, RA, RA, RA, RA, RA, RA>> \o NL,
  Cmd(<<<<RB>>>>) \o Cmd(<<<<RA>>>>) \o Cmd(<<<<RA>>>>) \o Cmd(<<<<RA>>>>),
  Cmd(<<<<RA>>, <<RA, <<"cr", 0>>, <<"lf", 0>>, <<"$", 1>>>>>>) \o Cmd(<<<<RB>>>>) \o Cmd(<<<<RA>>, <<>>>>),
  Cmd(<<<<RA, RA, RA>>>>) \o Cmd(<<<<RA, RA, RA, RA>>, <<RA>>>>) \o NL \o Cmd(<<<<RA>>>>),
  MultiC \o Cmd(<<<<RB>>>>) \o ExecC \o Cmd(<<<<RA, RA, RA>>>>),
  Lines \o <<<<"lf", 0>>>> \o Cmd(<<<<RB>>>>) \o <<<<"*", 0>>>> \o NL \o Lines,
  Cmd(<<<<RA>>>>) \o <<<<"*", 1>>>> \o NL \o <<RA>> \o NL \o Cmd(<<<<RA>>>>),
  Cmd(<<<<RA>>>>) \o <<<<"*", 9>>>> \o NL \o Cmd(<<<<RA>>>>),
  Cmd(<<<<RA>>>>) \o <<<<"*", 1>>>> \o NL \o <<<<"$", 9>>>> \o NL \o Cmd(<<<<RA>>>>)}

R == INSTANCE Resp WITH Streams <- Conversations, BigArg <- 3, IoBuf <- 4, MaxBulk <- 8,
                        MaxMulti <- 4, InlineMax <- 8, MaxQuery <- 20

(* Snapshot files: every kind of value, and files that were damaged. *)

RdbLib == INSTANCE Rdb WITH Low <- 8, IntChars <- 6, LzfMin <- 6, Setups <- <<>>

Plain == [compress |-> TRUE, policy |-> "none", policy2 |-> "none", sum |-> TRUE, verify |-> TRUE, replica |-> FALSE,
          now |-> 5, maxint |-> 2, maxent |-> 2, maxval |-> 2, cut |-> FALSE, flip |-> FALSE, scripts |-> <<>>,
          rsi |-> [on |-> FALSE, db |-> 0, id |-> <<>>, offset |-> 0]]
Entry(k, t, e, v) == [key |-> k, val |-> [type |-> t, enc |-> e, v |-> v], expire |-> -1, idle |-> 1, freq |-> 3]
File(dbs) == Plain @@ [dbs |-> dbs]
KeyA == <<14>>
KeyB == <<15>>
N5 == <<5>>
Long3 == <<14, 15, 16>>
Run9 == [i \in 1 .. 9 |-> 14]
OneString(s) == File(<< <<Entry(KeyA, "string", "raw", s)>> >>)
Chars == <<0, 1, 2, 4, 5, 14>>
Char(n) == Chars[(n % 6) + 1]
Strings == << <<>> >> \o [n \in 1 .. 6 |-> <<Char(n)>>] \o [n \in 1 .. 36 |-> <<Char(n), Char(n \div 6)>>]
          \o [n \in 1 .. 216 |-> <<Char(n), Char(n \div 6), Char(n \div 36)>>]
Bounds == <<-16385, -16384, -513, -512, -17, -16, -1, 0, 15, 16, 511, 512, 16383, 16384, 99999>>
Nums == [i \in DOMAIN Bounds |-> RdbLib!ll2string(Bounds[i])]
Lengths == <<7, 8, 255, 256, 1023, 1024>>
Lens == [j \in DOMAIN Lengths |-> [i \in 1 .. Lengths[j] |-> IF i % 2 = 0 THEN 14 ELSE 15]]
Tab(t, e, v) == File(<< <<Entry(KeyA, t, e, v), Entry(KeyB, "string", "raw", N5)>> >>)
Pair == << <<KeyA, KeyB>> >>
Pairs3 == << <<KeyA, KeyB>>, <<N5, KeyA>>, <<KeyB, N5>> >>
LongPair == << <<KeyA, Long3>> >>
Z1 == << <<KeyA, 3>> >>
Z3 == << <<KeyA, 3>>, <<KeyB, 4>>, <<N5, 7>> >>
ZL == << <<Long3, 3>> >>
L1 == << [elems |-> <<KeyA, KeyB>>, lzf |-> FALSE], [elems |-> <<[i \in 1 .. 1 |-> 1], <<1>>>>, lzf |-> TRUE] >>
StreamValue == << << <<KeyA, Long3>>, <<KeyB, Run9>> >>, 9, 3, 300,
         << <<KeyA, 2, 1, << <<7, 8, 1>>, <<9, 8, 2>> >>, << <<KeyB, 6, <<9>>>>, <<KeyA, 6, <<7>>>> >> >>,
            <<KeyB, 0, 0, <<>>, <<>> >> >> >>
Tables == <<Tab("list", "quicklist", L1), Tab("stream", "stream", StreamValue), Tab("stream", "stream", << <<>>, 0, 0, 0, <<>> >>),
            Tab("set", "intset", <<N5, <<6>>>>), Tab("set", "intset", <<N5, <<6>>, <<7>>>>), Tab("set", "ht", <<N5, KeyA>>),
            Tab("set", "ht", <<N5, <<6>>>>), Tab("set", "ht", <<N5, KeyA, KeyB>>),
            Tab("hash", "ht", Pair), Tab("hash", "ht", Pairs3), Tab("hash", "ht", LongPair),
            Tab("hash", "ziplist", Pair), Tab("hash", "ziplist", Pairs3), Tab("hash", "ziplist", LongPair),
            Tab("zset", "skiplist", Z1), Tab("zset", "skiplist", Z3), Tab("zset", "skiplist", ZL),
            Tab("zset", "ziplist", Z1), Tab("zset", "ziplist", Z3), Tab("zset", "ziplist", ZL)>>
Expiring(e, t) == [e EXCEPT !.expire = t]
Whole == << <<Expiring(Entry(KeyA, "string", "raw", N5), 3), Expiring(Entry(KeyB, "string", "raw", Run9), 9), Entry(N5, "hash", "ht", Pair)>>,
            <<>>, <<Entry(KeyA, "set", "ht", <<N5, KeyA>>), Expiring(Entry(Long3, "string", "raw", KeyA), 7)>> >>
Rsi == [on |-> TRUE, db |-> 2, id |-> <<14, 5>>, offset |-> 300]
WholeFile == [File(Whole) EXCEPT !.rsi = Rsi, !.scripts = <<Long3, Run9>>]
Seqd(S) == FoldSet(LAMBDA x, acc : Append(acc, x), <<>>, S)
Each(seq, F(_)) == [i \in DOMAIN seq |-> F(seq[i])]
Meta == Each(Seqd({"none", "lru", "lfu"} \X {"none", "lru", "lfu"} \X BOOLEAN \X BOOLEAN),
             LAMBDA x : [WholeFile EXCEPT !.policy = x[1], !.policy2 = x[2], !.replica = x[3], !.sum = x[4]])
Hurt(x) == [x EXCEPT !.cut = TRUE, !.flip = TRUE]
RdbSetups == Each(Strings \o Nums \o Lens, OneString)
         \o Tables \o Each(Tables, LAMBDA t : [t EXCEPT !.compress = FALSE]) \o Meta
         \o Each(Tables, Hurt) \o <<Hurt([WholeFile EXCEPT !.policy = "lru"]), Hurt(OneString(N5)),
              [File(<< <<[Entry(KeyA, "string", "raw", N5) EXCEPT !.idle = 7]>> >>) EXCEPT !.policy = "lru"]>>

F == INSTANCE Rdb WITH Low <- 8, IntChars <- 6, LzfMin <- 6, Setups <- RdbSetups

(* Configuration files. *)

Cf == INSTANCE Config WITH KB <- 2, Setups <- <<>>

NoConfig == [options |-> <<>>, nums |-> {}, passwords |-> {}, names |-> {}, saves |-> {},
         obufs |-> {}, masters |-> {}, kills |-> 0, sets |-> 3, edits |-> 0, edited |-> <<>>, file |-> <<>>]

ConfigSetups == <<
  [NoConfig EXCEPT
    !.file = <<Cf!Comment("top"), Cf!Option("save", <<Cf!Number(3), Cf!Number(1)>>),
               Cf!Option("save", <<Cf!Number(9), Cf!Number(2)>>), Cf!Blank,
               Cf!Option("slave-priority", <<Cf!Number(1)>>), Cf!Comment("memory"),
               Cf!Option("maxmemory", <<Cf!Number(2)>>), Cf!Option("maxmemory", <<Cf!Number(5)>>),
               Cf!Option("rename-command", <<Cf!Words(<<"keys">>), Cf!Words(<<"k">>)>>)>>,
    !.nums = {<<"maxmemory", 4>>, <<"maxmemory", 0>>, <<"replica-priority", 2>>,
              <<"repl-timeout", 0>>, <<"repl-timeout", 1>>},
    !.saves = {<<>>, << <<5, 0>> >>, << <<0, 1>> >>,
               << <<1, 1>>, <<2, 2>>, <<3, 3>> >>},
    !.kills = 1],
  [NoConfig EXCEPT
    !.file = <<Cf!Option("client-output-buffer-limit",
                 <<Cf!Words(<<"pubsub">>), Cf!Number(6), Cf!Number(2), Cf!Number(1)>>),
               Cf!Option("slaveof", <<Cf!Words(<<"h1">>), Cf!Number(1)>>),
               Cf!Comment("auth"), Cf!Option("requirepass", <<Cf!Words(<<"x">>)>>), Cf!Signature,
               Cf!Option("bind", <<Cf!Words(<<"a1">>), Cf!Words(<<"a2">>)>>)>>,
    !.options = <<Cf!Option("dbfilename", <<Cf!Words(<<"other.rdb">>)>>)>>,
    !.obufs = {<<"normal", <<2, 1, 1>> >>, <<"pubsub", <<4, 2, 1>> >>, <<"replica", <<3, 3, 3>> >>},
    !.passwords = {<<>>, <<"two", "words">>},
    !.names = {<<"dump.rdb">>},
    !.masters = {Cf!NoMaster, "h2"},
    !.kills = 1],
  [NoConfig EXCEPT
    !.file = <<Cf!Option("cluster-enabled", <<Cf!Words(<<"yes">>)>>), Cf!Blank,
               Cf!Option("maxmemory-policy", <<Cf!Words(<<"allkeys-lru">>)>>)>>,
    !.edited = <<Cf!Comment("new"), Cf!Option("cluster-enabled", <<Cf!Words(<<"yes">>)>>), Cf!Broken("oops"),
                 Cf!Option("appendonly", <<Cf!Words(<<"no">>)>>), Cf!Blank, Cf!Blank,
                 Cf!Option("replicaof", <<Cf!Words(<<"h1">>), Cf!Number(1)>>)>>,
    !.nums = {<<"appendonly", 1>>, <<"maxmemory-policy", 0>>, <<"cluster-node-timeout", 5>>,
              <<"cluster-node-timeout", 0>>},
    !.masters = {Cf!NoMaster, "h2"},
    !.kills = 1, !.edits = 1]
>>

C == INSTANCE Config WITH KB <- 2, Setups <- ConfigSetups

(* HyperLogLogs. *)

\* An element whose hash selects register r with a pattern of n bits.
Elem(r, n) == IF n = 3 + 1 THEN r ELSE r + 8 * 2 ^ (n - 1)

HllSetups == <<
  [keys |-> {"a"}, ops |-> 9, maxbytes |-> 8, merges |-> {},
   adds |-> {<<Elem(r, n)>> : r \in {0, 1, 2, 5, 7}, n \in 1..2} \cup {<<>>, <<Elem(3, 4)>>}],
  [keys |-> {"a", "b"}, ops |-> 6, maxbytes |-> 6, merges |-> {{"a"}, {"a", "b"}},
   adds |-> {<<Elem(r, n)>> : r \in {0, 3}, n \in 1..4}]
>>

H == INSTANCE Hyperloglog WITH HLL_P <- 3, HLL_Q <- 3, HLL_BITS <- 3, BYTE <- 4,
       ZERO_MAX_LEN <- 2, VAL_MAX_LEN <- 2, VAL_MAX_VALUE <- 3, Setups <- HllSetups

(* Bits and bit fields. *)

Field(opcode, sign, bits, offset, i64, owtype) ==
  [opcode |-> opcode, sign |-> sign, bits |-> bits, offset |-> offset, i64 |-> i64, owtype |-> owtype]

OverflowTypes == {"WRAP", "SAT", "FAIL"}

BitopsSetups == <<
  [db |-> ("a" :> <<>>), cmds |-> 3, offsets |-> {2, 8}, bitops |-> {}, ranges |-> {},
   fields |->
     {<<Field("INCRBY", sign, bits, offset, n, ow)>> :
        sign \in BOOLEAN, bits \in {1, 5}, offset \in {0, 2}, n \in {-32, -3, 31}, ow \in OverflowTypes}
     \cup {<<Field("SET", TRUE, bits, offset, n, ow), Field("GET", s, 5, 2, 0, "WRAP")>> :
        s \in BOOLEAN, bits \in {3, 5}, offset \in {2, 3}, n \in {-4, 5}, ow \in OverflowTypes}
     \cup {<<Field("SET", FALSE, 5, 2, n, ow), Field("GET", FALSE, 5, 5, 0, "WRAP")>> :
        n \in {21, -3}, ow \in OverflowTypes}],
  [db |-> ("a" :> <<1, 2, 3>> @@ "b" :> <<7, 1, 2, 4, 1>> @@ "c" :> <<>>), cmds |-> 3,
   offsets |-> {1, 8}, fields |-> {}, ranges |-> {-7, 1},
   bitops |-> {[op |-> op, dest |-> d, srcs |-> ss] : op \in {"and", "or", "xor"}, d \in {"a", "c"},
                 ss \in {<<"a", "b">>, <<"a", "b", "c">>}}
              \cup {[op |-> "not", dest |-> "b", srcs |-> <<"b">>]}],
  [db |-> ("a" :> <<0, 7, 0>>), cmds |-> 4, offsets |-> {0, 2, 3, 5, 8, 9, 13}, fields |-> {}, bitops |-> {},
   ranges |-> {-9, -7, -2, 0, 2, 6}]
>>

B == INSTANCE Bitops WITH BYTE <- 3, WORD <- 6, CHUNK <- 2, Setups <- BitopsSetups

----------------------------------------------------------------------------
Init ==
  \/ part = "stream" /\ T!Init
  \/ part = "resp"   /\ R!Init
  \/ part = "rdb"    /\ F!Init /\ ref = {}
  \/ part = "config" /\ C!Init /\ ref = {}
  \/ part = "hll"    /\ H!Init
  \/ part = "bits"   /\ B!Init

Next ==
  /\ UNCHANGED part
  /\ \/ part = "stream" /\ T!Next
     \/ part = "resp"   /\ R!Next
     \/ part = "rdb"    /\ F!Next /\ UNCHANGED ref
     \/ part = "config" /\ C!Next /\ UNCHANGED ref
     \/ part = "hll"    /\ H!Next
     \/ part = "bits"   /\ B!Next

Spec == Init /\ [][Next]_vars

----------------------------------------------------------------------------
\* Streams (t_stream.c, blocked.c, aof.c): ranges in both directions are those of
\* the list of entries, nodes count what they hold, a pending entry has one owner,
\* the commands propagated rebuild the stream on a replica and the rewritten ones
\* from the append only file, and no reader is left waiting for an entry that is
\* there (see the module's properties).
StreamExact ==
  part = "stream" => /\ T!RangesExact /\ T!NodesSound /\ T!PendingOwned
                     /\ T!ReplicaFollows /\ T!NoReaderLeftBehind /\ T!RewriteRebuilds

\* Requests (networking.c): wherever the bytes are cut, the commands executed are
\* those that were sent, and the offset acknowledged to a master never points into
\* a command or a transaction (Resp!CommandsExact, Resp!OffsetAtCommandEnd).
RequestsExact == part = "resp" => R!CommandsExact /\ R!OffsetAtCommandEnd

\* Snapshot files (rdb.c, redis-check-rdb.c): what is loaded is what was saved, in
\* an encoding within the limits, a damaged file is noticed, and the checker agrees
\* with the loader (Rdb!RoundTrip, DamageNoticed, CheckerAgrees, CompactFits).
SnapshotExact ==
  part = "rdb" => F!RoundTrip /\ F!DamageNoticed /\ F!CheckerAgrees /\ F!CompactFits

\* CONFIG REWRITE (config.c): the file keeps the lines it does not own, means what
\* the server is configured to, even when the rewrite is cut short by a crash,
\* unless an option has a value no file may hold, and rewriting it again changes
\* nothing but the output buffer limits (Config!KeepsForeign, Settles, Reloads,
\* ReloadsTorn).
RewriteExact ==
  [][part = "config" => C!KeepsForeign' /\ C!Settles /\ C!Reloads /\ C!ReloadsTorn]_vars

\* Values packed into the bits of a string.  The registers of a HyperLogLog are the
\* maxima of what was added, in the dense and in the sparse form, whose opcodes
\* tile the registers, and a cached count is never stale (hyperloglog.c).  BITOP,
\* BITCOUNT, BITPOS and BITFIELD do to the string what they say bit by bit
\* (bitops.c).
PackedExact ==
  /\ part = "hll" => H!RegistersExact /\ H!OpcodesFit /\ H!CacheExact
  /\ part = "bits" => B!BitsExact /\ B!FieldsExact /\ B!SearchExact
=============================================================================
