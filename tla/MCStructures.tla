---------------------------- MODULE MCStructures ----------------------------
(***************************************************************************)
(* The data structures, each on an instance of its own: "part" says which  *)
(* of them a behaviour is about.                                           *)
(***************************************************************************)
EXTENDS Integers, Sequences, FiniteSets

VARIABLES part, impl, ref, aux

vars == <<part, impl, ref, aux>>

----------------------------------------------------------------------------
RaxKeys == {<<>>, <<1, 1, 2>>, <<1, 1, 2, 1>>, <<1, 2, 1>>, <<2, 2>>}
RaxProbes == RaxKeys \cup {<<1>>, <<2>>, <<1, 2>>, <<1, 1, 1>>, <<2, 1, 1>>, <<1, 1, 2, 2>>,
                           <<2, 2, 2>>, <<1, 2, 2>>, <<1, 3>>}

\* The default fill factor counts bytes; a positive one counts entries.
ListConfigs == {[fill |-> 2, compress |-> 1, queue |-> TRUE],
                [fill |-> 1, compress |-> 2, queue |-> FALSE],
                [fill |-> -3, compress |-> 0, queue |-> FALSE]}

Num(n) == [int |-> TRUE, n |-> n]
Str(n) == [int |-> FALSE, n |-> n]
LpWide(hi, n) == [int |-> TRUE, hi |-> hi, n |-> n]
LpNum(n) == LpWide(n \div 2 ^ 24, n % 2 ^ 24)
LpStr(n) == [int |-> FALSE, hi |-> 0, n |-> n]

\* Strings around the 254 bytes at which a length field grows, and integers
\* around the ends of every encoding.
ZiplistSetups ==
  {[values |-> {Str(1), Str(250), Str(300)}, max |-> 5,
    merge |-> {<<Str(250)>>, <<Str(300), Str(250)>>}],
   [values |-> {Num(n) : n \in {0, 12, 13, -128, 128, 32767, -32769, 2 ^ 23 - 1}}
                 \cup {Str(16384), Str(63)},
    max |-> 2, merge |-> {}]}
ListpackSetups ==
  {[values |-> {LpNum(n) : n \in {0, 127, 128, -1, -4096, 4096, -32768, -32769, 8388607, -8388609}}
                 \cup {LpWide(hi, n) : hi \in {-129, -128, 127, 128}, n \in {0, 2 ^ 24 - 1}}
                 \cup {LpStr(n) : n \in {0, 63, 64, 124, 125, 4095, 4096, 16377, 16378, 16379,
                                       268435449, 268435450}},
    max |-> 2],
   [values |-> {LpStr(1), LpNum(-1), LpStr(126)}, max |-> 5]}

D == INSTANCE Dict WITH Keys <- {0, 2, 6}, Width <- 3, InitialSize <- 1, ForceRatio <- 2,
                        EmptyVisits <- 2, MinFill <- 50
X == INSTANCE Rax WITH Keys <- RaxKeys, Probes <- RaxProbes, Values <- {"v", "w"}, NodeMax <- 10
Z == INSTANCE SortedSet WITH Eles <- {1, 2, 3}, Long <- {2}, Scores <- {0, 1, 2}, MaxLevel <- 2,
                             MaxEntries <- 2, Other <- [e \in {1, 2} |-> 1]
Q == INSTANCE Quicklist WITH Values <- {"a", "b"}, Dense <- {"b"}, Configs <- ListConfigs,
                             MaxLen <- 4
L == INSTANCE Ziplist WITH LenMax <- 4, Setups <- ZiplistSetups
S == INSTANCE SetType WITH SetKeys <- {"a", "b"}, Ints <- {-9, 3, 300}, Words <- {0},
                           UnitBits <- 4, MaxIntset <- 2
H == INSTANCE HashType WITH Fields <- {"f", "g"}, LongFields <- {"lf"}, Texts <- {0},
                            MaxEntries <- 2, MaxInt <- 2
P == INSTANCE Listpack WITH NumUnknown <- 4, MaxBytes <- 2 ^ 29, LongBits <- 48, Setups <- ListpackSetups

Init ==
  \/ part = "dict"      /\ D!Init /\ ref = {}
  \/ part = "rax"       /\ X!Init /\ ref = {}
  \/ part = "zset"      /\ Z!Init
  \/ part = "quicklist" /\ Q!Init
  \/ part = "ziplist"   /\ L!Init
  \/ part = "set"       /\ S!Init
  \/ part = "hash"      /\ H!Init
  \/ part = "listpack"  /\ P!Init

Next ==
  /\ UNCHANGED part
  /\ \/ part = "dict"      /\ D!Next /\ UNCHANGED ref
     \/ part = "rax"       /\ X!Next /\ UNCHANGED ref
     \/ part = "zset"      /\ Z!Next
     \/ part = "quicklist" /\ Q!Next
     \/ part = "ziplist"   /\ L!Next
     \/ part = "set"       /\ S!Next
     \/ part = "hash"      /\ H!Next
     \/ part = "listpack"  /\ P!Next

Spec == Init /\ [][Next]_vars

----------------------------------------------------------------------------
DictMap ==
  INSTANCE AbstractMap WITH
    Keys <- {0, 2, 6}, Absent <- "out",
    map <- [k \in {0, 2, 6} |-> IF part = "dict" /\ k \in D!Held THEN "in" ELSE "out"]
RaxMap ==
  INSTANCE AbstractMap WITH
    Keys <- RaxKeys, Absent <- "none",
    map <- [k \in RaxKeys |-> IF part = "rax" THEN X!Find(impl.node, k) ELSE "none"]

\* What the calls of dict.c do to the map: every one but dictAdd, dictDelete and
\* dictEmpty leaves it as it is.
DictCall ==
  /\ \A k \in {0, 2, 6} : (D!Add(k) => DictMap!Put(k, "in")) /\ (D!Delete(k) => DictMap!Remove(k))
  /\ D!Empty => DictMap!Clear
  /\ DictMap!Keep \/ D!Empty \/ \E k \in {0, 2, 6} : D!Add(k) \/ D!Delete(k)

\* And those of rax.c: raxInsert, raxTryInsert and raxRemove.
RaxCall ==
  \A k \in RaxKeys :
    /\ X!Del(k) => RaxMap!Remove(k)
    /\ \A v \in {"v", "w"} : /\ X!Add(k, v, TRUE) => RaxMap!Put(k, v)
                             /\ X!Add(k, v, FALSE) => RaxMap!PutNew(k, v)

\* dict.c and rax.c implement a map, each call as AbstractMap says of it: adding,
\* finding, resizing, rehashing and iterating never lose, change or bring back the
\* entry of another key, and an insertion or removal that splits and merges the
\* nodes of a radix tree changes the value of its key and of no other.
TablesAreMaps ==
  /\ DictMap!Init /\ RaxMap!Init
  /\ [][(part = "dict" => DictCall) /\ (part = "rax" => RaxCall)]_vars

\* Every structure is well formed in memory after any sequence of operations: the
\* chains and counters of a hash table (Dict!Coherent), the nodes of a radix tree
\* (Rax!TreeShape), spans and backward pointers of a skip list
\* (SortedSet!SkiplistSound), the lengths an entry keeps of its neighbours and of
\* itself (Ziplist!BlockSound, Listpack!BothWays), the order of an integer set and
\* the pairs of a ziplist that stands for a hash or a sorted set.
LayoutSound ==
  CASE part = "dict"      -> D!Coherent
    [] part = "rax"       -> X!TreeShape
    [] part = "zset"      -> Z!ZiplistSound /\ Z!SkiplistSound
    [] part = "quicklist" -> Q!QueueEndsOpen
    [] part = "ziplist"   -> L!BlockSound
    [] part = "set"       -> S!IntsetSorted
    [] part = "hash"      -> H!ZiplistPaired
    [] part = "listpack"  -> P!BothWays

\* And it answers as the value it stands for, in every encoding: SCAN and safe
\* iterators while the table is resized (Dict!ScanComplete, Dict!IterationExact),
\* seeking in a radix tree (Rax!SeekExact), ranks and ranges (SortedSet!QueriesExact),
\* the elements of lists and ziplists (Quicklist!ListExact, Ziplist!ValuesKept),
\* set algebra and what is propagated of sets and hashes (SetType!AlgebraExact,
\* SetType!ReplicaSets, HashType!ReplicaHash), positions (Listpack!SeekExact).
AnswersExact ==
  CASE part = "dict"      -> D!ScanComplete /\ D!IterationExact
    [] part = "rax"       -> X!SeekExact
    [] part = "zset"      -> Z!QueriesExact
    [] part = "quicklist" -> Q!ListExact
    [] part = "ziplist"   -> L!ValuesKept
    [] part = "set"       -> S!ReplicaSets /\ S!AlgebraExact
    [] part = "hash"      -> H!ReplicaHash
    [] part = "listpack"  -> P!SeekExact
=============================================================================
