----------------------------- MODULE HashType ------------------------------
(* The hash type, t_hash.c: a hash is a ziplist of fields and values in    *)
(* turn, or a hash table (taken as the map dict.c implements).             *)
(*   impl = the hash object of one key, or Missing                         *)
(*   ref  = the fields and values a replica has that executes what the     *)
(*          commands propagate, each in its documented meaning             *)
(*   aux  = the reply of the last command and the one its arguments call   *)
(*          for on the replica                                             *)
EXTENDS Integers, Sequences, SequencesExt, FiniteSets, TLC

CONSTANTS Fields,       \* short fields
          LongFields,   \* fields longer than server.hash_max_ziplist_value
          Texts,        \* values that are not numbers, by number
          MaxEntries,   \* server.hash_max_ziplist_entries
          MaxInt        \* LLONG_MAX; LLONG_MIN is -MaxInt - 1

VARIABLES impl, ref, aux

vars == <<impl, ref, aux>>

Missing == [enc |-> "none"]
Num(n)  == [num |-> TRUE, n |-> n]
Text(t) == [num |-> FALSE, n |-> t]

AllFields == Fields \cup LongFields
Increments == {-MaxInt - 1, -1, 1, MaxInt}
Vals == {Text(t) : t \in Texts} \cup {Num(1)}
None == Num(0)

NoFields == [f \in {} |-> None]
Without(m, f) == [g \in DOMAIN m \ {f} |-> m[g]]

(***************************************************************************)
(* The two encodings.                                                      *)
(***************************************************************************)
\* ziplistFind from the first entry, skipping the values: 0 if there is none
FindField(zl, f) ==
    IF \E i \in DOMAIN zl : i % 2 = 1 /\ zl[i] = f
    THEN CHOOSE i \in DOMAIN zl : /\ i % 2 = 1 /\ zl[i] = f
                                  /\ \A j \in 1 .. i - 1 : j % 2 = 0 \/ zl[j] # f
    ELSE 0

\* hashTypeGetValue, hashTypeExists
Exists(o, f) ==
    CASE o.enc = "none" -> FALSE
      [] o.enc = "ziplist" -> FindField(o.zl, f) # 0
      [] o.enc = "ht" -> f \in DOMAIN o.map
GetValue(o, f) ==
    IF o.enc = "ziplist" THEN o.zl[FindField(o.zl, f) + 1] ELSE o.map[f]

\* hashTypeLength
HLen(o) ==
    CASE o.enc = "none" -> 0
      [] o.enc = "ziplist" -> Len(o.zl) \div 2
      [] o.enc = "ht" -> Cardinality(DOMAIN o.map)

\* hashTypeInitIterator and hashTypeNext: the pairs in the order of the walk
RECURSIVE Pairs(_)
Pairs(zl) == IF zl = <<>> THEN <<>>
             ELSE <<[f |-> zl[1], v |-> zl[2]]>> \o Pairs(SubSeq(zl, 3, Len(zl)))

\* hashTypeConvertZiplist
ConvertZiplist(o) ==
    [enc |-> "ht", map |-> FoldLeft(LAMBDA m, p : m @@ (p.f :> p.v), NoFields, Pairs(o.zl))]

\* hashTypeTryConversion: some argument is too long for a ziplist
TryConversion(o, long) == IF o.enc = "ziplist" /\ long THEN ConvertZiplist(o) ELSE o

\* hashTypeSet
Set(o, f, v) ==
    IF o.enc = "ht" THEN [o EXCEPT !.map = (f :> v) @@ @]
    ELSE LET i  == FindField(o.zl, f)
             zl == IF i # 0 THEN InsertAt(RemoveAt(o.zl, i + 1), i + 1, v)
                   ELSE o.zl \o <<f, v>>
             o1 == [o EXCEPT !.zl = zl]
         IN  IF HLen(o1) > MaxEntries THEN ConvertZiplist(o1) ELSE o1

\* hashTypeDelete
Delete(o, f) ==
    IF o.enc = "ht" THEN [o EXCEPT !.map = Without(@, f)]
    ELSE LET i == FindField(o.zl, f)
         IN  IF i = 0 THEN o ELSE [o EXCEPT !.zl = RemoveAt(RemoveAt(@, i), i)]

\* hashTypeLookupWriteOrCreate: a new hash is in the database at once
WriteOrCreate == IF impl = Missing THEN [enc |-> "ziplist", zl |-> <<>>] ELSE impl

(***************************************************************************)
(* Commands.                                                               *)
(***************************************************************************)
Init ==
    /\ impl = Missing
    /\ ref = NoFields
    /\ aux = [got |-> 0, want |-> 0]

Reply(got, want) == aux' = [got |-> got, want |-> want]

IsLong(f) == f \in LongFields
RefLen == Cardinality(DOMAIN ref)

\* hsetnxCommand
HSetNX ==
    \E f \in AllFields, v \in Vals :
        LET o == TryConversion(WriteOrCreate, IsLong(f))
        IN  IF Exists(o, f)
            THEN /\ impl' = o
                 /\ Reply(0, IF f \in DOMAIN ref THEN 0 ELSE 1)
                 /\ UNCHANGED ref
            ELSE /\ impl' = Set(o, f, v)
                 /\ ref' = (f :> v) @@ ref
                 /\ Reply(1, IF f \in DOMAIN ref THEN 0 ELSE 1)

\* hsetCommand with two pairs, whose fields may be the same
HSet ==
    \E f, g \in AllFields, v, w \in Vals :
        LET o  == TryConversion(WriteOrCreate, IsLong(f) \/ IsLong(g))
            o1 == Set(o, f, v)
        IN  /\ impl' = Set(o1, g, w)
            /\ ref' = (g :> w) @@ (f :> v) @@ ref
            /\ Reply((IF Exists(o, f) THEN 0 ELSE 1) + (IF Exists(o1, g) THEN 0 ELSE 1),
                     Cardinality({f, g} \ DOMAIN ref))

\* the test of hincrbyCommand on the sum
Overflows(a, b) ==
    \/ b < 0 /\ a < 0 /\ b < (-MaxInt - 1) - a
    \/ b > 0 /\ a > 0 /\ b > MaxInt - a

\* hincrbyCommand: an error leaves the hash as it was
HIncrBy ==
    \E f \in AllFields, n \in Increments :
        LET o   == WriteOrCreate
            old == IF Exists(o, f) THEN GetValue(o, f) ELSE None
            ok  == old.num /\ ~Overflows(old.n, n)
            was == IF f \in DOMAIN ref THEN ref[f] ELSE None
        IN  /\ impl' = IF ok THEN Set(o, f, Num(old.n + n)) ELSE o
            /\ ref' = IF ok THEN (f :> Num(was.n + n)) @@ ref ELSE ref
            /\ Reply(ok, was.num /\ was.n + n \in -MaxInt - 1 .. MaxInt)

\* hincrbyfloatCommand with a finite increment, propagated as HSET of the sum
HIncrByFloat ==
    \E f \in AllFields :
        LET o   == WriteOrCreate
            old == IF Exists(o, f) THEN GetValue(o, f) ELSE None
            ok  == old.num /\ old.n < MaxInt
        IN  /\ ~old.num \/ old.n < MaxInt
            /\ impl' = IF ok THEN Set(o, f, Num(old.n + 1)) ELSE o
            /\ ref' = IF ok THEN (f :> Num(old.n + 1)) @@ ref ELSE ref
            /\ Reply(0, 0)

\* hincrbyfloatCommand with an infinite increment, which is refused only
\* after the hash has been created
HIncrByInfinity ==
    /\ impl' = WriteOrCreate
    /\ Reply(0, 0)
    /\ UNCHANGED ref

\* hdelCommand with two fields
HDel ==
    \E f, g \in AllFields :
        LET o1 == Delete(impl, f)
            o2 == IF HLen(o1) = 0 /\ HLen(impl) > 0 THEN o1 ELSE Delete(o1, g)
        IN  /\ impl # Missing
            /\ impl' = IF HLen(o2) = 0 /\ HLen(impl) > 0 THEN Missing ELSE o2
            /\ ref' = Without(Without(ref, f), g)
            /\ Reply(HLen(impl) - HLen(o2), Cardinality({f, g} \cap DOMAIN ref))

Next == HSetNX \/ HSet \/ HIncrBy \/ HIncrByFloat \/ HIncrByInfinity \/ HDel
Spec == Init /\ [][Next]_vars

(***************************************************************************)
(* Properties.                                                             *)
(***************************************************************************)
Contents(o) ==
    CASE o.enc = "none" -> NoFields
      [] o.enc = "ziplist" -> [f \in {p.f : p \in ToSet(Pairs(o.zl))} |-> GetValue(o, f)]
      [] o.enc = "ht" -> o.map

\* A replica fed with what the hash commands propagate has the same fields and
\* values as the master, through the change of encoding, the failed and the
\* rewritten increments, and commands that name a field twice; the replies
\* count the fields really created and removed.
ReplicaHash ==
    /\ Contents(impl) = ref
    /\ HLen(impl) = RefLen
    /\ aux.got = aux.want

\* A ziplist never holds more than hash-max-ziplist-entries fields, holds each
\* field once, and pairs every field with a value: what FindField, the walk of
\* the pairs and the conversion (which panics on a duplicate) rely on.
ZiplistPaired ==
    impl.enc = "ziplist" =>
        /\ HLen(impl) <= MaxEntries
        /\ Len(impl.zl) % 2 = 0
        /\ Cardinality({impl.zl[i] : i \in {j \in DOMAIN impl.zl : j % 2 = 1}}) = HLen(impl)

=============================================================================
