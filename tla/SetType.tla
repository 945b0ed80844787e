------------------------------ MODULE SetType ------------------------------
(* The set type: intset.c, with the memory of an integer set as the array  *)
(* of units its values are packed in, and the commands of t_set.c, which   *)
(* switch a key between an intset and a hash table and rewrite what they   *)
(* propagate.  A unit stands for the 16 bits of INTSET_ENC_INT16.          *)
(*   impl = the database: key -> set object, or Missing                    *)
(*   ref  = the database of a replica that executes what is propagated,    *)
(*          with each command in its documented meaning: key -> set        *)
(*   aux  = not used                                                       *)
EXTENDS Integers, Sequences, SequencesExt, FiniteSets, FiniteSetsExt

CONSTANTS SetKeys,          \* the keys
          Ints,             \* the elements that are integers
          Words,            \* the other elements
          UnitBits,         \* the width of a unit, 16 in the code
          MaxIntset         \* server.set_max_intset_entries

VARIABLES impl, ref, aux

vars == <<impl, ref, aux>>

Num(n)   == [int |-> TRUE, n |-> n]
Word(n)  == [int |-> FALSE, n |-> n]
Elements == {Num(n) : n \in Ints} \cup {Word(n) : n \in Words}

(***************************************************************************)
(* intset.c                                                                *)
(***************************************************************************)
Base == 2 ^ UnitBits
Fits(v, w) == v >= -(2 ^ (w * UnitBits - 1)) /\ v < 2 ^ (w * UnitBits - 1)

\* _intsetValueEncoding, in units: 1, 2 or 4
ValueEncoding(v) == IF ~Fits(v, 2) THEN 4 ELSE IF ~Fits(v, 1) THEN 2 ELSE 1

\* _intsetGetEncoded: the value of the w units at position pos (from 0)
RECURSIVE Unsigned(_, _, _)
Unsigned(mem, at, w) == IF w = 0 THEN 0 ELSE mem[at] + Base * Unsigned(mem, at + 1, w - 1)
GetEncoded(mem, pos, w) ==
    LET u == Unsigned(mem, pos * w + 1, w)
    IN  IF u >= 2 ^ (w * UnitBits - 1) THEN u - 2 ^ (w * UnitBits) ELSE u

Get(is, pos) == GetEncoded(is.mem, pos, is.width)

\* memory with the units s written from position at + 1 on
Overwrite(mem, at, s) == SubSeq(mem, 1, at) \o s \o SubSeq(mem, at + Len(s) + 1, Len(mem))

\* _intsetSet, which keeps the low bits of the value
Put(is, pos, v) ==
    LET u == v % 2 ^ (is.width * UnitBits)
        s == [i \in 1 .. is.width |-> (u \div Base ^ (i - 1)) % Base]
    IN  [is EXCEPT !.mem = Overwrite(@, pos * is.width, s)]

IntsetNew == [enc |-> "intset", width |-> 1, len |-> 0, mem |-> <<>>]

\* intsetResize: new units hold whatever the allocator left there
Resize(is, len) ==
    LET n == len * is.width
    IN  [is EXCEPT !.mem = IF n <= Len(@) THEN SubSeq(@, 1, n)
                           ELSE @ \o [i \in 1 .. n - Len(@) |-> 0]]

\* intsetSearch: <<found, position>>
RECURSIVE Bisect(_, _, _, _)
Bisect(is, v, min, max) ==
    LET mid == (min + max) \div 2
        cur == Get(is, mid)
    IN  IF max < min THEN <<FALSE, min>>
        ELSE IF v > cur THEN Bisect(is, v, mid + 1, max)
        ELSE IF v < cur THEN Bisect(is, v, min, mid - 1)
        ELSE <<TRUE, mid>>

Search(is, v) ==
    IF is.len = 0 THEN <<FALSE, 0>>
    ELSE IF v > Get(is, is.len - 1) THEN <<FALSE, is.len>>
    ELSE IF v < Get(is, 0) THEN <<FALSE, 0>>
    ELSE Bisect(is, v, 0, is.len - 1)

IntsetFind(is, v) == ValueEncoding(v) <= is.width /\ Search(is, v)[1]

\* intsetUpgradeAndAdd moves the values, last one first, inside the same memory
RECURSIVE Widen(_, _, _, _)
Widen(is, n, prepend, old) ==
    IF n = 0 THEN is
    ELSE Widen(Put(is, n - 1 + prepend, GetEncoded(is.mem, n - 1, old)), n - 1, prepend, old)

UpgradeAndAdd(is, v) ==
    LET prepend == IF v < 0 THEN 1 ELSE 0
        wide    == Resize([is EXCEPT !.width = ValueEncoding(v)], is.len + 1)
        moved   == Widen(wide, is.len, prepend, is.width)
    IN  [Put(moved, IF v < 0 THEN 0 ELSE is.len, v) EXCEPT !.len = @ + 1]

\* intsetMoveTail: memmove of everything from one position to another
MoveTail(is, from, to) ==
    LET w == is.width
    IN  [is EXCEPT !.mem = Overwrite(@, to * w, SubSeq(is.mem, from * w + 1, is.len * w))]

\* intsetAdd: <<added, set>>
IntsetAdd(is, v) ==
    LET Moved(grown, pos) == IF pos < is.len THEN MoveTail(grown, pos, pos + 1) ELSE grown
        At(found) ==
            IF found[1] THEN <<FALSE, is>>
            ELSE <<TRUE, [Put(Moved(Resize(is, is.len + 1), found[2]), found[2], v)
                            EXCEPT !.len = @ + 1]>>
    IN  IF ValueEncoding(v) > is.width THEN <<TRUE, UpgradeAndAdd(is, v)>>
        ELSE At(Search(is, v))

\* intsetRemove
IntsetRemove(is, v) ==
    LET Moved(pos) == IF pos < is.len - 1 THEN MoveTail(is, pos + 1, pos) ELSE is
        At(found) ==
            IF ~found[1] THEN <<FALSE, is>>
            ELSE <<TRUE, [Resize(Moved(found[2]), is.len - 1) EXCEPT !.len = @ - 1]>>
    IN  IF ValueEncoding(v) > is.width THEN <<FALSE, is>> ELSE At(Search(is, v))

(***************************************************************************)
(* The set object: an intset, or a hash table, taken as the set dict.c     *)
(* implements.                                                             *)
(***************************************************************************)
Missing == [enc |-> "none"]
Hash(S) == [enc |-> "ht", els |-> S]

Elems(o) ==
    CASE o.enc = "none"   -> {}
      [] o.enc = "intset" -> {Num(Get(o, i)) : i \in 0 .. o.len - 1}
      [] o.enc = "ht"     -> o.els

\* setTypeSize, setTypeIsMember, setTypeCreate, setTypeConvert
SetSize(o) ==
    CASE o.enc = "none" -> 0 [] o.enc = "intset" -> o.len [] o.enc = "ht" -> Cardinality(o.els)
IsMember(o, e) ==
    IF o.enc = "ht" THEN e \in o.els ELSE e.int /\ IntsetFind(o, e.n)
Create(e) == IF e.int THEN IntsetNew ELSE Hash({})
Convert(o) == Hash(Elems(o))

\* setTypeAdd: <<added, object>>
SetAdd(o, e) ==
    LET Limited(r) == IF r[1] /\ r[2].len > MaxIntset THEN <<TRUE, Convert(r[2])>> ELSE r
    IN  IF o.enc = "ht" THEN <<e \notin o.els, Hash(o.els \cup {e})>>
        ELSE IF ~e.int THEN <<TRUE, Hash(Convert(o).els \cup {e})>>
        ELSE Limited(IntsetAdd(o, e.n))

\* setTypeRemove: <<removed, object>>
SetRemove(o, e) ==
    IF o.enc = "ht" THEN <<e \in o.els, Hash(o.els \ {e})>>
    ELSE IF e.int THEN IntsetRemove(o, e.n) ELSE <<FALSE, o>>

AddAll(o, S)    == FoldSet(LAMBDA e, x : SetAdd(x, e)[2], o, S)
RemoveAll(o, S) == FoldSet(LAMBDA e, x : SetRemove(x, e)[2], o, S)

Kept(o) == IF SetSize(o) = 0 THEN Missing ELSE o

(***************************************************************************)
(* The set operations of sinterGenericCommand and sunionDiffGenericCommand *)
(***************************************************************************)
\* the smallest set is walked, and an element is kept if every other has it
Inter(ks) ==
    LET sets == [i \in DOMAIN ks |-> impl[ks[i]]]
        least == CHOOSE i \in DOMAIN sets :
                    /\ \A j \in DOMAIN sets : SetSize(sets[i]) <= SetSize(sets[j])
                    /\ \A j \in 1 .. i - 1 : SetSize(sets[j]) > SetSize(sets[i])
        keep(e) == \A j \in DOMAIN sets : ks[j] = ks[least] \/ IsMember(sets[j], e)
    IN  IF \E i \in DOMAIN sets : sets[i] = Missing THEN Missing
        ELSE AddAll(IntsetNew, {e \in Elems(sets[least]) : keep(e)})

Union(ks) ==
    FoldLeft(LAMBDA o, k : AddAll(o, Elems(impl[k])), IntsetNew, ks)

\* the element by element algorithm, and the subtraction of whole sets, which
\* stops when nothing is left
DiffOne(ks) ==
    LET rest == {k \in {ks[i] : i \in 2 .. Len(ks)} : impl[k] # Missing}
        out(e) == \E k \in rest : k = ks[1] \/ IsMember(impl[k], e)
    IN  AddAll(IntsetNew, {e \in Elems(impl[ks[1]]) : ~out(e)})
DiffTwo(ks) ==
    FoldLeft(LAMBDA o, k : IF SetSize(o) = 0 THEN o ELSE RemoveAll(o, Elems(impl[k])),
             AddAll(IntsetNew, Elems(impl[ks[1]])), Tail(ks))
Diff(ks) ==
    LET some == {i \in DOMAIN ks : impl[ks[i]] # Missing}
        one  == (Cardinality(some) * SetSize(impl[ks[1]])) \div 2
        two  == FoldSet(LAMBDA i, n : n + SetSize(impl[ks[i]]), 0, some)
    IN  IF impl[ks[1]] = Missing THEN IntsetNew
        ELSE IF one <= two THEN DiffOne(ks) ELSE DiffTwo(ks)

(***************************************************************************)
(* Commands.  The replica executes what the command propagates.            *)
(***************************************************************************)
Init ==
    /\ impl = [k \in SetKeys |-> Missing]
    /\ ref = [k \in SetKeys |-> {}]
    /\ aux = "none"

Args == {<<e>> : e \in Elements} \cup (Elements \X Elements)

\* saddCommand, propagated as it is when something was added
SAdd ==
    \E k \in SetKeys, es \in Args :
        LET o0 == IF impl[k] = Missing THEN Create(es[1]) ELSE impl[k]
        IN  /\ impl' = [impl EXCEPT ![k] = FoldLeft(LAMBDA o, e : SetAdd(o, e)[2], o0, es)]
            /\ ref' = [ref EXCEPT ![k] = @ \cup (IF SetSize(impl'[k]) > SetSize(o0)
                                                 THEN ToSet(es) ELSE {})]
            /\ UNCHANGED aux

\* sremCommand, which stops at the element that empties the set
SRem ==
    \E k \in SetKeys, es \in Args :
        /\ impl[k] # Missing
        /\ LET o1 == FoldLeft(LAMBDA o, e : IF SetSize(o) = 0 THEN o ELSE SetRemove(o, e)[2],
                              impl[k], es)
           IN  /\ impl' = [impl EXCEPT ![k] = Kept(o1)]
               /\ ref' = [ref EXCEPT ![k] = @ \ (IF SetSize(o1) < SetSize(impl[k])
                                                 THEN ToSet(es) ELSE {})]
        /\ UNCHANGED aux

\* smoveCommand
SMove ==
    \E k, d \in SetKeys, e \in Elements :
        /\ impl[k] # Missing /\ k # d
        /\ LET r   == SetRemove(impl[k], e)
               dst == IF impl[d] = Missing THEN Create(e) ELSE impl[d]
           IN  /\ r[1]
               /\ impl' = [impl EXCEPT ![k] = Kept(r[2]), ![d] = SetAdd(dst, e)[2]]
               /\ ref' = IF e \in ref[k]
                         THEN [ref EXCEPT ![k] = @ \ {e}, ![d] = @ \cup {e}] ELSE ref
        /\ UNCHANGED aux

\* spopCommand, propagated as SREM of the element drawn
SPop ==
    \E k \in SetKeys :
        /\ impl[k] # Missing
        /\ \E e \in Elems(impl[k]) :
            /\ impl' = [impl EXCEPT ![k] = Kept(SetRemove(@, e)[2])]
            /\ ref' = [ref EXCEPT ![k] = @ \ {e}]
        /\ UNCHANGED aux

\* spopWithCountCommand: the whole set (propagated as DEL), the elements drawn
\* one by one, or the elements to keep drawn into a new set (both as SREMs)
SPopCount ==
    \E k \in SetKeys, count \in 1 .. Cardinality(Elements) :
        LET size == SetSize(impl[k])
            left == size - count
        IN  /\ impl[k] # Missing
            /\ IF count >= size
               THEN /\ impl' = [impl EXCEPT ![k] = Missing]
                    /\ ref' = [ref EXCEPT ![k] = {}]
               ELSE \E S \in kSubset(count, Elems(impl[k])) :
                    /\ ref' = [ref EXCEPT ![k] = @ \ S]
                    /\ IF left * 5 > count
                       THEN impl' = [impl EXCEPT ![k] = RemoveAll(@, S)]
                       ELSE LET stay  == Elems(impl[k]) \ S
                                first == CHOOSE e \in stay : TRUE
                            IN  impl' = [impl EXCEPT ![k] = AddAll(Create(first), stay)]
            /\ UNCHANGED aux

\* sinterstoreCommand, sunionstoreCommand and sdiffstoreCommand
KeyLists == {<<k>> : k \in SetKeys} \cup (SetKeys \X SetKeys)
                \cup (SetKeys \X SetKeys \X SetKeys)
RefInter(ks) == {e \in ref[ks[1]] : \A i \in DOMAIN ks : e \in ref[ks[i]]}
RefUnion(ks) == UNION {ref[ks[i]] : i \in DOMAIN ks}
RefDiff(ks)  == ref[ks[1]] \ UNION {ref[ks[i]] : i \in 2 .. Len(ks)}
Store(d, o, S) ==
    /\ impl' = [impl EXCEPT ![d] = Kept(o)]
    /\ ref' = [ref EXCEPT ![d] = S]
    /\ UNCHANGED aux
SInterStore == \E d \in SetKeys, ks \in KeyLists : Store(d, Inter(ks), RefInter(ks))
SUnionStore == \E d \in SetKeys, ks \in KeyLists : Store(d, Union(ks), RefUnion(ks))
SDiffStore  == \E d \in SetKeys, ks \in KeyLists : Store(d, Diff(ks), RefDiff(ks))

Next == \/ SAdd \/ SRem \/ SMove \/ SPop \/ SPopCount
        \/ SInterStore \/ SUnionStore \/ SDiffStore
Spec == Init /\ [][Next]_vars

(***************************************************************************)
(* Properties.                                                             *)
(***************************************************************************)
\* A replica fed with what the set commands propagate holds the same sets as
\* the master: the random draws of SPOP reach it as the elements removed, and
\* no change of encoding, in-place upgrade of an integer set or switch of
\* algorithm loses or invents an element.  No key is left with an empty set.
ReplicaSets ==
    \A k \in SetKeys : /\ Elems(impl[k]) = ref[k]
                       /\ impl[k] # Missing => SetSize(impl[k]) = Cardinality(ref[k])
                       /\ impl[k] # Missing => ref[k] # {}

\* An integer set is strictly increasing, which intsetSearch relies on, its
\* memory is exactly what its length and encoding need, and it never exceeds
\* set-max-intset-entries.
IntsetSorted ==
    \A k \in SetKeys :
        impl[k].enc = "intset" =>
            /\ Len(impl[k].mem) = impl[k].len * impl[k].width
            /\ impl[k].len <= MaxIntset
            /\ \A i \in 1 .. impl[k].len - 1 : Get(impl[k], i - 1) < Get(impl[k], i)
            /\ \A e \in Elements : IsMember(impl[k], e) = (e \in Elems(impl[k]))

\* The two algorithms of SDIFF, the intersection driven by the smallest set
\* and the union all compute the set they name, whatever the encodings, for
\* keys that repeat and keys that do not exist.
AlgebraExact ==
    \A ks \in KeyLists :
        /\ Elems(Inter(ks)) = RefInter(ks)
        /\ Elems(Union(ks)) = RefUnion(ks)
        /\ Elems(Diff(ks)) = RefDiff(ks)
        /\ impl[ks[1]] # Missing => Elems(DiffOne(ks)) = Elems(DiffTwo(ks))
=============================================================================
