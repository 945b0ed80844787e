-------------------------- MODULE FullSync_proofs ---------------------------
(***************************************************************************)
(* Proofs about the full synchronisation of FullSync: a replica that gets   *)
(* an RDB file and the stream that follows it ends with the dataset of the   *)
(* master at that offset, the books (the children, the output buffers and    *)
(* the dirty counter) balance, and a master with replicas has a backlog.     *)
(* The folds of the model are runs of a step function, so what they compute  *)
(* is proved by induction over the natural numbers in a form the provers can *)
(* use: with sets and functions in the place of predicates and operators.    *)
(***************************************************************************)
EXTENDS FullSync, WellFoundedInduction, TLAPS

USE SMTT(30), ZenonT(30)

-----------------------------------------------------------------------------
(* Sequences.                                                              *)

\* The elements of a sequence (the client list, the stream) are in its set.
LEMMA ElementOfSeq ==
    ASSUME NEW S, NEW seq \in Seq(S), NEW n \in 1 .. Len(seq)
    PROVE  seq[n] \in S
  OBVIOUS

\* Adding a client or an item at the end.
LEMMA AppendProperties ==
    ASSUME NEW S, NEW seq \in Seq(S), NEW elt \in S
    PROVE  /\ Append(seq, elt) \in Seq(S)
           /\ Append(seq, elt) # << >>
           /\ Len(Append(seq, elt)) = Len(seq) + 1
           /\ \A i \in 1 .. Len(seq) : Append(seq, elt)[i] = seq[i]
           /\ Append(seq, elt)[Len(seq) + 1] = elt
  OBVIOUS

\* Adding an item at the end is adding a sequence of one.
LEMMA AppendIsConcat ==
    ASSUME NEW S, NEW seq \in Seq(S), NEW elt \in S
    PROVE  Append(seq, elt) = seq \o <<elt>>
  OBVIOUS

\* Adding what was buffered to the stream.
LEMMA ConcatProperties ==
    ASSUME NEW S, NEW s1 \in Seq(S), NEW s2 \in Seq(S)
    PROVE  /\ s1 \o s2 \in Seq(S)
           /\ Len(s1 \o s2) = Len(s1) + Len(s2)
           /\ \A i \in 1 .. Len(s1) + Len(s2) :
                (s1 \o s2)[i] = IF i <= Len(s1) THEN s1[i] ELSE s2[i - Len(s1)]
  OBVIOUS

\* Two sequences with the same elements are the same.
LEMMA SeqEqual ==
    ASSUME NEW S, NEW s \in Seq(S), NEW t \in Seq(S),
           Len(s) = Len(t), \A i \in 1 .. Len(s) : s[i] = t[i]
    PROVE  s = t
  OBVIOUS

\* It does not matter in which order buffers are joined.
LEMMA ConcatAssociative ==
    ASSUME NEW S, NEW s \in Seq(S), NEW t \in Seq(S), NEW u \in Seq(S)
    PROVE  (s \o t) \o u = s \o (t \o u)
  OBVIOUS

\* Taking the first item of a stream that is not empty.
LEMMA HeadTailProperties ==
    ASSUME NEW S, NEW s \in Seq(S), s # << >>
    PROVE  /\ Head(s) \in S
           /\ Tail(s) \in Seq(S)
           /\ Len(Tail(s)) = Len(s) - 1
           /\ \A i \in 1 .. Len(Tail(s)) : Tail(s)[i] = s[i + 1]
  OBVIOUS

-----------------------------------------------------------------------------
(* Induction.                                                              *)

\* Every set of natural numbers that is not empty has a least element.
LEMMA LeastElement ==
    ASSUME NEW T \in SUBSET Nat, T # {}
    PROVE  \E x \in T : \A y \in T : x <= y
<1> DEFINE R == OpToRel(<,Nat)
<1>1. IsWellFoundedOn(R, Nat)
  BY NatLessThanWellFounded
<1>2. \E x \in T : \A y \in T : ~ (<<y, x>> \in R)
  <2> HIDE DEF R
  <2> QED BY Zenon, <1>1, WFMin
<1>3. PICK x \in T : \A y \in T : ~ (y < x)
  BY Zenon, <1>2 DEF OpToRel
<1> QED BY <1>3

\* Induction: a set that holds 0 and the successor of each of its elements
\* holds every natural number.
LEMMA SetInduction ==
    ASSUME NEW T \in SUBSET Nat, 0 \in T, \A n \in T : n + 1 \in T
    PROVE  T = Nat
<1> SUFFICES ASSUME Nat \ T # {} PROVE FALSE
  BY Zenon
<1> DEFINE C == Nat \ T
<1>1. PICK x \in C : \A y \in C : x <= y
  <2> C \in SUBSET Nat /\ C # {} OBVIOUS
  <2> HIDE DEF C
  <2> QED BY LeastElement
<1>2. x - 1 \in Nat
  OBVIOUS
<1>3. x - 1 \in T
  BY <1>1, <1>2
<1> QED BY <1>3

\* f is the run of n steps from base, where step[<<i, s>>] is the i-th step in s.
Iterates(f, S, base, n, step) ==
    /\ f \in [0 .. n -> S]
    /\ f[0] = base
    /\ \A i \in 1 .. n : f[i] = step[<<i, f[i - 1]>>]

\* There is such a run.
LEMMA IterateExists ==
    ASSUME NEW S, NEW base \in S, NEW n \in Nat, NEW step \in [(1 .. n) \X S -> S]
    PROVE  \E f : Iterates(f, S, base, n, step)
<1> DEFINE T == {k \in Nat : k <= n => \E f : Iterates(f, S, base, k, step)}
<1>1. 0 \in T
  <2> Iterates([i \in 0 .. 0 |-> base], S, base, 0, step)
    BY DEF Iterates
  <2> QED OBVIOUS
<1>2. ASSUME NEW k \in T PROVE k + 1 \in T
  <2> SUFFICES ASSUME k + 1 <= n
               PROVE  \E f : Iterates(f, S, base, k + 1, step)
    OBVIOUS
  <2>1. k \in Nat /\ k + 1 \in 1 .. n
    OBVIOUS
  <2>2. PICK f : Iterates(f, S, base, k, step)
    BY <2>1
  <2> DEFINE g == [i \in 0 .. k + 1 |-> IF i = k + 1 THEN step[<<k + 1, f[k]>>] ELSE f[i]]
  <2>3. f \in [0 .. k -> S] /\ f[k] \in S
    BY <2>1, <2>2 DEF Iterates
  <2>4. step[<<k + 1, f[k]>>] \in S
    BY <2>1, <2>3
  <2>5. g \in [0 .. k + 1 -> S]
    BY <2>1, <2>3, <2>4
  <2>6. g[0] = base
    BY <2>1, <2>2 DEF Iterates
  <2>7. ASSUME NEW i \in 1 .. k + 1 PROVE g[i] = step[<<i, g[i - 1]>>]
    <3>1. i - 1 \in 0 .. k /\ g[i - 1] = f[i - 1]
      BY <2>1
    <3>2. CASE i = k + 1
      <4>1. i - 1 = k /\ g[k + 1] = step[<<k + 1, f[k]>>]
        BY <3>2, <2>1
      <4>2. g[k] = f[k]
        BY <2>1
      <4> HIDE DEF g
      <4> QED BY <3>2, <4>1, <4>2
    <3>3. CASE i # k + 1
      <4>1. i \in 1 .. k /\ g[i] = f[i]
        BY <3>3, <2>1
      <4> QED BY <4>1, <3>1, <2>2 DEF Iterates
    <3> QED BY <3>2, <3>3
  <2>8. Iterates(g, S, base, k + 1, step)
    <3> HIDE DEF g
    <3> QED BY <2>5, <2>6, <2>7 DEF Iterates
  <2> QED BY <2>8
<1>3. n \in T
  <2> T \in SUBSET Nat OBVIOUS
  <2> HIDE DEF T
  <2> T = Nat BY <1>1, <1>2, SetInduction
  <2> QED OBVIOUS
<1> QED BY <1>3

\* There is no other: two runs agree as far as both go and the steps are the same.
LEMMA IterateUnique ==
    ASSUME NEW S, NEW base, NEW m \in Nat, NEW n \in Nat, m <= n,
           NEW a, NEW b, NEW f, Iterates(f, S, base, m, a),
           NEW g, Iterates(g, S, base, n, b),
           \A i \in 1 .. m, s \in S : a[<<i, s>>] = b[<<i, s>>]
    PROVE  \A i \in 0 .. m : f[i] = g[i]
<1> DEFINE T == {k \in Nat : k <= m => f[k] = g[k]}
<1>1. 0 \in T
  BY DEF Iterates
<1>2. ASSUME NEW k \in T PROVE k + 1 \in T
  <2> SUFFICES ASSUME k + 1 <= m PROVE f[k + 1] = g[k + 1]
    OBVIOUS
  <2>1. k \in Nat /\ k \in 0 .. m /\ k + 1 \in 1 .. m /\ k + 1 \in 1 .. n /\ (k + 1) - 1 = k
    OBVIOUS
  <2>2. f[k] = g[k] /\ f[k] \in S
    BY <2>1 DEF Iterates
  <2>3. f[k + 1] = a[<<k + 1, f[k]>>]
    BY <2>1 DEF Iterates
  <2>4. g[k + 1] = b[<<k + 1, g[k]>>]
    BY <2>1 DEF Iterates
  <2> QED BY <2>1, <2>2, <2>3, <2>4
<1>3. T = Nat
  <2> T \in SUBSET Nat OBVIOUS
  <2> HIDE DEF T
  <2> QED BY <1>1, <1>2, SetInduction
<1> QED BY <1>3

-----------------------------------------------------------------------------
(* Folds.                                                                  *)

\* What a replica can hold, and the items of the stream.
Holds == [data : Seq(Int \X Nat), db : Int]
Items == [t : {"select"}, db : Int] \cup [t : {"write"}, w : Nat] \cup [t : {"flush"}]

\* Executing an item keeps the type, and the database only depends on the database.
LEMMA ExecuteType ==
    ASSUME NEW s \in Holds, NEW x \in Items
    PROVE  Execute(s, x) \in Holds
<1>1. CASE x \in [t : {"select"}, db : Int]
  BY Zenon, <1>1 DEF Holds, Execute
<1>2. CASE x \in [t : {"write"}, w : Nat]
  <2>1. x.t = "write" /\ <<s.db, x.w>> \in Int \X Nat
    BY <1>2 DEF Holds
  <2>2. Append(s.data, <<s.db, x.w>>) \in Seq(Int \X Nat)
    BY <2>1, AppendProperties DEF Holds
  <2>3. Execute(s, x) = [s EXCEPT !.data = Append(@, <<s.db, x.w>>)]
    BY <2>1 DEF Execute
  <2> QED BY Zenon, <2>2, <2>3 DEF Holds
<1>3. CASE x \in [t : {"flush"}]
  <2>1. Execute(s, x) = [s EXCEPT !.data = <<>>]
    BY <1>3 DEF Execute
  <2>2. <<>> \in Seq(Int \X Nat)
    OBVIOUS
  <2> QED BY Zenon, <2>1, <2>2 DEF Holds
<1> QED BY <1>1, <1>2, <1>3, Zenon DEF Items

\* Executed is the last state of a run that executes the items one by one.
ExecuteSteps(items) == [p \in (1 .. Len(items)) \X Holds |-> Execute(p[2], items[p[1]])]

\* The steps of Executed have the type IterateExists asks for.
LEMMA ExecuteStepsType ==
    ASSUME NEW items \in Seq(Items)
    PROVE  /\ ExecuteSteps(items) \in [(1 .. Len(items)) \X Holds -> Holds]
           /\ \A i \in 1 .. Len(items), h \in Holds :
                  ExecuteSteps(items)[<<i, h>>] = Execute(h, items[i])
<1>1. \A i \in 1 .. Len(items) : items[i] \in Items
  BY ElementOfSeq
<1>2. \A p \in (1 .. Len(items)) \X Holds : Execute(p[2], items[p[1]]) \in Holds
  BY <1>1, ExecuteType
<1> QED BY <1>2 DEF ExecuteSteps

\* Executed is the last state of a run of Execute over the items.
LEMMA ExecutedRun ==
    ASSUME NEW s \in Holds, NEW items \in Seq(Items)
    PROVE  \E f : /\ Iterates(f, Holds, s, Len(items), ExecuteSteps(items))
                  /\ Executed(s, items) = f[Len(items)]
<1> DEFINE Body(g) == [i \in 0 .. Len(items) |-> IF i = 0 THEN s ELSE Execute(g[i - 1], items[i])]
<1>1. PICK n \in Nat : n = Len(items)
  OBVIOUS
<1>2. PICK step \in [(1 .. n) \X Holds -> Holds] : step = ExecuteSteps(items)
  BY Zenon, <1>1, ExecuteStepsType
<1>3. \A i \in 1 .. n, h \in Holds : step[<<i, h>>] = Execute(h, items[i])
  BY <1>1, <1>2, ExecuteStepsType
<1>4. PICK f : Iterates(f, Holds, s, n, step)
  BY Zenon, IterateExists
<1>5. /\ f \in [0 .. n -> Holds] /\ f[0] = s
      /\ \A i \in 1 .. n : f[i] = Execute(f[i - 1], items[i])
  <2>1. \A i \in 1 .. n : i - 1 \in 0 .. n
    OBVIOUS
  <2> QED BY Zenon, <1>3, <1>4, <2>1 DEF Iterates
<1>6. f = Body(f)
  <2>1. \A i \in 0 .. n : f[i] = IF i = 0 THEN s ELSE Execute(f[i - 1], items[i])
    <3> SUFFICES ASSUME NEW i \in 0 .. n
                 PROVE  f[i] = IF i = 0 THEN s ELSE Execute(f[i - 1], items[i])
      OBVIOUS
    <3> i = 0 \/ i \in 1 .. n OBVIOUS
    <3> QED BY <1>5
  <2>2. f = [i \in 0 .. n |-> f[i]]
    BY <1>5
  <2> QED BY Zenon, <2>1, <2>2, <1>1
<1>7. PICK g : g = Body(g) /\ Executed(s, items) = g[n]
  <2>1. (CHOOSE g : g = Body(g)) = Body(CHOOSE g : g = Body(g))
    BY <1>6, Zenon
  <2>2. Executed(s, items) = (CHOOSE g : g = Body(g))[n]
    BY <1>1 DEF Executed
  <2> HIDE DEF Body
  <2> QED BY Zenon, <2>1, <2>2
<1>8. /\ DOMAIN g = 0 .. n /\ g[0] = s
      /\ \A i \in 1 .. n : g[i] = Execute(g[i - 1], items[i])
  BY <1>1, <1>7
<1>9. \A i \in 0 .. n : g[i] = f[i]
  <2> DEFINE T == {k \in Nat : k <= n => g[k] = f[k]}
  <2>1. 0 \in T
    BY <1>5, <1>8
  <2>2. ASSUME NEW k \in T PROVE k + 1 \in T
    <3> SUFFICES ASSUME k + 1 <= n PROVE g[k + 1] = f[k + 1]
      OBVIOUS
    <3>1. k \in Nat /\ k + 1 \in 1 .. n /\ (k + 1) - 1 = k /\ g[k] = f[k]
      OBVIOUS
    <3> QED BY <3>1, <1>5, <1>8
  <2>3. T = Nat
    <3> T \in SUBSET Nat OBVIOUS
    <3> HIDE DEF T
    <3> QED BY Zenon, <2>1, <2>2, SetInduction
  <2> QED BY <2>3
<1> QED BY <1>1, <1>2, <1>4, <1>7, <1>9

\* Executing items leaves a state of a replica.
LEMMA ExecutedType ==
    ASSUME NEW s \in Holds, NEW items \in Seq(Items)
    PROVE  Executed(s, items) \in Holds
<1>1. PICK f : /\ Iterates(f, Holds, s, Len(items), ExecuteSteps(items))
               /\ Executed(s, items) = f[Len(items)]
  BY ExecutedRun
<1>2. Len(items) \in 0 .. Len(items)
  OBVIOUS
<1> QED BY <1>1, <1>2 DEF Iterates

\* Nothing to execute, and one more item to execute.
LEMMA ExecutedEmpty ==
    ASSUME NEW s \in Holds
    PROVE  Executed(s, <<>>) = s
<1>1. <<>> \in Seq(Items) /\ Len(<<>>) = 0
  OBVIOUS
<1> QED BY ZenonT(60), <1>1, ExecutedRun DEF Iterates

\* Executing one more item at the end is one more Execute.
LEMMA ExecutedAppend ==
    ASSUME NEW s \in Holds, NEW items \in Seq(Items), NEW x \in Items
    PROVE  Executed(s, Append(items, x)) = Execute(Executed(s, items), x)
<1>1. PICK n \in Nat : n = Len(items)
  OBVIOUS
<1>2. PICK more \in Seq(Items) : more = Append(items, x)
  BY Zenon, AppendProperties
<1>3. Len(more) = n + 1 /\ more[n + 1] = x /\ \A i \in 1 .. n : more[i] = items[i]
  BY <1>1, <1>2, AppendProperties
<1>4. PICK f : Iterates(f, Holds, s, n, ExecuteSteps(items)) /\ Executed(s, items) = f[n]
  BY <1>1, ExecutedRun
<1>5. PICK g : Iterates(g, Holds, s, n + 1, ExecuteSteps(more)) /\ Executed(s, more) = g[n + 1]
  BY <1>3, ExecutedRun
<1>6. \A i \in 1 .. n, h \in Holds : ExecuteSteps(items)[<<i, h>>] = ExecuteSteps(more)[<<i, h>>]
  <2>1. \A i \in 1 .. n, h \in Holds : ExecuteSteps(items)[<<i, h>>] = Execute(h, items[i])
    BY <1>1, ExecuteStepsType
  <2>2. \A i \in 1 .. n + 1, h \in Holds : ExecuteSteps(more)[<<i, h>>] = Execute(h, more[i])
    BY <1>3, ExecuteStepsType
  <2>3. \A i \in 1 .. n : i \in 1 .. n + 1 /\ more[i] = items[i]
    BY <1>3
  <2> QED BY <2>1, <2>2, <2>3, Zenon
<1>7. f[n] = g[n]
  <2>1. n + 1 \in Nat /\ n <= n + 1 /\ n \in 0 .. n
    OBVIOUS
  <2>2. \A i \in 0 .. n : f[i] = g[i]
    <3>1. PICK a : a = ExecuteSteps(items) OBVIOUS
    <3>2. PICK b : b = ExecuteSteps(more) OBVIOUS
    <3>5. PICK k \in Nat : k = n + 1 OBVIOUS
    <3>3. Iterates(f, Holds, s, n, a) /\ Iterates(g, Holds, s, k, b) /\ n <= k
      BY <1>4, <1>5, <3>1, <3>2, <3>5
    <3>4. \A i \in 1 .. n, h \in Holds : a[<<i, h>>] = b[<<i, h>>]
      BY <1>6, <3>1, <3>2
    <3> QED BY <3>3, <3>4, IterateUnique
  <2> QED BY <2>1, <2>2
<1>8. g[n] \in Holds /\ g[n + 1] = ExecuteSteps(more)[<<n + 1, g[n]>>]
  BY <1>5 DEF Iterates
<1>9. g[n + 1] = Execute(g[n], x)
  <2>1. n + 1 \in 1 .. Len(more)
    BY <1>3
  <2>2. ExecuteSteps(more)[<<n + 1, g[n]>>] = Execute(g[n], more[n + 1])
    BY Zenon, <1>8, <2>1, ExecuteStepsType
  <2> QED BY <1>3, <1>8, <2>2
<1> QED BY <1>2, <1>4, <1>5, <1>7, <1>9

\* The first item is executed first.
LEMMA ExecutedTail ==
    ASSUME NEW s \in Holds, NEW items \in Seq(Items), items # <<>>
    PROVE  Executed(s, items) = Executed(Execute(s, Head(items)), Tail(items))
<1>1. PICK n \in Nat : n = Len(items) - 1
  OBVIOUS
<1>2. PICK rest \in Seq(Items) : rest = Tail(items)
  BY Zenon, HeadTailProperties
<1>3. Len(items) = n + 1 /\ Len(rest) = n /\ Head(items) = items[1]
      /\ \A i \in 1 .. n : rest[i] = items[i + 1]
  BY <1>1, <1>2
<1>4. PICK first \in Holds : first = Execute(s, items[1])
  <2> items[1] \in Items BY <1>3, ElementOfSeq
  <2> QED BY ExecuteType
<1>5. PICK f : Iterates(f, Holds, s, n + 1, ExecuteSteps(items)) /\ Executed(s, items) = f[n + 1]
  BY <1>3, ExecutedRun
<1>6. PICK g : Iterates(g, Holds, first, n, ExecuteSteps(rest)) /\ Executed(first, rest) = g[n]
  BY <1>3, ExecutedRun
<1> DEFINE h == [i \in 0 .. n |-> f[i + 1]]
<1>7. \A i \in 0 .. n + 1 : f[i] \in Holds
  BY <1>5 DEF Iterates
<1>8. \A i \in 1 .. n + 1 : f[i] = Execute(f[i - 1], items[i])
  <2> SUFFICES ASSUME NEW i \in 1 .. n + 1 PROVE f[i] = Execute(f[i - 1], items[i])
    OBVIOUS
  <2>1. i - 1 \in 0 .. n + 1 /\ f[i] = ExecuteSteps(items)[<<i, f[i - 1]>>]
    BY <1>5 DEF Iterates
  <2> QED BY Zenon, <1>3, <1>7, <2>1, ExecuteStepsType
<1>9. Iterates(h, Holds, first, n, ExecuteSteps(rest))
  <2>1. h \in [0 .. n -> Holds]
    BY <1>7
  <2>2. h[0] = first
    <3> f[0] = s BY <1>5 DEF Iterates
    <3> QED BY <1>4, <1>8
  <2>3. ASSUME NEW i \in 1 .. n PROVE h[i] = ExecuteSteps(rest)[<<i, h[i - 1]>>]
    <3>1. i - 1 \in 0 .. n /\ i + 1 \in 1 .. n + 1 /\ (i + 1) - 1 = i /\ (i - 1) + 1 = i
      OBVIOUS
    <3>2. h[i] = f[i + 1] /\ h[i - 1] = f[i] /\ f[i] \in Holds
      BY <3>1, <1>7
    <3>3. f[i + 1] = Execute(f[i], items[i + 1])
      BY <3>1, <1>8
    <3>4. ExecuteSteps(rest)[<<i, f[i]>>] = Execute(f[i], rest[i])
      BY Zenon, <3>2, <1>3, ExecuteStepsType
    <3> QED BY Zenon, <3>2, <3>3, <3>4, <1>3
  <2> QED BY Zenon, <2>1, <2>2, <2>3 DEF Iterates
<1>10. h[n] = g[n]
  <2> HIDE DEF h
  <2>1. \A i \in 1 .. n, k \in Holds : ExecuteSteps(rest)[<<i, k>>] = ExecuteSteps(rest)[<<i, k>>]
    OBVIOUS
  <2> QED BY <1>6, <1>9, <2>1, IterateUnique
<1> QED BY <1>2, <1>3, <1>4, <1>5, <1>6, <1>10

\* Filter is the end of a run that looks at the elements one by one.
FilterStep(f, x, K) == IF x \in K THEN Append(f, x) ELSE f
FilterSteps(s, K, S) == [p \in (1 .. Len(s)) \X Seq(S) |-> FilterStep(p[2], s[p[1]], K)]

\* Filter is the last state of a run that appends the elements to keep.
LEMMA FilterRun ==
    ASSUME NEW S, NEW s \in Seq(S), NEW K
    PROVE  \E f \in [0 .. Len(s) -> Seq(S)] :
               /\ f[0] = <<>>
               /\ \A i \in 1 .. Len(s) : f[i] = FilterStep(f[i - 1], s[i], K)
               /\ Filter(s, K) = f[Len(s)]
<1> DEFINE Body(g) == [i \in 0 .. Len(s) |-> IF i = 0 THEN <<>> ELSE FilterStep(g[i - 1], s[i], K)]
<1>1. PICK n \in Nat : n = Len(s)
  OBVIOUS
<1>2. PICK step \in [(1 .. n) \X Seq(S) -> Seq(S)] :
          \A i \in 1 .. n, h \in Seq(S) : step[<<i, h>>] = FilterStep(h, s[i], K)
  <2>1. \A p \in (1 .. Len(s)) \X Seq(S) : FilterStep(p[2], s[p[1]], K) \in Seq(S)
    <3>1. \A i \in 1 .. Len(s) : s[i] \in S
      BY ElementOfSeq
    <3> QED BY <3>1, AppendProperties DEF FilterStep
  <2>2. FilterSteps(s, K, S) \in [(1 .. Len(s)) \X Seq(S) -> Seq(S)]
    BY <2>1 DEF FilterSteps
  <2>3. \A i \in 1 .. Len(s), h \in Seq(S) : FilterSteps(s, K, S)[<<i, h>>] = FilterStep(h, s[i], K)
    BY DEF FilterSteps
  <2> QED BY <1>1, <2>2, <2>3
<1>4. PICK f : Iterates(f, Seq(S), <<>>, n, step)
  <2> <<>> \in Seq(S) OBVIOUS
  <2> QED BY Zenon, IterateExists
<1>5. /\ f \in [0 .. n -> Seq(S)] /\ f[0] = <<>>
      /\ \A i \in 1 .. n : f[i] = FilterStep(f[i - 1], s[i], K)
  <2>1. \A i \in 1 .. n : i - 1 \in 0 .. n
    OBVIOUS
  <2> QED BY Zenon, <1>2, <1>4, <2>1 DEF Iterates
<1>6. f = Body(f)
  <2>1. \A i \in 0 .. n : f[i] = IF i = 0 THEN <<>> ELSE FilterStep(f[i - 1], s[i], K)
    <3> SUFFICES ASSUME NEW i \in 0 .. n
                 PROVE  f[i] = IF i = 0 THEN <<>> ELSE FilterStep(f[i - 1], s[i], K)
      OBVIOUS
    <3> i = 0 \/ i \in 1 .. n OBVIOUS
    <3> QED BY <1>5
  <2>2. f = [i \in 0 .. n |-> f[i]]
    BY <1>5
  <2> QED BY Zenon, <2>1, <2>2, <1>1
<1>7. PICK g : g = Body(g) /\ Filter(s, K) = g[n]
  <2>1. (CHOOSE g : g = Body(g)) = Body(CHOOSE g : g = Body(g))
    BY <1>6, Zenon
  <2>2. Filter(s, K) = (CHOOSE g : g = Body(g))[n]
    BY <1>1 DEF Filter, FilterStep
  <2> HIDE DEF Body
  <2> QED BY Zenon, <2>1, <2>2
<1>8. /\ DOMAIN g = 0 .. n /\ g[0] = <<>>
      /\ \A i \in 1 .. n : g[i] = FilterStep(g[i - 1], s[i], K)
  <2> g = [i \in 0 .. n |-> IF i = 0 THEN <<>> ELSE FilterStep(g[i - 1], s[i], K)]
    BY Zenon, <1>1, <1>7
  <2> QED OBVIOUS
<1>9. \A i \in 0 .. n : g[i] = f[i]
  <2> DEFINE T == {k \in Nat : k <= n => g[k] = f[k]}
  <2>1. 0 \in T
    BY <1>5, <1>8
  <2>2. ASSUME NEW k \in T PROVE k + 1 \in T
    <3> SUFFICES ASSUME k + 1 <= n PROVE g[k + 1] = f[k + 1]
      OBVIOUS
    <3>1. k \in Nat /\ k + 1 \in 1 .. n /\ (k + 1) - 1 = k /\ g[k] = f[k]
      OBVIOUS
    <3> QED BY <3>1, <1>5, <1>8
  <2>3. T = Nat
    <3> T \in SUBSET Nat OBVIOUS
    <3> HIDE DEF T
    <3> QED BY Zenon, <2>1, <2>2, SetInduction
  <2> QED BY <2>3
<1>10. Filter(s, K) = f[n]
  <2> HIDE DEF Body
  <2>1. Filter(s, K) = g[n]
    BY <1>7
  <2>2. g[n] = f[n]
    BY <1>9
  <2> QED BY <2>1, <2>2
<1> QED BY <1>1, <1>5, <1>10

\* Filter keeps exactly the elements in K, and no element twice.
LEMMA FilterProperties ==
    ASSUME NEW S, NEW s \in Seq(S), NEW K, IsInjective(s)
    PROVE  /\ Filter(s, K) \in Seq(S)
           /\ Range(Filter(s, K)) = Range(s) \cap K
           /\ IsInjective(Filter(s, K))
<1>1. PICK f \in [0 .. Len(s) -> Seq(S)] :
               /\ f[0] = <<>>
               /\ \A i \in 1 .. Len(s) : f[i] = FilterStep(f[i - 1], s[i], K)
               /\ Filter(s, K) = f[Len(s)]
  BY ZenonT(60), FilterRun
<1>2. PICK n \in Nat : n = Len(s)
  OBVIOUS
<1> DEFINE Good(k) == /\ \A x : x \in Range(f[k]) <=> x \in K /\ \E j \in 1 .. k : x = s[j]
                      /\ IsInjective(f[k])
           T == {k \in Nat : k <= n => Good(k)}
<1>3. 0 \in T
  <2> Range(<<>>) = {} /\ IsInjective(<<>>)
    BY DEF Range, IsInjective
  <2> QED BY <1>1
<1>4. ASSUME NEW k \in T PROVE k + 1 \in T
  <2> SUFFICES ASSUME k + 1 <= n PROVE Good(k + 1)
    OBVIOUS
  <2>1. k \in Nat /\ k + 1 \in 1 .. n /\ (k + 1) - 1 = k /\ k \in 0 .. n /\ Good(k)
    OBVIOUS
  <2>2. f[k + 1] = FilterStep(f[k], s[k + 1], K) /\ f[k] \in Seq(S) /\ s[k + 1] \in S
    BY Zenon, <1>1, <1>2, <2>1, ElementOfSeq
  <2>3. CASE s[k + 1] \notin K
    <3>1. f[k + 1] = f[k]
      BY <2>2, <2>3 DEF FilterStep
    <3>2. \A x : x \in K => ((\E j \in 1 .. k : x = s[j]) <=> \E j \in 1 .. k + 1 : x = s[j])
      BY <2>1, <2>3
    <3> QED BY <2>1, <3>1, <3>2
  <2>4. CASE s[k + 1] \in K
    <3>1. PICK q \in Seq(S) : q = f[k]
      BY <2>2
    <3>2. PICK x \in S : x = s[k + 1]
      BY <2>2
    <3>3. f[k + 1] = Append(q, x)
      BY Zenon, <2>2, <2>4, <3>1, <3>2 DEF FilterStep
    <3>4. Range(Append(q, x)) = Range(q) \cup {x}
      <4>1. DOMAIN Append(q, x) = 1 .. Len(q) + 1 /\ DOMAIN q = 1 .. Len(q) /\ Len(q) \in Nat
        BY AppendProperties
      <4>2. \A i \in 1 .. Len(q) : Append(q, x)[i] = q[i]
        BY AppendProperties
      <4>3. Append(q, x)[Len(q) + 1] = x
        BY AppendProperties
      <4>4. \A y \in Range(q) \cup {x} : y \in Range(Append(q, x))
        BY <4>1, <4>2, <4>3 DEF Range
      <4>5. \A y \in Range(Append(q, x)) : y \in Range(q) \cup {x}
        BY <4>1, <4>2, <4>3 DEF Range
      <4> QED BY <4>4, <4>5
    <3>5. x \notin Range(q)
      <4>1. \A j \in 1 .. k : s[j] # s[k + 1]
        BY <1>2, <2>1 DEF IsInjective
      <4> QED BY <4>1, <2>1, <3>1, <3>2
    <3>6. IsInjective(Append(q, x))
      <4>1. \A a \in 1 .. Len(q) : q[a] # x
        BY <3>5 DEF Range
      <4>2. \A a, b \in 1 .. Len(q) : q[a] = q[b] => a = b
        BY <2>1, <3>1 DEF IsInjective
      <4> QED BY <4>1, <4>2, AppendProperties DEF IsInjective
    <3>7. \A y : (\E j \in 1 .. k + 1 : y = s[j]) <=> (y = x \/ \E j \in 1 .. k : y = s[j])
      BY <2>1, <3>2
    <3> QED BY Zenon, <2>1, <2>4, <3>1, <3>2, <3>3, <3>4, <3>6, <3>7
  <2> QED BY <2>3, <2>4
<1>5. T = Nat
  <2> T \in SUBSET Nat OBVIOUS
  <2> HIDE DEF T
  <2> QED BY Zenon, <1>3, <1>4, SetInduction
<1>6. Good(n)
  <2>1. n \in T
    BY Zenon, <1>5
  <2> QED BY <2>1
<1>7. Range(s) = {s[j] : j \in 1 .. n}
  BY <1>2 DEF Range
<1> QED BY <1>1, <1>2, <1>6, <1>7

-----------------------------------------------------------------------------
(* The invariant.                                                          *)

States == {"none", "wait_bgsave_start", "wait_bgsave_end", "send_bulk", "online", "closed"}
Child == [type : {"disk", "socket"}, snap : Holds, status : {"run", "ok", "err", "signal"},
          targets : SUBSET Clients, good : SUBSET Clients]

\* Types, those TypeOK leaves out included.
TypeInv ==
    /\ TypeOK
    /\ data \in Seq(Int \X Nat) /\ nwrites \in Nat /\ setup \in Setup
    /\ file \in Holds /\ bulk \in [Clients -> Holds] /\ replica \in [Clients -> Holds]
    /\ out \in [Clients -> Seq(Items)]
    /\ child.type # "none" => child \in Child

\* A buffer is empty until its replica starts to be fed, at the offset of the fork.
BufferInv ==
    /\ OffsetCounts
    /\ \A c \in Clients : replstate[c] \in {"none", "wait_bgsave_start"} => out[c] = <<>>

\* What dirty_before_bgsave is subtracted from is at least as large, and what is
\* left is zero only if the child saves, or has saved, the dataset as it is.
DirtyInv ==
    /\ DirtyNeverForgets
    /\ child.type = "disk" =>
           /\ dirty >= dirty_before_bgsave
           /\ child.status = "run" /\ dirty = dirty_before_bgsave => child.snap.data = data
           /\ child.status = "ok" /\ dirty = dirty_before_bgsave => file.data = data

\* A replica that is fed will hold the dataset with the database of the stream
\* selected; one whose snapshot may still be replaced has a SELECT in its buffer.
StreamInv ==
    /\ \A c \in Clients : Fed(c) /\ ~ Lost(c) =>
           /\ Executed(Base(c), out[c]).data = data
           /\ slaveseldb # -1 => Executed(Base(c), out[c]).db = slaveseldb
    /\ \A c \in Clients : replstate[c] = "wait_bgsave_end" /\ slaveseldb # -1 =>
           \A s \in Holds : Executed(s, out[c]).db = slaveseldb

\* The assertion of replicationFeedSlaves: there is a backlog when there are replicas.
BacklogInv == \A c \in Clients : replstate[c] # "none" => repl_backlog

IInv == TypeInv /\ ChildServesWaiting /\ BufferInv /\ DirtyInv /\ BacklogInv /\ StreamInv

\* Dropping the clients that were freed leaves the others, each once.
LEMMA AttachedProperties ==
    ASSUME NEW sl \in Seq(Clients), IsInjective(sl)
    PROVE  /\ Attached(sl) \in Seq(Clients)
           /\ IsInjective(Attached(sl))
           /\ Range(Attached(sl)) = {c \in Range(sl) : replstate'[c] # "closed"}
<1>1. PICK K : K = {c \in Clients : replstate'[c] # "closed"}
  BY Zenon
<1>2. Attached(sl) = Filter(sl, K)
  BY <1>1 DEF Attached
<1>3. Range(sl) \subseteq Clients
  BY ElementOfSeq DEF Range
<1> QED BY <1>1, <1>2, <1>3, FilterProperties

\* Appending a client that is not in the list.
LEMMA AppendClient ==
    ASSUME NEW sl \in Seq(Clients), IsInjective(sl), NEW c \in Clients, c \notin Range(sl)
    PROVE  /\ Append(sl, c) \in Seq(Clients)
           /\ IsInjective(Append(sl, c))
           /\ Range(Append(sl, c)) = Range(sl) \cup {c}
<1>1. DOMAIN Append(sl, c) = 1 .. Len(sl) + 1 /\ DOMAIN sl = 1 .. Len(sl) /\ Len(sl) \in Nat
  BY AppendProperties
<1>2. \A i \in 1 .. Len(sl) : Append(sl, c)[i] = sl[i] /\ sl[i] # c
  BY <1>1, AppendProperties DEF Range
<1>3. Append(sl, c)[Len(sl) + 1] = c /\ Append(sl, c) \in Seq(Clients)
  BY AppendProperties
<1>4. \A y \in Range(sl) \cup {c} : y \in Range(Append(sl, c))
  BY <1>1, <1>2, <1>3 DEF Range
<1>5. \A y \in Range(Append(sl, c)) : y \in Range(sl) \cup {c}
  BY <1>1, <1>2, <1>3 DEF Range
<1>6. IsInjective(Append(sl, c))
  BY <1>1, <1>2, <1>3 DEF IsInjective
<1> QED BY Zenon, <1>3, <1>4, <1>5, <1>6

\* The invariant holds of a master that has just started.
LEMMA InitInv == Init => IInv
<1> SUFFICES ASSUME Init PROVE IInv
  OBVIOUS
<1> USE DEF Init
<1>1. TypeInv
  <2>1. <<>> \in Seq(Int \X Nat) /\ <<>> \in Seq(Items) /\ <<>> \in Seq(Clients)
    OBVIOUS
  <2>2. NoRdb \in Holds /\ file \in Holds
    BY <2>1 DEF NoRdb, Holds
  <2>3. Range(slaves) = {} /\ IsInjective(slaves)
    BY DEF Range, IsInjective
  <2>4. setup \in Setup
    BY FullSyncAssumption
  <2>5. child.type = "none"
    BY DEF NoChild
  <2>6. {c \in Clients : replstate[c] \notin {"none", "closed"}} = Range(slaves)
    BY <2>3
  <2>7. TypeOK
    <3>1. aof_child \in BOOLEAN /\ repl_diskless_sync \in BOOLEAN /\ repl_backlog \in BOOLEAN
      BY Zenon
    <3>2. put_online_on_ack \in [Clients -> BOOLEAN]
      OBVIOUS
    <3>3. replstate \in [Clients -> States] /\ reploff \in [Clients -> Nat]
      BY DEF States
    <3> QED BY <2>1, <2>3, <2>5, <2>6, <3>1, <3>2, <3>3 DEF TypeOK, States
  <2> QED BY Zenon, <2>1, <2>2, <2>4, <2>5, <2>7 DEF TypeInv
<1>2. ChildServesWaiting /\ BufferInv
  BY DEF ChildServesWaiting, BufferInv, OffsetCounts, Fed, NoChild
<1>3. DirtyInv
  BY DEF DirtyInv, DirtyNeverForgets, NoChild
<1>4. BacklogInv
  BY Zenon DEF BacklogInv
<1>5. StreamInv
  BY DEF StreamInv, Fed
<1> QED BY <1>1, <1>2, <1>3, <1>4, <1>5 DEF IInv

-----------------------------------------------------------------------------
(* Every step keeps the types.                                              *)

\* What is fed is items of the stream.
LEMMA FeedType ==
    ASSUME TypeInv, NEW db \in Dbs, NEW x \in Items, FeedSlaves(db, x)
    PROVE  /\ slaveseldb' \in Dbs \cup {-1} /\ master_repl_offset' \in Nat
           /\ out' \in [Clients -> Seq(Items)]
<1>1. PICK items \in Seq(Items) :
          items = IF slaveseldb = db THEN <<x>> ELSE <<[t |-> "select", db |-> db], x>>
  <2>1. [t |-> "select", db |-> db] \in Items
    BY FullSyncAssumption DEF Items
  <2>2. <<x>> \in Seq(Items) /\ <<[t |-> "select", db |-> db], x>> \in Seq(Items)
    BY <2>1
  <2> QED BY Zenon, <2>2
<1>2. \A c \in Clients : out[c] \o items \in Seq(Items)
  BY ConcatProperties DEF TypeInv
<1>3. CASE repl_backlog
  <2>1. slaveseldb' = db /\ master_repl_offset' = master_repl_offset + Len(items)
        /\ out' = [c \in Clients |-> IF Fed(c) THEN out[c] \o items ELSE out[c]]
    BY Zenon, <1>1, <1>3 DEF FeedSlaves
  <2> QED BY <2>1, <1>2 DEF TypeInv, TypeOK
<1>4. CASE ~ repl_backlog
  BY Zenon, <1>4 DEF FeedSlaves, TypeInv, TypeOK
<1> QED BY <1>3, <1>4

\* A snapshot of the dataset is a state a replica can be in.
LEMMA RdbType ==
    ASSUME TypeInv, NEW d \in Seq(Int \X Nat)
    PROVE  Rdb(d) \in Holds /\ Rdb(d).data = d
BY FullSyncAssumption DEF Rdb, Holds, TypeInv, TypeOK

\* The type of a child that starts, and of the states of its replicas.
LEMMA StartType ==
    ASSUME TypeInv, NEW rs \in [Clients -> States], NEW capa, NEW d \in Nat,
           StartBgsave(rs, capa, d)
    PROVE  /\ child'.type \in {"none", "disk", "socket"}
           /\ child'.type # "none" => child' \in Child
           /\ replstate' \in [Clients -> States] /\ reploff' \in [Clients -> Nat]
           /\ slaveseldb' \in Dbs \cup {-1} /\ dirty_before_bgsave' \in Nat
           /\ \A c \in Clients : \/ replstate'[c] = rs[c]
                                 \/ /\ rs[c] = "wait_bgsave_start"
                                    /\ replstate'[c] \in {"wait_bgsave_end", "closed"}
<1>1. Rdb(data) \in Holds
  BY RdbType DEF TypeInv
<1>2. Waiting(rs) \in SUBSET Clients /\ {} \in SUBSET Clients
  BY Zenon DEF Waiting
<1>3. CASE child' = NoChild
  <2>1. replstate' = [c \in Clients |-> IF c \in Waiting(rs) THEN "closed" ELSE rs[c]]
        /\ reploff' = reploff
    BY <1>3 DEF StartBgsave, NoChild
  <2>2. slaveseldb' \in {slaveseldb, -1} /\ dirty_before_bgsave' \in {dirty_before_bgsave, d}
    BY Zenon, <1>3 DEF StartBgsave, NoChild
  <2> QED BY Zenon, <1>3, <2>1, <2>2 DEF NoChild, Waiting, States, TypeInv, TypeOK
<1>4. CASE child' # NoChild
  <2>1. /\ child' = [type |-> IF SocketTarget(capa) THEN "socket" ELSE "disk",
                     snap |-> Rdb(data), status |-> "run",
                     targets |-> IF SocketTarget(capa) THEN Waiting(rs) ELSE {}, good |-> {}]
        /\ replstate' = [c \in Clients |-> IF c \in Waiting(rs) THEN "wait_bgsave_end" ELSE rs[c]]
        /\ reploff' = [c \in Clients |-> IF c \in Waiting(rs) THEN master_repl_offset
                                                             ELSE reploff[c]]
        /\ slaveseldb' = -1
        /\ dirty_before_bgsave' \in {dirty_before_bgsave, d}
    BY Zenon, <1>4 DEF StartBgsave, SeldbForNewReplica
  <2>2. child' \in Child /\ child'.type \in {"disk", "socket"}
    BY Zenon, <1>1, <1>2, <2>1 DEF Child
  <2> QED BY Zenon, <2>1, <2>2 DEF Waiting, States, TypeInv, TypeOK
<1> QED BY <1>3, <1>4

\* The list of replicas holds those that are connected, if it is filtered as
\* they are closed.
LEMMA SlavesType ==
    ASSUME TypeInv, replstate' \in [Clients -> States],
           \/ /\ slaves' = Attached(slaves)
              /\ \A c \in Clients :
                    replstate[c] \in {"none", "closed"} => replstate'[c] = replstate[c]
              /\ \A c \in Clients : replstate[c] # "none" => replstate'[c] # "none"
           \/ \E d \in Clients :
              /\ slaves' = Attached(Append(slaves, d))
              /\ replstate[d] = "none" /\ replstate'[d] # "none"
              /\ \A c \in Clients \ {d} :
                    replstate[c] \in {"none", "closed"} => replstate'[c] = replstate[c]
              /\ \A c \in Clients : replstate[c] # "none" => replstate'[c] # "none"
    PROVE  /\ slaves' \in Seq(Clients) /\ IsInjective(slaves')
           /\ {c \in Clients : replstate'[c] \notin {"none", "closed"}} = Range(slaves')
<1>1. slaves \in Seq(Clients) /\ IsInjective(slaves)
      /\ {c \in Clients : replstate[c] \notin {"none", "closed"}} = Range(slaves)
  BY DEF TypeInv, TypeOK
<1>2. CASE \E d \in Clients :
              /\ slaves' = Attached(Append(slaves, d))
              /\ replstate[d] = "none" /\ replstate'[d] # "none"
              /\ \A c \in Clients \ {d} :
                    replstate[c] \in {"none", "closed"} => replstate'[c] = replstate[c]
              /\ \A c \in Clients : replstate[c] # "none" => replstate'[c] # "none"
  <2>1. PICK d \in Clients :
              /\ slaves' = Attached(Append(slaves, d))
              /\ replstate[d] = "none" /\ replstate'[d] # "none"
              /\ \A c \in Clients \ {d} :
                    replstate[c] \in {"none", "closed"} => replstate'[c] = replstate[c]
              /\ \A c \in Clients : replstate[c] # "none" => replstate'[c] # "none"
    BY <1>2
  <2>2. d \notin Range(slaves)
    BY <1>1, <2>1
  <2>3. /\ Append(slaves, d) \in Seq(Clients) /\ IsInjective(Append(slaves, d))
        /\ Range(Append(slaves, d)) = Range(slaves) \cup {d}
    BY <1>1, <2>2, AppendClient
  <2>4. /\ slaves' \in Seq(Clients) /\ IsInjective(slaves')
        /\ Range(slaves') = {c \in Range(slaves) \cup {d} : replstate'[c] # "closed"}
    BY Zenon, <2>1, <2>3, AttachedProperties
  <2>5. ASSUME NEW c \in Clients
        PROVE  replstate'[c] \notin {"none", "closed"} <=> c \in Range(slaves')
    BY Zenon, <1>1, <2>1, <2>4
  <2>6. Range(slaves') \subseteq Clients
    BY <1>1, <2>4
  <2> QED BY Zenon, <2>4, <2>5, <2>6
<1>3. CASE /\ slaves' = Attached(slaves)
           /\ \A c \in Clients :
                 replstate[c] \in {"none", "closed"} => replstate'[c] = replstate[c]
           /\ \A c \in Clients : replstate[c] # "none" => replstate'[c] # "none"
  <2>4. /\ slaves' \in Seq(Clients) /\ IsInjective(slaves')
        /\ Range(slaves') = {c \in Range(slaves) : replstate'[c] # "closed"}
    BY Zenon, <1>1, <1>3, AttachedProperties
  <2>5. ASSUME NEW c \in Clients
        PROVE  replstate'[c] \notin {"none", "closed"} <=> c \in Range(slaves')
    BY Zenon, <1>1, <1>3, <2>4
  <2>6. Range(slaves') \subseteq Clients
    BY Zenon, <1>1, <2>4
  <2> QED BY Zenon, <2>4, <2>5, <2>6
<1> QED BY Zenon, <1>2, <1>3

\* Every step keeps the types, the list of replicas in step with their states included.
LEMMA TypeStep == IInv /\ [Next]_vars => TypeInv'
<1> SUFFICES ASSUME IInv, [Next]_vars PROVE TypeInv'
  BY Zenon
<1>0. TypeInv /\ dirty \in Nat /\ dirty_before_bgsave \in Nat /\ setup \in Setup
      /\ setup.clients \subseteq Clients
  BY DEF IInv, TypeInv, TypeOK, DirtyInv, DirtyNeverForgets, Setup
<1>1. ASSUME NEW db \in Dbs, Write(db) PROVE TypeInv'
  <2>1. [t |-> "write", w |-> nwrites + 1] \in Items
    BY <1>0 DEF Items, TypeInv
  <2>2. /\ slaveseldb' \in Dbs \cup {-1} /\ master_repl_offset' \in Nat
        /\ out' \in [Clients -> Seq(Items)]
    BY Zenon, <1>0, <1>1, <2>1, FeedType DEF Write
  <2>3. data' \in Seq(Int \X Nat)
    <3>1. <<db, nwrites + 1>> \in Int \X Nat
      BY <1>0, FullSyncAssumption DEF TypeInv
    <3> QED BY <1>0, <1>1, <3>1, AppendProperties DEF Write, TypeInv
  <2>4. dirty' \in Int /\ nwrites' \in Nat
    BY <1>0, <1>1 DEF Write, TypeInv
  <2> QED BY Zenon, <1>0, <1>1, <2>2, <2>3, <2>4 DEF Write, TypeInv, TypeOK
<1>2. ASSUME NEW db \in Dbs, Flushall(db) PROVE TypeInv'
  <2>1. [t |-> "flush"] \in Items
    BY DEF Items
  <2>2. /\ slaveseldb' \in Dbs \cup {-1} /\ master_repl_offset' \in Nat
        /\ out' \in [Clients -> Seq(Items)]
    BY <1>0, <1>2, <2>1, FeedType DEF Flushall
  <2>3. <<>> \in Seq(Int \X Nat)
    OBVIOUS
  <2>4. file' \in Holds
    <3>1. Rdb(<<>>) \in Holds
      BY Zenon, <1>0, <2>3, RdbType
    <3>2. child.type = "disk" => child.snap \in Holds
      BY <1>0 DEF TypeInv, Child
    <3> QED BY <1>0, <1>2, <3>1, <3>2 DEF Flushall, TypeInv
  <2>5. /\ child'.type \in {"none", "disk", "socket"}
        /\ child'.type # "none" => child' \in Child
    BY Zenon, <1>0, <1>2 DEF Flushall, TypeInv, TypeOK, Child
  <2>6. dirty' \in Int
    BY <1>0, <1>2 DEF Flushall, TypeInv
  <2>7. child'.type # "none" => child'.status \in {"run", "ok", "err", "signal"}
    BY <2>5 DEF Child
  <2> QED BY Zenon, <1>0, <1>2, <2>2, <2>3, <2>4, <2>5, <2>6, <2>7 DEF Flushall, TypeInv, TypeOK
<1>3. ASSUME NEW c \in Clients, SyncCommand(c) PROVE TypeInv'
  <2> USE DEF SyncCommand
  <2>1. CASE \E s \in Clients : SyncAttach(c, s)
    <3>1. PICK s \in Clients : SyncAttach(c, s)
      BY Zenon, <2>1
    <3>2. replstate' = [replstate EXCEPT ![c] = "wait_bgsave_end"]
          /\ replstate' \in [Clients -> States]
      BY Zenon, <1>0, <3>1 DEF SyncAttach, TypeInv, TypeOK, States
    <3>3. /\ slaves' \in Seq(Clients) /\ IsInjective(slaves')
          /\ {d \in Clients : replstate'[d] \notin {"none", "closed"}} = Range(slaves')
      BY ZenonT(60), <1>0, <1>3, <3>2, SlavesType DEF TypeInv, TypeOK
    <3>4. out' \in [Clients -> Seq(Items)] /\ reploff' \in [Clients -> Nat]
      BY Zenon, <1>0, <3>1 DEF SyncAttach, AttachBuffer, AttachOffset, TypeInv, TypeOK
    <3>5. slaveseldb' = -1
      BY <3>1 DEF SyncAttach, SeldbForNewReplica
    <3>6. repl_backlog' \in BOOLEAN
      BY <1>3, Zenon
    <3>7. UNCHANGED <<child, dirty_before_bgsave>>
      BY <3>1 DEF SyncAttach
    <3> QED BY Zenon, <1>0, <1>3, <3>2, <3>3, <3>4, <3>5, <3>6, <3>7 DEF TypeInv, TypeOK, States, bounds
  <2>2. CASE SyncWait(c)
    <3>2. replstate' = [replstate EXCEPT ![c] = "wait_bgsave_start"]
          /\ replstate' \in [Clients -> States]
      BY Zenon, <1>0, <2>2 DEF SyncWait, TypeInv, TypeOK, States
    <3>3. /\ slaves' \in Seq(Clients) /\ IsInjective(slaves')
          /\ {d \in Clients : replstate'[d] \notin {"none", "closed"}} = Range(slaves')
      BY ZenonT(60), <1>0, <1>3, <3>2, SlavesType DEF TypeInv, TypeOK
    <3>6. repl_backlog' \in BOOLEAN
      BY <1>3, Zenon
    <3>7. UNCHANGED <<child, dirty_before_bgsave, slaveseldb, reploff, out>>
      BY Zenon, <2>2 DEF SyncWait
    <3> QED BY Zenon, <1>0, <1>3, <3>2, <3>3, <3>6, <3>7 DEF TypeInv, TypeOK, States, bounds
  <2>3. CASE SyncStart(c)
    <3>1. PICK rs \in [Clients -> States] : rs = [replstate EXCEPT ![c] = "wait_bgsave_start"]
      BY Zenon, <1>0 DEF TypeInv, TypeOK, States
    <3>2. StartBgsave(rs, c \in setup.eof, dirty) /\ UNCHANGED out
      BY Zenon, <2>3, <3>1 DEF SyncStart
    <3>3. /\ child'.type \in {"none", "disk", "socket"}
          /\ child'.type # "none" => child' \in Child
          /\ replstate' \in [Clients -> States] /\ reploff' \in [Clients -> Nat]
          /\ slaveseldb' \in Dbs \cup {-1} /\ dirty_before_bgsave' \in Nat
          /\ \A d \in Clients : \/ replstate'[d] = rs[d]
                                \/ /\ rs[d] = "wait_bgsave_start"
                                   /\ replstate'[d] \in {"wait_bgsave_end", "closed"}
      BY Zenon, <1>0, <3>2, StartType
    <3>4. /\ slaves' \in Seq(Clients) /\ IsInjective(slaves')
          /\ {d \in Clients : replstate'[d] \notin {"none", "closed"}} = Range(slaves')
      <4>1. /\ replstate[c] = "none" /\ replstate'[c] # "none"
            /\ \A d \in Clients \ {c} :
                  replstate[d] \in {"none", "closed"} => replstate'[d] = replstate[d]
            /\ \A d \in Clients : replstate[d] # "none" => replstate'[d] # "none"
        BY ZenonT(60), <1>0, <1>3, <3>1, <3>3 DEF TypeInv, TypeOK
      <4> QED BY Zenon, <1>0, <1>3, <3>3, <4>1, SlavesType
    <3>5. child'.type # "none" => child'.status \in {"run", "ok", "err", "signal"}
      BY <3>3 DEF Child
    <3>6. repl_backlog' \in BOOLEAN
      BY <1>3, Zenon
    <3> QED BY Zenon, <1>0, <1>3, <3>2, <3>3, <3>4, <3>5, <3>6 DEF TypeInv, TypeOK, States, bounds
  <2> QED BY <1>3, <2>1, <2>2, <2>3
<1>4. ASSUME CronStartBgsave PROVE TypeInv'
  <2>1. PICK rs \in [Clients -> States] : rs = replstate
    BY <1>0 DEF TypeInv, TypeOK, States
  <2>2. StartBgsave(rs, Waiting(replstate) \subseteq setup.eof, dirty)
    BY Zenon, <1>4, <2>1 DEF CronStartBgsave
  <2>3. /\ child'.type \in {"none", "disk", "socket"}
        /\ child'.type # "none" => child' \in Child
        /\ replstate' \in [Clients -> States] /\ reploff' \in [Clients -> Nat]
        /\ slaveseldb' \in Dbs \cup {-1} /\ dirty_before_bgsave' \in Nat
        /\ \A d \in Clients : \/ replstate'[d] = rs[d]
                              \/ /\ rs[d] = "wait_bgsave_start"
                                 /\ replstate'[d] \in {"wait_bgsave_end", "closed"}
    BY <1>0, <2>2, StartType
  <2>4. /\ slaves' \in Seq(Clients) /\ IsInjective(slaves')
        /\ {d \in Clients : replstate'[d] \notin {"none", "closed"}} = Range(slaves')
    <3>1. /\ \A d \in Clients :
                replstate[d] \in {"none", "closed"} => replstate'[d] = replstate[d]
          /\ \A d \in Clients : replstate[d] # "none" => replstate'[d] # "none"
      BY <2>1, <2>3
    <3> QED BY Zenon, <1>0, <1>4, <2>3, <3>1, SlavesType DEF CronStartBgsave
  <2>5. child'.type # "none" => child'.status \in {"run", "ok", "err", "signal"}
    BY Zenon, <2>3 DEF Child
  <2> QED BY Zenon, <1>0, <1>4, <2>3, <2>4, <2>5 DEF CronStartBgsave, TypeInv, TypeOK, States, bounds
<1>5. ASSUME BgsaveCommand PROVE TypeInv'
  <2>1. Rdb(data) \in Holds
    BY Zenon, <1>0, RdbType DEF TypeInv
  <2>2. child' \in Child /\ child'.type = "disk" /\ child'.status = "run"
    BY Zenon, <1>5, <2>1 DEF BgsaveCommand, Child
  <2> QED BY Zenon, <1>0, <1>5, <2>2 DEF BgsaveCommand, TypeInv, TypeOK, repVars
<1>6. ASSUME SaveCommand PROVE TypeInv'
  <2>1. Rdb(data) \in Holds
    BY Zenon, <1>0, RdbType DEF TypeInv
  <2>2. /\ dirty' \in Int /\ file' \in Holds
        /\ UNCHANGED <<data, dirty_before_bgsave, child, aof_child, repl_diskless_sync, repl_backlog,
                       slaveseldb, master_repl_offset, slaves, replstate, put_online_on_ack, out,
                       bulk, replica, reploff, nwrites, setup>>
    BY <1>6, <2>1 DEF SaveCommand, repVars
  <2>3. TypeOK'
    BY Zenon, <1>0, <2>2 DEF TypeInv, TypeOK
  <2> QED BY Zenon, <1>0, <2>2, <2>3 DEF TypeInv
<1>7. ASSUME AofRewriteStart \/ AofRewriteDone \/ SetDiskless PROVE TypeInv'
  <2>1. aof_child' \in BOOLEAN /\ repl_diskless_sync' \in BOOLEAN
    BY <1>0, <1>7, Zenon DEF AofRewriteStart, AofRewriteDone, SetDiskless, TypeInv, TypeOK
  <2>2. UNCHANGED <<data, dirty, dirty_before_bgsave, file, child, repl_backlog, slaveseldb,
                    master_repl_offset, repVars, nwrites, setup>>
    BY <1>7 DEF AofRewriteStart, AofRewriteDone, SetDiskless, bounds
  <2> QED BY <1>0, <2>1, <2>2 DEF TypeInv, TypeOK, repVars
<1>8. ASSUME ChildExit PROVE TypeInv'
  <2>1. child \in Child /\ child.snap \in Holds
    BY Zenon, <1>0, <1>8 DEF ChildExit, TypeInv, Child
  <2>2. file' \in Holds
    BY Zenon, <1>0, <1>8, <2>1 DEF ChildExit, TypeInv
  <2>3. child' \in Child /\ child'.type = child.type
    BY Zenon, <1>8, <2>1 DEF ChildExit, Child
  <2>4. child'.type \in {"disk", "socket"} /\ child'.status \in {"run", "ok", "err", "signal"}
    BY <2>3 DEF Child
  <2>5. UNCHANGED <<data, dirty, dirty_before_bgsave, aof_child, repl_diskless_sync, repl_backlog,
                    slaveseldb, master_repl_offset, repVars, nwrites, setup>>
    BY Zenon, <1>8 DEF ChildExit, bounds
  <2> QED BY <1>0, <2>2, <2>3, <2>4, <2>5 DEF TypeInv, TypeOK, repVars
<1>9. ASSUME Reap PROVE TypeInv'
  <2>1. PICK rs \in [Clients -> States] : rs = [c \in Clients |-> StateAfterBgsave(c)]
    BY Zenon, <1>0 DEF StateAfterBgsave, TypeInv, TypeOK, States
  <2>2. DirtyAfterBgsave \in Nat
    BY <1>0 DEF DirtyAfterBgsave, IInv, DirtyInv
  <2>3. /\ child'.type \in {"none", "disk", "socket"}
        /\ child'.type # "none" => child' \in Child
        /\ replstate' \in [Clients -> States] /\ reploff' \in [Clients -> Nat]
        /\ slaveseldb' \in Dbs \cup {-1} /\ dirty_before_bgsave' \in Nat
        /\ \A d \in Clients : \/ replstate'[d] = rs[d]
                              \/ /\ rs[d] = "wait_bgsave_start"
                                 /\ replstate'[d] \in {"wait_bgsave_end", "closed"}
    <3>1. CASE StartBgsave(rs, Waiting(rs) \subseteq setup.eof, DirtyAfterBgsave)
      BY Zenon, <1>0, <2>2, <3>1, StartType
    <3>2. CASE replstate' = rs /\ child' = NoChild /\ UNCHANGED <<dirty_before_bgsave, slaveseldb, reploff>>
      BY <1>0, <3>2 DEF NoChild, TypeInv, TypeOK
    <3> QED BY Zenon, <1>9, <2>1, <3>1, <3>2 DEF Reap
  <2>4. /\ slaves' \in Seq(Clients) /\ IsInjective(slaves')
        /\ {d \in Clients : replstate'[d] \notin {"none", "closed"}} = Range(slaves')
    <3>1. /\ \A d \in Clients :
                replstate[d] \in {"none", "closed"} => replstate'[d] = replstate[d]
          /\ \A d \in Clients : replstate[d] # "none" => replstate'[d] # "none"
      BY <2>1, <2>3 DEF StateAfterBgsave
    <3> QED BY Zenon, <1>0, <1>9, <2>3, <3>1, SlavesType DEF Reap
  <2>5. child'.type # "none" => child'.status \in {"run", "ok", "err", "signal"}
    BY <2>3 DEF Child
  <2>6. bulk' \in [Clients -> Holds] /\ replica' \in [Clients -> Holds]
    <3>1. child \in Child /\ child.snap \in Holds
      BY Zenon, <1>0, <1>9 DEF Reap, TypeInv, Child
    <3> QED BY ZenonT(60), <1>0, <1>9, <3>1 DEF Reap, TypeInv
  <2>7. put_online_on_ack' \in [Clients -> BOOLEAN]
    BY Zenon, <1>0, <1>9 DEF Reap, TypeInv, TypeOK
  <2>8. out' \in [Clients -> Seq(Items)]
    <3> <<>> \in Seq(Items) OBVIOUS
    <3> QED BY Zenon, <1>0, <1>9 DEF Reap, TypeInv
  <2>9. dirty' \in Int
    <3>1. dirty' = DirtyAfterBgsave
      BY Zenon, <1>9 DEF Reap
    <3> QED BY <2>2, <3>1
  <2>10. UNCHANGED <<data, file, aof_child, repl_diskless_sync, repl_backlog, master_repl_offset,
                     nwrites, setup>>
    BY ZenonT(60), <1>9 DEF Reap, bounds
  <2> QED BY Zenon, <1>0, <2>3, <2>4, <2>5, <2>6, <2>7, <2>8, <2>9, <2>10 DEF TypeInv, TypeOK, States
<1>10. ASSUME NEW c \in Clients, SendBulk(c) \/ ReplconfAck(c) \/ WriteToClient(c) PROVE TypeInv'
  <2>1. replstate' \in [Clients -> States]
        /\ \A d \in Clients : replstate'[d] \in {"none", "closed"} <=> replstate[d] \in {"none", "closed"}
    BY Zenon, <1>0, <1>10 DEF SendBulk, ReplconfAck, WriteToClient, TypeInv, TypeOK, States
  <2>2. put_online_on_ack' \in [Clients -> BOOLEAN]
    BY Zenon, <1>0, <1>10 DEF SendBulk, ReplconfAck, WriteToClient, TypeInv, TypeOK
  <2>3. NoRdb \in Holds
    BY DEF NoRdb, Holds
  <2>4. out[c] # <<>> => Execute(replica[c], Head(out[c])) \in Holds /\ Tail(out[c]) \in Seq(Items)
    <3>1. out[c] \in Seq(Items) /\ replica[c] \in Holds
      BY Zenon, <1>0 DEF TypeInv
    <3>2. out[c] # <<>> => Head(out[c]) \in Items /\ Tail(out[c]) \in Seq(Items)
      BY <3>1, HeadTailProperties
    <3> QED BY Zenon, <3>1, <3>2, ExecuteType
  <2>5. bulk' \in [Clients -> Holds]
    BY Zenon, <1>0, <1>10, <2>3 DEF SendBulk, ReplconfAck, WriteToClient, TypeInv
  <2>6. replica' \in [Clients -> Holds]
    BY Zenon, <1>0, <1>10, <2>4 DEF SendBulk, ReplconfAck, WriteToClient, TypeInv
  <2>7. out' \in [Clients -> Seq(Items)]
    BY ZenonT(60), <1>0, <1>10, <2>4 DEF SendBulk, ReplconfAck, WriteToClient, TypeInv
  <2>8. reploff' \in [Clients -> Nat]
    BY <1>0, <1>10 DEF SendBulk, ReplconfAck, WriteToClient, TypeInv, TypeOK
  <2>9. UNCHANGED <<linkVarsOnly, slaves>>
    BY Zenon, <1>10 DEF SendBulk, ReplconfAck, WriteToClient
  <2> QED BY ZenonT(60), <1>0, <2>1, <2>2, <2>5, <2>6, <2>7, <2>8, <2>9
          DEF TypeInv, TypeOK, States, linkVarsOnly, bounds
<1>11. ASSUME NEW c \in Clients, FreeClient(c) PROVE TypeInv'
  <2>1. replstate' = [replstate EXCEPT ![c] = "closed"] /\ replstate' \in [Clients -> States]
    BY Zenon, <1>0, <1>11 DEF FreeClient, TypeInv, TypeOK, States
  <2>2. put_online_on_ack' \in [Clients -> BOOLEAN]
    BY Zenon, <1>0, <1>11 DEF FreeClient, TypeInv, TypeOK
  <2>3. /\ slaves' \in Seq(Clients) /\ IsInjective(slaves')
        /\ {d \in Clients : replstate'[d] \notin {"none", "closed"}} = Range(slaves')
    <3>1. /\ \A d \in Clients :
                replstate[d] \in {"none", "closed"} => replstate'[d] = replstate[d]
          /\ \A d \in Clients : replstate[d] # "none" => replstate'[d] # "none"
      BY Zenon, <1>0, <1>11, <2>1 DEF FreeClient, TypeInv, TypeOK
    <3> QED BY Zenon, <1>0, <1>11, <2>1, <3>1, SlavesType DEF FreeClient
  <2>4. NoRdb \in Holds /\ <<>> \in Seq(Items)
    BY DEF NoRdb, Holds
  <2>5. bulk' \in [Clients -> Holds] /\ replica' \in [Clients -> Holds]
        /\ out' \in [Clients -> Seq(Items)] /\ reploff' \in [Clients -> Nat]
    BY Zenon, <1>0, <1>11, <2>4 DEF FreeClient, TypeInv, TypeOK
  <2> QED BY Zenon, <1>0, <1>11, <2>1, <2>2, <2>3, <2>5
          DEF FreeClient, TypeInv, TypeOK, States, linkVarsOnly, bounds
<1>12. ASSUME UNCHANGED vars PROVE TypeInv'
  BY Zenon, <1>0, <1>12 DEF TypeInv, TypeOK, vars, repVars, bounds
<1> QED
  BY Zenon, <1>0, <1>1, <1>2, <1>3, <1>4, <1>5, <1>6, <1>7, <1>8, <1>9, <1>10, <1>11, <1>12 DEF Next

-----------------------------------------------------------------------------
(* Every step keeps the rest of the invariant.                              *)

\* The outcomes of startBgsaveForReplication.
Forked(rs, capa, d) ==
    /\ child' = [type |-> IF SocketTarget(capa) THEN "socket" ELSE "disk",
                 snap |-> Rdb(data), status |-> "run",
                 targets |-> IF SocketTarget(capa) THEN Waiting(rs) ELSE {}, good |-> {}]
    /\ replstate' = [c \in Clients |-> IF rs[c] = "wait_bgsave_start" THEN "wait_bgsave_end"
                                                                     ELSE rs[c]]
    /\ reploff' = [c \in Clients |-> IF rs[c] = "wait_bgsave_start" THEN master_repl_offset
                                                                   ELSE reploff[c]]
    /\ slaveseldb' = -1
    /\ dirty_before_bgsave' = IF SocketTarget(capa) THEN dirty_before_bgsave ELSE d

NotForked(rs) ==
    /\ child' = NoChild
    /\ replstate' = [c \in Clients |-> IF rs[c] = "wait_bgsave_start" THEN "closed" ELSE rs[c]]
    /\ slaveseldb' \in {slaveseldb, -1}
    /\ reploff' = reploff

\* startBgsaveForReplication either forks or drops everyone who waits for it.
LEMMA StartOutcome ==
    ASSUME NEW rs, NEW capa, NEW d, StartBgsave(rs, capa, d)
    PROVE  Forked(rs, capa, d) \/ NotForked(rs)
<1>1. \A c \in Clients : c \in Waiting(rs) <=> rs[c] = "wait_bgsave_start"
  BY DEF Waiting
<1>2. CASE ~ aof_child /\ child' = [type |-> IF SocketTarget(capa) THEN "socket" ELSE "disk",
                        snap |-> Rdb(data), status |-> "run",
                        targets |-> IF SocketTarget(capa) THEN Waiting(rs) ELSE {}, good |-> {}]
            /\ replstate' = [c \in Clients |-> IF c \in Waiting(rs) THEN "wait_bgsave_end" ELSE rs[c]]
           /\ reploff' = [c \in Clients |-> IF c \in Waiting(rs) THEN master_repl_offset
                                                       ELSE reploff[c]]
           /\ slaveseldb' = SeldbForNewReplica
           /\ dirty_before_bgsave' = IF SocketTarget(capa) THEN dirty_before_bgsave ELSE d
  BY Zenon, <1>1, <1>2 DEF Forked, SeldbForNewReplica
<1>3. CASE /\ child' = NoChild
           /\ replstate' = [c \in Clients |-> IF c \in Waiting(rs) THEN "closed" ELSE rs[c]]
           /\ slaveseldb' \in {slaveseldb, -1}
           /\ reploff' = reploff
  BY <1>1, <1>3 DEF NotForked
<1> QED BY <1>2, <1>3 DEF StartBgsave

\* What Reap does to the states of the replicas: those who waited for the child
\* are served or closed, those who waited for its end to have their own may be next.
LEMMA ReapOutcome ==
    ASSUME Reap
    PROVE  \E rs : /\ rs = [c \in Clients |-> StateAfterBgsave(c)]
                   /\ \/ Forked(rs, Waiting(rs) \subseteq setup.eof, DirtyAfterBgsave)
                      \/ NotForked(rs)
<1>1. PICK rs : rs = [c \in Clients |-> StateAfterBgsave(c)]
  BY Zenon
<1>2. CASE StartBgsave(rs, Waiting(rs) \subseteq setup.eof, DirtyAfterBgsave)
  BY ZenonT(60), <1>1, <1>2, StartOutcome
<1>3. CASE /\ Waiting(rs) = {}
           /\ replstate' = rs /\ child' = NoChild
           /\ UNCHANGED <<dirty_before_bgsave, slaveseldb, reploff>>
  <2>1. \A c \in Clients : rs[c] # "wait_bgsave_start"
    BY <1>3 DEF Waiting
  <2>2. replstate' = [c \in Clients |-> IF rs[c] = "wait_bgsave_start" THEN "closed" ELSE rs[c]]
    BY Zenon, <1>1, <1>3, <2>1
  <2> QED BY <1>1, <1>3, <2>2 DEF NotForked
<1> QED BY Zenon, <1>1, <1>2, <1>3 DEF Reap

\* A child that starts when nobody waits for the end of another serves who waits.
LEMMA StartServes ==
    ASSUME NEW rs, NEW capa, NEW d, Forked(rs, capa, d) \/ NotForked(rs),
           \A c \in Clients : rs[c] # "wait_bgsave_end",
           SocketTarget(capa) => Waiting(rs) \subseteq setup.eof,
           setup' = setup
    PROVE  ChildServesWaiting'
<1>1. CASE NotForked(rs)
  BY Zenon, <1>1 DEF NotForked, NoChild, ChildServesWaiting
<1>2. CASE Forked(rs, capa, d)
  BY Zenon, <1>2 DEF Forked, Waiting, ChildServesWaiting
<1> QED BY Zenon, <1>1, <1>2

\* Every step keeps: who waits for a child is served by the child there is.
LEMMA ServesStep == IInv /\ [Next]_vars => ChildServesWaiting'
<1> SUFFICES ASSUME IInv, [Next]_vars PROVE ChildServesWaiting'
  OBVIOUS
<1>0. TypeInv /\ ChildServesWaiting /\ replstate \in [Clients -> States]
      /\ setup.clients \subseteq Clients
  BY Zenon DEF IInv, TypeInv, TypeOK, States, Setup
<1> USE DEF ChildServesWaiting
<1>1. ASSUME NEW db \in Dbs, Write(db) PROVE ChildServesWaiting'
  BY <1>0, <1>1 DEF Write
<1>2. ASSUME NEW db \in Dbs, Flushall(db) PROVE ChildServesWaiting'
  <2>1. child'.type = child.type /\ (child.type = "socket" => child'.targets = child.targets)
        /\ replstate' = replstate /\ setup' = setup
    BY ZenonT(60), <1>0, <1>2 DEF Flushall, TypeInv, TypeOK, Child
  <2> QED BY <1>0, <2>1
<1>3. ASSUME NEW c \in Clients, SyncCommand(c) PROVE ChildServesWaiting'
  <2>0. replstate[c] = "none" /\ setup' = setup
    BY <1>3 DEF SyncCommand, bounds
  <2>1. CASE \E s \in Clients : SyncAttach(c, s)
    BY ZenonT(60), <1>0, <2>0, <2>1 DEF SyncAttach
  <2>2. CASE SyncWait(c)
    BY <1>0, <2>0, <2>2 DEF SyncWait
  <2>3. CASE SyncStart(c)
    <3>1. PICK rs : rs = [replstate EXCEPT ![c] = "wait_bgsave_start"]
      BY Zenon
    <3>2. Forked(rs, c \in setup.eof, dirty) \/ NotForked(rs)
      BY Zenon, <2>3, <3>1, StartOutcome DEF SyncStart
    <3>3. \A d \in Clients : rs[d] # "wait_bgsave_end"
      BY Zenon, <1>0, <2>3, <3>1 DEF SyncStart
    <3>4. ~ SocketTarget(c \in setup.eof)
      BY Zenon, <2>3 DEF SyncStart, SocketTarget
    <3> HIDE DEF ChildServesWaiting
    <3> QED BY <2>0, <3>2, <3>3, <3>4, StartServes
  <2> QED BY <1>3, <2>1, <2>2, <2>3 DEF SyncCommand
<1>4. ASSUME CronStartBgsave PROVE ChildServesWaiting'
  <2>1. Forked(replstate, Waiting(replstate) \subseteq setup.eof, dirty) \/ NotForked(replstate)
    BY Zenon, <1>4, StartOutcome DEF CronStartBgsave
  <2>2. \A d \in Clients : replstate[d] # "wait_bgsave_end"
    BY Zenon, <1>0, <1>4 DEF CronStartBgsave
  <2>3. setup' = setup
    BY <1>4 DEF CronStartBgsave, bounds
  <2>4. SocketTarget(Waiting(replstate) \subseteq setup.eof) => Waiting(replstate) \subseteq setup.eof
    BY Zenon DEF SocketTarget
  <2> HIDE DEF ChildServesWaiting
  <2> QED BY Zenon, <2>1, <2>2, <2>3, <2>4, StartServes
<1>5. ASSUME BgsaveCommand PROVE ChildServesWaiting'
  BY Zenon, <1>0, <1>5 DEF BgsaveCommand, repVars
<1>6. ASSUME SaveCommand \/ AofRewriteStart \/ AofRewriteDone \/ SetDiskless
      PROVE  ChildServesWaiting'
  BY Zenon, <1>0, <1>6 DEF SaveCommand, AofRewriteStart, AofRewriteDone, SetDiskless, repVars, bounds
<1>7. ASSUME ChildExit PROVE ChildServesWaiting'
  <2>1. child'.type = child.type /\ (child.type = "socket" => child'.targets = child.targets)
        /\ replstate' = replstate /\ setup' = setup
    BY Zenon, <1>0, <1>7 DEF ChildExit, TypeInv, TypeOK, Child, repVars, bounds
  <2> QED BY <1>0, <2>1
<1>8. ASSUME Reap PROVE ChildServesWaiting'
  <2>1. PICK rs : /\ rs = [c \in Clients |-> StateAfterBgsave(c)]
                  /\ \/ Forked(rs, Waiting(rs) \subseteq setup.eof, DirtyAfterBgsave)
                     \/ NotForked(rs)
    BY Zenon, <1>8, ReapOutcome
  <2>2. \A c \in Clients : rs[c] # "wait_bgsave_end"
    BY <1>0, <2>1 DEF StateAfterBgsave, States
  <2>3. setup' = setup
    BY Zenon, <1>8 DEF Reap, bounds
  <2>4. SocketTarget(Waiting(rs) \subseteq setup.eof) => Waiting(rs) \subseteq setup.eof
    BY Zenon DEF SocketTarget
  <2> HIDE DEF ChildServesWaiting
  <2> QED BY Zenon, <2>1, <2>2, <2>3, <2>4, StartServes
<1>9. ASSUME NEW c \in Clients, SendBulk(c) \/ ReplconfAck(c) \/ WriteToClient(c)
      PROVE  ChildServesWaiting'
  <2>1. /\ child' = child /\ setup' = setup
        /\ \A d \in Clients : \/ replstate[d] \in {"wait_bgsave_end", "closed"}
                              \/ replstate'[d] # "wait_bgsave_end"
        /\ \A d \in Clients : replstate[d] \in {"wait_bgsave_end", "closed"}
                                  => replstate'[d] = replstate[d]
    BY Zenon, <1>0, <1>9 DEF SendBulk, ReplconfAck, WriteToClient, linkVarsOnly, bounds
  <2>2. child.type = "socket" => child.targets \subseteq Clients
    BY Zenon, <1>0 DEF TypeInv, Child
  <2> QED BY Zenon, <1>0, <2>1, <2>2
<1>10. ASSUME NEW c \in Clients, FreeClient(c) PROVE ChildServesWaiting'
  <2>1. /\ replstate' = [replstate EXCEPT ![c] = "closed"]
        /\ UNCHANGED <<child, setup>>
    BY ZenonT(60), <1>10 DEF FreeClient, linkVarsOnly, bounds
  <2>2. child.type = "socket" => child.targets \subseteq Clients
    BY <1>0 DEF TypeInv, Child
  <2> QED BY <1>0, <2>1, <2>2
<1>11. ASSUME UNCHANGED vars PROVE ChildServesWaiting'
  BY Zenon, <1>0, <1>11 DEF vars, repVars, bounds
<1> HIDE DEF ChildServesWaiting
<1> QED
  BY Zenon, <1>0, <1>1, <1>2, <1>3, <1>4, <1>5, <1>6, <1>7, <1>8, <1>9, <1>10, <1>11 DEF Next

\* What is fed to a replica is counted.
LEMMA FeedCounts ==
    ASSUME TypeInv, BufferInv, NEW db \in Dbs, NEW x \in Items, FeedSlaves(db, x),
           replstate' = replstate, reploff' = reploff
    PROVE  BufferInv'
<1>1. PICK items \in Seq(Items) :
          items = IF slaveseldb = db THEN <<x>> ELSE <<[t |-> "select", db |-> db], x>>
  <2>1. [t |-> "select", db |-> db] \in Items
    BY FullSyncAssumption DEF Items
  <2>2. <<x>> \in Seq(Items) /\ <<[t |-> "select", db |-> db], x>> \in Seq(Items)
    BY <2>1
  <2> QED BY Zenon, <2>2
<1>2. CASE repl_backlog
  <2>1. master_repl_offset' = master_repl_offset + Len(items)
        /\ out' = [c \in Clients |-> IF Fed(c) THEN out[c] \o items ELSE out[c]]
    BY Zenon, <1>1, <1>2 DEF FeedSlaves
  <2>2. ASSUME NEW c \in Clients, Fed(c)
        PROVE  reploff'[c] + Len(out'[c]) = master_repl_offset'
    <3>1. out[c] \in Seq(Items) /\ reploff[c] \in Nat /\ master_repl_offset \in Nat
      BY DEF TypeInv, TypeOK
    <3>2. out'[c] = out[c] \o items
      BY <2>1, <2>2
    <3>8. reploff[c] + Len(out[c]) = master_repl_offset
      BY Zenon, <2>2 DEF BufferInv, OffsetCounts
    <3>3. Len(out'[c]) = Len(out[c]) + Len(items)
      BY Zenon, <3>1, <3>2, ConcatProperties
    <3>4. Len(out[c]) \in Nat /\ Len(items) \in Nat
      BY <3>1
    <3>6. reploff'[c] = reploff[c]
      OBVIOUS
    <3>7. reploff[c] + (Len(out[c]) + Len(items)) = master_repl_offset + Len(items)
      <4>1. PICK a \in Nat : a = reploff[c] BY <3>1
      <4>2. PICK b \in Nat : b = Len(out[c]) BY <3>4
      <4>3. PICK k \in Nat : k = Len(items) BY <3>4
      <4>4. PICK m \in Nat : m = master_repl_offset BY <3>1
      <4>5. a + b = m
        BY <3>8, <4>1, <4>2, <4>4
      <4>6. a + (b + k) = m + k
        BY <4>5
      <4> QED BY <4>1, <4>2, <4>3, <4>4, <4>6, Zenon
    <3> QED BY Zenon, <2>1, <3>3, <3>6, <3>7
  <2>3. \A c \in Clients : replstate[c] \in {"none", "wait_bgsave_start"} => out'[c] = <<>>
    BY <2>1 DEF Fed, BufferInv
  <2>4. \A c \in Clients : Fed(c)' <=> Fed(c)
    BY DEF Fed
  <2> QED BY <2>2, <2>3, <2>4 DEF BufferInv, OffsetCounts
<1>3. CASE ~ repl_backlog
  BY Zenon, <1>3 DEF FeedSlaves, BufferInv, OffsetCounts, Fed
<1> QED BY <1>2, <1>3

\* A replica starts to be fed, with nothing in its buffer, at the present offset.
LEMMA StartCounts ==
    ASSUME TypeInv, NEW rs, NEW capa, NEW d, Forked(rs, capa, d) \/ NotForked(rs),
           master_repl_offset' = master_repl_offset,
           \A c \in Clients : rs[c] \in {"none", "wait_bgsave_start"} => out[c] = <<>>,
           \A c \in Clients : rs[c] \in {"wait_bgsave_end", "send_bulk", "online"} => Fed(c),
           OffsetCounts,
           \A c \in Clients : replstate'[c] = "closed" \/ out'[c] = out[c]
    PROVE  BufferInv'
<1>1. CASE Forked(rs, capa, d)
  <2>1. ASSUME NEW c \in Clients, Fed(c)'
        PROVE  reploff'[c] + Len(out'[c]) = master_repl_offset'
    <3>1. CASE rs[c] = "wait_bgsave_start"
      <4>1. out'[c] = <<>> /\ reploff'[c] = master_repl_offset
        BY Zenon, <1>1, <3>1 DEF Forked
      <4> QED BY <4>1 DEF TypeInv, TypeOK
    <3>2. CASE rs[c] # "wait_bgsave_start"
      <4>1. replstate'[c] = rs[c] /\ reploff'[c] = reploff[c]
        BY Zenon, <1>1, <3>2 DEF Forked
      <4>2. Fed(c) /\ out'[c] = out[c]
        BY Zenon, <2>1, <4>1 DEF Fed
      <4> QED BY Zenon, <4>1, <4>2 DEF OffsetCounts
    <3> QED BY Zenon, <3>1, <3>2
  <2>2. ASSUME NEW c \in Clients, replstate'[c] \in {"none", "wait_bgsave_start"}
        PROVE  out'[c] = <<>>
    <3>1. rs[c] # "wait_bgsave_start" /\ replstate'[c] = rs[c]
      BY Zenon, <1>1, <2>2 DEF Forked
    <3> QED BY ZenonT(60), <2>2, <3>1
  <2> QED BY Zenon, <2>1, <2>2 DEF BufferInv, OffsetCounts
<1>2. CASE NotForked(rs)
  <2>1. ASSUME NEW c \in Clients, Fed(c)'
        PROVE  reploff'[c] + Len(out'[c]) = master_repl_offset'
    <3>1. replstate'[c] = rs[c] /\ reploff'[c] = reploff[c]
      BY Zenon, <1>2, <2>1 DEF NotForked, Fed
    <3>2. Fed(c) /\ out'[c] = out[c]
      BY Zenon, <2>1, <3>1 DEF Fed
    <3> QED BY Zenon, <3>1, <3>2 DEF OffsetCounts
  <2>2. ASSUME NEW c \in Clients, replstate'[c] \in {"none", "wait_bgsave_start"}
        PROVE  out'[c] = <<>>
    BY <1>2, <2>2 DEF NotForked
  <2> QED BY <2>1, <2>2 DEF BufferInv, OffsetCounts
<1> QED BY Zenon, <1>1, <1>2

\* Every step keeps: announced offset plus buffered bytes is the master's offset.
LEMMA BufferStep == IInv /\ [Next]_vars => BufferInv'
<1> SUFFICES ASSUME IInv, [Next]_vars PROVE BufferInv'
  OBVIOUS
<1>0. TypeInv /\ BufferInv /\ OffsetCounts /\ replstate \in [Clients -> States]
      /\ setup.clients \subseteq Clients
  BY Zenon DEF IInv, TypeInv, TypeOK, States, Setup, BufferInv
<1>1. ASSUME NEW db \in Dbs, Write(db) PROVE BufferInv'
  <2>1. [t |-> "write", w |-> nwrites + 1] \in Items
    BY <1>0 DEF Items, TypeInv
  <2> QED BY Zenon, <1>0, <1>1, <2>1, FeedCounts DEF Write
<1>2. ASSUME NEW db \in Dbs, Flushall(db) PROVE BufferInv'
  <2>1. [t |-> "flush"] \in Items
    BY DEF Items
  <2> QED BY Zenon, <1>0, <1>2, <2>1, FeedCounts DEF Flushall
<1>3. ASSUME NEW c \in Clients, SyncCommand(c) PROVE BufferInv'
  <2>0. replstate[c] = "none" /\ master_repl_offset' = master_repl_offset
    BY Zenon, <1>3 DEF SyncCommand
  <2>1. CASE \E s \in Clients : SyncAttach(c, s)
    <3>1. PICK s \in Clients : SyncAttach(c, s)
      BY <2>1
    <3>2. replstate[s] = "wait_bgsave_end"
      BY <3>1 DEF SyncAttach, CanAttach, FirstWaitingEnd
    <3>3. /\ replstate' = [replstate EXCEPT ![c] = "wait_bgsave_end"]
          /\ reploff' = [reploff EXCEPT ![c] = reploff[s]]
          /\ out' = [out EXCEPT ![c] = out[s]]
      BY Zenon, <3>1 DEF SyncAttach, AttachOffset, AttachBuffer
    <3>4. ASSUME NEW d \in Clients, Fed(d)'
          PROVE  reploff'[d] + Len(out'[d]) = master_repl_offset'
      BY Zenon, <1>0, <2>0, <3>2, <3>3, <3>4 DEF OffsetCounts, Fed, TypeInv, TypeOK
    <3>5. \A d \in Clients : replstate'[d] \in {"none", "wait_bgsave_start"} => out'[d] = <<>>
      BY Zenon, <1>0, <3>3 DEF BufferInv, TypeInv
    <3> QED BY Zenon, <3>4, <3>5 DEF BufferInv, OffsetCounts
  <2>2. CASE SyncWait(c)
    BY Zenon, <1>0, <2>0, <2>2 DEF SyncWait, BufferInv, OffsetCounts, Fed
  <2>3. CASE SyncStart(c)
    <3>1. PICK rs : rs = [replstate EXCEPT ![c] = "wait_bgsave_start"]
      BY Zenon
    <3>2. Forked(rs, c \in setup.eof, dirty) \/ NotForked(rs)
      BY <2>3, <3>1, StartOutcome DEF SyncStart
    <3>3. out' = out
      BY <2>3 DEF SyncStart
    <3>4. \A d \in Clients : rs[d] \in {"none", "wait_bgsave_start"} => out[d] = <<>>
      BY <1>0, <2>0, <3>1 DEF BufferInv
    <3>5. \A d \in Clients : rs[d] \in {"wait_bgsave_end", "send_bulk", "online"} => Fed(d)
      BY <1>0, <3>1 DEF Fed
    <3> QED BY Zenon, <1>0, <2>0, <3>2, <3>3, <3>4, <3>5, StartCounts
  <2> QED BY <1>3, <2>1, <2>2, <2>3 DEF SyncCommand
<1>4. ASSUME CronStartBgsave PROVE BufferInv'
  <2>1. Forked(replstate, Waiting(replstate) \subseteq setup.eof, dirty) \/ NotForked(replstate)
    BY <1>4, StartOutcome DEF CronStartBgsave
  <2>2. out' = out /\ master_repl_offset' = master_repl_offset
    BY <1>4 DEF CronStartBgsave
  <2>3. \A d \in Clients : replstate[d] \in {"none", "wait_bgsave_start"} => out[d] = <<>>
    BY <1>0 DEF BufferInv
  <2>4. \A d \in Clients : replstate[d] \in {"wait_bgsave_end", "send_bulk", "online"} => Fed(d)
    BY DEF Fed
  <2> QED BY Zenon, <1>0, <2>1, <2>2, <2>3, <2>4, StartCounts
<1>5. ASSUME BgsaveCommand \/ SaveCommand \/ AofRewriteStart \/ AofRewriteDone \/ SetDiskless
             \/ ChildExit
      PROVE  BufferInv'
  <2>1. UNCHANGED <<repVars, master_repl_offset>>
    BY Zenon, <1>5 DEF BgsaveCommand, SaveCommand, AofRewriteStart, AofRewriteDone, SetDiskless, ChildExit
  <2> QED BY <1>0, <2>1 DEF repVars, BufferInv, OffsetCounts, Fed
<1>6. ASSUME Reap PROVE BufferInv'
  <2>1. PICK rs : /\ rs = [c \in Clients |-> StateAfterBgsave(c)]
                  /\ \/ Forked(rs, Waiting(rs) \subseteq setup.eof, DirtyAfterBgsave)
                     \/ NotForked(rs)
    BY <1>6, ReapOutcome
  <2>2. master_repl_offset' = master_repl_offset
        /\ \A c \in Clients : replstate'[c] = "closed" \/ out'[c] = out[c]
    BY Zenon, <1>6 DEF Reap
  <2>3. \A c \in Clients : rs[c] \in {"none", "wait_bgsave_start"} => out[c] = <<>>
    BY <1>0, <2>1 DEF StateAfterBgsave, BufferInv
  <2>4. \A c \in Clients : rs[c] \in {"wait_bgsave_end", "send_bulk", "online"} => Fed(c)
    BY <1>0, <2>1 DEF StateAfterBgsave, Fed
  <2> QED BY Zenon, <1>0, <2>1, <2>2, <2>3, <2>4, StartCounts
<1>7. ASSUME NEW c \in Clients, SendBulk(c) \/ ReplconfAck(c) PROVE BufferInv'
  <2>1. UNCHANGED <<out, reploff, master_repl_offset>>
        /\ \A d \in Clients : Fed(d)' <=> Fed(d)
    BY <1>0, <1>7 DEF SendBulk, ReplconfAck, linkVarsOnly, Fed
  <2>4. out' = out
        /\ \A d \in Clients : replstate'[d] \in {"none", "wait_bgsave_start"}
                                  => replstate[d] \in {"none", "wait_bgsave_start"}
    BY <1>0, <1>7 DEF SendBulk, ReplconfAck, linkVarsOnly, Fed
  <2>2. OffsetCounts'
    BY <1>0, <2>1 DEF OffsetCounts
  <2>3. ASSUME NEW d \in Clients, replstate'[d] \in {"none", "wait_bgsave_start"}
        PROVE  out'[d] = <<>>
    <3>1. out[d] = <<>>
      BY Zenon, <1>0, <2>3, <2>4 DEF BufferInv
    <3> QED BY Zenon, <2>4, <3>1
  <2> QED BY <2>2, <2>3 DEF BufferInv
<1>8. ASSUME NEW c \in Clients, WriteToClient(c) PROVE BufferInv'
  <2>1. /\ out' = [out EXCEPT ![c] = Tail(out[c])] /\ reploff' = [reploff EXCEPT ![c] = reploff[c] + 1]
        /\ UNCHANGED <<replstate, master_repl_offset>> /\ out[c] # <<>> /\ replstate[c] = "online"
    BY Zenon, <1>8 DEF WriteToClient, linkVarsOnly
  <2>2. Len(Tail(out[c])) = Len(out[c]) - 1 /\ Len(out[c]) \in Nat /\ reploff[c] \in Nat
    BY <1>0, <2>1, HeadTailProperties DEF TypeInv, TypeOK
  <2>3. ASSUME NEW d \in Clients, Fed(d)'
        PROVE  reploff'[d] + Len(out'[d]) = master_repl_offset'
    <3>1. Fed(d) /\ reploff[d] + Len(out[d]) = master_repl_offset
      BY Zenon, <1>0, <2>1, <2>3 DEF Fed, OffsetCounts
    <3>2. CASE d = c
      <4>1. reploff'[c] = reploff[c] + 1 /\ Len(out'[c]) = Len(out[c]) - 1
        BY ZenonT(60), <1>0, <2>1, <2>2 DEF TypeInv, TypeOK
      <4> QED BY <2>1, <2>2, <3>1, <3>2, <4>1
    <3>3. CASE d # c
      BY Zenon, <1>0, <2>1, <3>1, <3>3 DEF TypeInv, TypeOK
    <3> QED BY Zenon, <3>2, <3>3
  <2>4. \A d \in Clients : replstate'[d] \in {"none", "wait_bgsave_start"} => out'[d] = <<>>
    BY <1>0, <2>1 DEF BufferInv
  <2> QED BY Zenon, <2>3, <2>4 DEF BufferInv, OffsetCounts
<1>9. ASSUME NEW c \in Clients, FreeClient(c) PROVE BufferInv'
  BY Zenon, <1>0, <1>9 DEF FreeClient, linkVarsOnly, Fed, BufferInv, OffsetCounts, TypeInv, TypeOK
<1>10. ASSUME UNCHANGED vars PROVE BufferInv'
  BY Zenon, <1>0, <1>10 DEF vars, repVars, BufferInv, OffsetCounts, Fed
<1> QED
  BY ZenonT(60), <1>0, <1>1, <1>2, <1>3, <1>4, <1>5, <1>6, <1>7, <1>8, <1>9, <1>10 DEF Next

\* Every step keeps: no unsaved change is forgotten.
LEMMA DirtyStep == IInv /\ [Next]_vars => DirtyInv'
<1> SUFFICES ASSUME IInv, [Next]_vars PROVE DirtyInv'
  OBVIOUS
<1>0. TypeInv /\ DirtyInv /\ dirty \in Nat /\ dirty_before_bgsave \in Nat
      /\ data \in Seq(Int \X Nat) /\ setup.clients \subseteq Clients
  BY DEF IInv, TypeInv, TypeOK, Setup, DirtyInv, DirtyNeverForgets
<1>1. ASSUME NEW db \in Dbs, Write(db) PROVE DirtyInv'
  <2>1. dirty' = dirty + 1 /\ UNCHANGED <<dirty_before_bgsave, child>>
    BY Zenon, <1>1 DEF Write
  <2>2. dirty' > 0 /\ (child'.type = "disk" => dirty' > dirty_before_bgsave')
    BY <1>0, <2>1 DEF DirtyInv
  <2> QED BY <1>0, <2>1, <2>2 DEF DirtyInv, DirtyNeverForgets
<1>2. ASSUME NEW db \in Dbs, Flushall(db) PROVE DirtyInv'
  <2>1. dirty' = dirty + Len(data) + 1 /\ dirty_before_bgsave' = dirty_before_bgsave
        /\ child'.type = child.type
    BY <1>0, <1>2 DEF Flushall, TypeInv, TypeOK, Child
  <2>2. Len(data) \in Nat
    BY <1>0
  <2>3. dirty' > 0 /\ (child'.type = "disk" => dirty' > dirty_before_bgsave')
    BY <1>0, <2>1, <2>2 DEF DirtyInv
  <2> QED BY <1>0, <2>1, <2>2, <2>3 DEF DirtyInv, DirtyNeverForgets
<1>3. ASSUME NEW rs, NEW capa, Forked(rs, capa, dirty) \/ NotForked(rs),
             UNCHANGED <<dirty, file, data>>
      PROVE  DirtyInv'
  <2>1. CASE Forked(rs, capa, dirty)
    <3>1. child'.type = "disk" => dirty_before_bgsave' = dirty /\ child'.snap.data = data
                                  /\ child'.status = "run"
      BY Zenon, <1>0, <2>1, RdbType DEF Forked
    <3> QED BY <1>0, <1>3, <3>1 DEF DirtyInv, DirtyNeverForgets
  <2>2. CASE NotForked(rs)
    BY Zenon, <1>0, <1>3, <2>2 DEF NotForked, NoChild, DirtyInv, DirtyNeverForgets
  <2> QED BY Zenon, <1>3, <2>1, <2>2
<1>4. ASSUME NEW c \in Clients, SyncCommand(c) PROVE DirtyInv'
  <2>1. UNCHANGED <<dirty, file, data>>
    BY Zenon, <1>4 DEF SyncCommand
  <2>2. CASE (\E s \in Clients : SyncAttach(c, s)) \/ SyncWait(c)
    <3>1. UNCHANGED <<child, dirty_before_bgsave>>
      BY Zenon, <2>2 DEF SyncAttach, SyncWait
    <3> QED BY Zenon, <1>0, <2>1, <3>1 DEF DirtyInv, DirtyNeverForgets
  <2>3. CASE SyncStart(c)
    <3>1. PICK rs : Forked(rs, c \in setup.eof, dirty) \/ NotForked(rs)
      BY Zenon, <2>3, StartOutcome DEF SyncStart
    <3> QED BY Zenon, <1>3, <2>1, <3>1
  <2> QED BY <1>4, <2>2, <2>3 DEF SyncCommand
<1>5. ASSUME CronStartBgsave PROVE DirtyInv'
  <2>1. UNCHANGED <<dirty, file, data>>
    BY Zenon, <1>5 DEF CronStartBgsave
  <2>2. Forked(replstate, Waiting(replstate) \subseteq setup.eof, dirty) \/ NotForked(replstate)
    BY <1>5, StartOutcome DEF CronStartBgsave
  <2> QED BY Zenon, <1>3, <2>1, <2>2
<1>6. ASSUME BgsaveCommand PROVE DirtyInv'
  <2>1. child'.type = "disk" /\ dirty_before_bgsave' = dirty /\ child'.snap.data = data
        /\ child'.status = "run" /\ UNCHANGED <<dirty, file, data>>
    BY Zenon, <1>0, <1>6, RdbType DEF BgsaveCommand
  <2> QED BY <1>0, <2>1 DEF DirtyInv, DirtyNeverForgets
<1>7. ASSUME SaveCommand PROVE DirtyInv'
  <2>1. file'.data = data /\ data' = data /\ dirty' = 0 /\ child'.type = "none"
    BY Zenon, <1>0, <1>7, RdbType DEF SaveCommand
  <2> QED BY <2>1 DEF DirtyInv, DirtyNeverForgets
<1>8. ASSUME AofRewriteStart \/ AofRewriteDone \/ SetDiskless PROVE DirtyInv'
  <2>1. UNCHANGED <<dirty, dirty_before_bgsave, file, data, child>>
    BY Zenon, <1>8 DEF AofRewriteStart, AofRewriteDone, SetDiskless
  <2> QED BY Zenon, <1>0, <2>1 DEF DirtyInv, DirtyNeverForgets
<1>9. ASSUME ChildExit PROVE DirtyInv'
  <2>1. UNCHANGED <<data, dirty, dirty_before_bgsave>> /\ child.status = "run"
    BY Zenon, <1>9 DEF ChildExit
  <2>2. child'.type = child.type
        /\ (child'.status = "ok" /\ child.type = "disk" => file' = child.snap)
        /\ file' \in {file, child.snap} /\ child'.status # "run"
        /\ (file' # file => child.type = "disk")
    BY Zenon, <1>0, <1>9 DEF ChildExit, TypeInv, TypeOK, Child
  <2>3. dirty = 0 => file'.data = data
    BY <1>0, <2>1, <2>2 DEF DirtyInv, DirtyNeverForgets
  <2> QED BY <1>0, <2>1, <2>2, <2>3 DEF DirtyInv, DirtyNeverForgets
<1>10. ASSUME Reap PROVE DirtyInv'
  <2>1. PICK rs : \/ Forked(rs, Waiting(rs) \subseteq setup.eof, DirtyAfterBgsave)
                  \/ NotForked(rs)
    BY <1>10, ReapOutcome
  <2>2. dirty' = DirtyAfterBgsave /\ UNCHANGED <<file, data>>
    BY Zenon, <1>10 DEF Reap
  <2>3. DirtyAfterBgsave >= 0 /\ (DirtyAfterBgsave = 0 => file.data = data)
    BY <1>0 DEF DirtyAfterBgsave, DirtyInv, DirtyNeverForgets
  <2>4. DirtyAfterBgsave \in Int
    BY <1>0 DEF DirtyAfterBgsave
  <2>5. CASE Forked(rs, Waiting(rs) \subseteq setup.eof, DirtyAfterBgsave)
    <3>1. child'.type = "disk" => dirty_before_bgsave' = dirty' /\ child'.snap.data = data
                                  /\ child'.status = "run"
      BY Zenon, <1>0, <2>2, <2>5, RdbType DEF Forked
    <3> QED BY <2>2, <2>3, <2>4, <3>1 DEF DirtyInv, DirtyNeverForgets
  <2>6. CASE NotForked(rs)
    <3>1. child'.type = "none"
      BY Zenon, <2>6 DEF NotForked, NoChild
    <3> QED BY <2>2, <2>3, <3>1 DEF DirtyInv, DirtyNeverForgets
  <2> QED BY ZenonT(60), <2>1, <2>5, <2>6
<1>11. ASSUME NEW c \in Clients,
              SendBulk(c) \/ ReplconfAck(c) \/ WriteToClient(c) \/ FreeClient(c)
       PROVE  DirtyInv'
  <2>1. UNCHANGED linkVarsOnly
    BY <1>11 DEF SendBulk, ReplconfAck, WriteToClient, FreeClient
  <2> QED BY Zenon, <1>0, <2>1 DEF linkVarsOnly, DirtyInv, DirtyNeverForgets
<1>12. ASSUME UNCHANGED vars PROVE DirtyInv'
  BY Zenon, <1>0, <1>12 DEF vars, DirtyInv, DirtyNeverForgets
<1> QED
  BY ZenonT(60), <1>0, <1>1, <1>2, <1>4, <1>5, <1>6, <1>7, <1>8, <1>9, <1>10, <1>11, <1>12 DEF Next

\* Every step keeps: a client that once asked to synchronise implies a backlog.
LEMMA BacklogStep == IInv /\ [Next]_vars => BacklogInv'
<1> SUFFICES ASSUME IInv, [Next]_vars PROVE BacklogInv'
  OBVIOUS
<1>0. BacklogInv /\ replstate \in [Clients -> States] /\ setup.clients \subseteq Clients
  BY Zenon DEF IInv, TypeInv, TypeOK, States, Setup
<1>1. ASSUME NEW c \in Clients, SyncCommand(c) PROVE BacklogInv'
  BY Zenon, <1>1 DEF SyncCommand, BacklogInv
<1>2. ASSUME \A c \in Clients : replstate'[c] # "none" => replstate[c] # "none",
             repl_backlog' = repl_backlog
      PROVE  BacklogInv'
  BY <1>0, <1>2 DEF BacklogInv
<1>3. ASSUME NEW db \in Dbs, Write(db) \/ Flushall(db) PROVE BacklogInv'
  BY <1>2, <1>3 DEF Write, Flushall
<1>4. ASSUME CronStartBgsave PROVE BacklogInv'
  <2>1. \A c \in Clients : replstate'[c] # "none" => replstate[c] # "none"
    BY <1>4, StartOutcome DEF CronStartBgsave, Forked, NotForked
  <2> QED BY Zenon, <1>2, <1>4, <2>1 DEF CronStartBgsave
<1>5. ASSUME BgsaveCommand \/ SaveCommand \/ AofRewriteStart \/ AofRewriteDone \/ SetDiskless
             \/ ChildExit
      PROVE  BacklogInv'
  <2>1. UNCHANGED <<repVars, repl_backlog>>
    BY Zenon, <1>5 DEF BgsaveCommand, SaveCommand, AofRewriteStart, AofRewriteDone, SetDiskless, ChildExit
  <2> QED BY <1>2, <2>1 DEF repVars
<1>6. ASSUME Reap PROVE BacklogInv'
  <2>1. \A c \in Clients : replstate'[c] # "none" => replstate[c] # "none"
    BY ZenonT(60), <1>6, ReapOutcome DEF Forked, NotForked, StateAfterBgsave
  <2> QED BY Zenon, <1>2, <1>6, <2>1 DEF Reap
<1>7. ASSUME NEW c \in Clients,
             SendBulk(c) \/ ReplconfAck(c) \/ WriteToClient(c) \/ FreeClient(c)
      PROVE  BacklogInv'
  <2>1. \A d \in Clients : replstate'[d] # "none" => replstate[d] # "none"
    BY Zenon, <1>0, <1>7 DEF SendBulk, ReplconfAck, WriteToClient, FreeClient
  <2>2. repl_backlog' = repl_backlog
    BY Zenon, <1>7 DEF SendBulk, ReplconfAck, WriteToClient, FreeClient, linkVarsOnly
  <2> QED BY Zenon, <1>2, <2>1, <2>2
<1>8. ASSUME UNCHANGED vars PROVE BacklogInv'
  BY <1>2, <1>8 DEF vars, repVars
<1> QED
  BY Zenon, <1>0, <1>1, <1>3, <1>4, <1>5, <1>6, <1>7, <1>8 DEF Next

\* What is fed has the effect of item x in database db.
LEMMA FeedExecuted ==
    ASSUME NEW s \in Holds, NEW q \in Seq(Items), NEW db \in Int, NEW x \in Items,
           NEW items, \/ items = <<x>> /\ Executed(s, q).db = db
                      \/ items = <<[t |-> "select", db |-> db], x>>
    PROVE  Executed(s, q \o items) = Execute([Executed(s, q) EXCEPT !.db = db], x)
<1>1. PICK h \in Holds : h = Executed(s, q)
  BY ExecutedType
<1>2. CASE items = <<x>> /\ Executed(s, q).db = db
  <2>1. q \o items = Append(q, x)
    BY <1>2, AppendIsConcat
  <2>2. [h EXCEPT !.db = db] = h
    BY Zenon, <1>1, <1>2 DEF Holds
  <2>3. Executed(s, Append(q, x)) = Execute(h, x)
    BY <1>1, ExecutedAppend
  <2> QED BY <1>1, <2>1, <2>2, <2>3, Zenon
<1>3. CASE items = <<[t |-> "select", db |-> db], x>>
  <2>1. PICK sel \in Items : sel = [t |-> "select", db |-> db]
    BY Zenon DEF Items
  <2>2. items = <<sel, x>>
    BY Zenon, <1>3, <2>1
  <2>3. q \o items = Append(Append(q, sel), x)
    <3>1. <<sel>> \in Seq(Items) /\ <<x>> \in Seq(Items) /\ <<sel>> \o <<x>> = <<sel, x>>
      <4>1. <<sel>> \in Seq(Items) /\ <<x>> \in Seq(Items)
        OBVIOUS
      <4>2. Append(<<sel>>, x) = <<sel, x>>
        <5>1. PICK a \in Seq(Items) : a = Append(<<sel>>, x)
          BY Zenon, <4>1, AppendProperties
        <5>2. Len(a) = 2 /\ a[1] = sel /\ a[2] = x
          BY <5>1
        <5>3. PICK b \in Seq(Items) : b = <<sel, x>>
          <6> <<sel, x>> \in Seq(Items) OBVIOUS
          <6> QED BY Zenon
        <5>4. Len(b) = 2 /\ b[1] = sel /\ b[2] = x
          BY Zenon, <5>3
        <5>5. \A i \in 1 .. Len(a) : a[i] = b[i]
          BY <5>2, <5>4
        <5>6. a = b
          BY Zenon, <5>2, <5>4, <5>5, SeqEqual
        <5> QED BY Zenon, <5>1, <5>3, <5>6
      <4> QED BY Zenon, <4>1, <4>2, AppendIsConcat
    <3>2. Append(q, sel) = q \o <<sel>> /\ Append(q, sel) \in Seq(Items)
      BY Zenon, AppendIsConcat, AppendProperties
    <3>3. Append(Append(q, sel), x) = (q \o <<sel>>) \o <<x>>
      BY Zenon, <3>2, AppendIsConcat
    <3>4. (q \o <<sel>>) \o <<x>> = q \o (<<sel>> \o <<x>>)
      BY <3>1, ConcatAssociative
    <3> QED BY <2>2, <3>1, <3>3, <3>4
  <2>4. Append(q, sel) \in Seq(Items)
    BY Zenon, AppendProperties
  <2>5. Executed(s, Append(q, sel)) = Execute(h, sel)
    BY <1>1, ExecutedAppend
  <2>6. Execute(h, sel) = [h EXCEPT !.db = db]
    BY <2>1 DEF Execute
  <2>7. Executed(s, Append(Append(q, sel), x)) = Execute(Executed(s, Append(q, sel)), x)
    BY Zenon, <2>4, ExecutedAppend
  <2> QED BY <1>1, <2>3, <2>5, <2>6, <2>7, Zenon
<1> QED BY <1>2, <1>3

\* What a replica that is fed builds upon is a state of a replica.
LEMMA BaseType ==
    ASSUME TypeInv, NEW c \in Clients, Fed(c), ~ Lost(c)
    PROVE  Base(c) \in Holds
BY DEF TypeInv, Fed, Lost, Base, Child

\* A write, or a FLUSHALL, that is fed.
LEMMA FeedStream ==
    ASSUME TypeInv, StreamInv, BacklogInv, NEW db \in Dbs, NEW x \in Items, FeedSlaves(db, x),
           x.t = "write" => x.w \in Nat /\ data' = Append(data, <<db, x.w>>),
           x.t # "write" => x.t = "flush" /\ data' = <<>>,
           replstate' = replstate,
           \A c \in Clients : Fed(c) /\ ~ Lost(c)' =>
               /\ Base(c)' \in Holds /\ ~ Lost(c)
               /\ Base(c)' = Base(c) \/ (x.t = "flush" /\ replstate[c] = "wait_bgsave_end")
    PROVE  StreamInv'
<1>0. db \in Int /\ db # -1
  BY FullSyncAssumption
<1>1. CASE ~ repl_backlog
  <2>1. \A c \in Clients : replstate'[c] = "none"
    BY <1>1 DEF BacklogInv
  <2> QED BY Zenon, <2>1 DEF StreamInv, Fed
<1>2. CASE repl_backlog
  <2>1. PICK items :
            items = IF slaveseldb = db THEN <<x>> ELSE <<[t |-> "select", db |-> db], x>>
    BY Zenon
  <2>2. /\ slaveseldb' = db
        /\ out' = [c \in Clients |-> IF Fed(c) THEN out[c] \o items ELSE out[c]]
    BY Zenon, <1>2, <2>1 DEF FeedSlaves
  <2>3. ASSUME NEW c \in Clients, Fed(c), NEW s \in Holds,
               slaveseldb = db => Executed(s, out[c]).db = db
        PROVE  /\ Executed(s, out'[c]).db = db
               /\ Executed(s, out'[c]).data = IF x.t = "write"
                                                THEN Append(Executed(s, out[c]).data, <<db, x.w>>)
                                                ELSE <<>>
    <3>1. out[c] \in Seq(Items) /\ out'[c] = out[c] \o items
      BY <2>2, <2>3 DEF TypeInv
    <3>2. PICK h \in Holds : h = Executed(s, out[c])
      BY Zenon, <3>1, ExecutedType
    <3>3. Executed(s, out'[c]) = Execute([h EXCEPT !.db = db], x)
      <4>1. PICK q \in Seq(Items) : q = out[c]
        BY Zenon, <3>1
      <4>2. slaveseldb = db => Executed(s, q).db = db
        BY Zenon, <2>3, <4>1
      <4>3. \/ items = <<x>> /\ Executed(s, q).db = db
            \/ items = <<[t |-> "select", db |-> db], x>>
        BY Zenon, <2>1, <4>2
      <4>4. Executed(s, q \o items) = Execute([Executed(s, q) EXCEPT !.db = db], x)
        BY <1>0, <4>3, FeedExecuted
      <4> QED BY <3>1, <3>2, <4>1, <4>4, ZenonT(60)
    <3>4. PICK k \in Holds : k = [h EXCEPT !.db = db] /\ k.db = db /\ k.data = h.data
      <4>1. [h EXCEPT !.db = db] \in Holds
        BY Zenon, <1>0 DEF Holds
      <4>2. [h EXCEPT !.db = db].db = db /\ [h EXCEPT !.db = db].data = h.data
        BY DEF Holds
      <4> QED BY Zenon, <4>1, <4>2
    <3>5. CASE x.t = "write"
      <4>1. Execute(k, x) = [k EXCEPT !.data = Append(h.data, <<db, x.w>>)]
        BY <3>4, <3>5 DEF Execute
      <4>2. Execute(k, x).db = db /\ Execute(k, x).data = Append(h.data, <<db, x.w>>)
        BY Zenon, <3>4, <4>1 DEF Holds
      <4> QED BY Zenon, <3>2, <3>3, <3>4, <3>5, <4>2
    <3>6. CASE x.t # "write"
      <4>1. Execute(k, x) = [k EXCEPT !.data = <<>>]
        BY <3>6 DEF Execute
      <4>2. Execute(k, x).db = db /\ Execute(k, x).data = <<>>
        BY Zenon, <3>4, <4>1 DEF Holds
      <4> QED BY <3>3, <3>4, <3>6, <4>2
    <3> QED BY Zenon, <3>5, <3>6
  <2>4. ASSUME NEW c \in Clients, replstate[c] = "wait_bgsave_end", NEW s \in Holds
        PROVE  /\ slaveseldb = db => Executed(s, out[c]).db = db
               /\ Executed(s, out'[c]).db = slaveseldb'
    <3>1. slaveseldb = db => Executed(s, out[c]).db = db
      BY Zenon, <1>0, <2>4 DEF StreamInv
    <3>2. Fed(c)
      BY <2>4 DEF Fed
    <3> QED BY Zenon, <2>2, <2>3, <3>1, <3>2
  <2>5. ASSUME NEW c \in Clients, Fed(c)', ~ Lost(c)'
        PROVE  /\ Executed(Base(c)', out'[c]).data = data'
               /\ Executed(Base(c)', out'[c]).db = slaveseldb'
    <3>1. Fed(c)
      BY Zenon, <2>5 DEF Fed
    <3>2. PICK b \in Holds : b = Base(c)' /\ ~ Lost(c)
                             /\ (b = Base(c) \/ (x.t = "flush" /\ replstate[c] = "wait_bgsave_end"))
      BY <2>5, <3>1
    <3>3. CASE b = Base(c)
      <4>1. Executed(b, out[c]).data = data
            /\ (slaveseldb # -1 => Executed(b, out[c]).db = slaveseldb)
        BY <3>1, <3>2, <3>3 DEF StreamInv
      <4>2. /\ Executed(b, out'[c]).db = db
            /\ Executed(b, out'[c]).data = IF x.t = "write"
                                             THEN Append(Executed(b, out[c]).data, <<db, x.w>>)
                                             ELSE <<>>
        BY Zenon, <1>0, <2>3, <3>1, <4>1
      <4> QED BY ZenonT(60), <2>2, <3>2, <4>1, <4>2
    <3>4. CASE x.t = "flush" /\ replstate[c] = "wait_bgsave_end"
      <4>1. slaveseldb = db => Executed(b, out[c]).db = db
        BY Zenon, <2>4, <3>4
      <4>2. Executed(b, out'[c]).db = db /\ Executed(b, out'[c]).data = <<>>
        BY ZenonT(60), <2>3, <3>1, <3>4, <4>1
      <4> QED BY Zenon, <2>2, <3>2, <3>4, <4>2
    <3> QED BY Zenon, <3>2, <3>3, <3>4
  <2> QED BY Zenon, <2>4, <2>5 DEF StreamInv
<1> QED BY <1>1, <1>2

\* A child that starts takes the dataset to those who wait; the others keep what
\* they have.
LEMMA StartStream ==
    ASSUME TypeInv, BufferInv, NEW rs, NEW capa, NEW d, Forked(rs, capa, d) \/ NotForked(rs),
           data' = data,
           \A c \in Clients : rs[c] # "wait_bgsave_end",
           \A c \in Clients : rs[c] = "wait_bgsave_start" => out[c] = <<>>,
           \A c \in Clients : replstate'[c] = "closed" \/ out'[c] = out[c],
           \A c \in Clients, b \in Holds :
               \/ rs[c] = "online" /\ b = replica'[c]
               \/ rs[c] = "send_bulk" /\ b = bulk'[c]
               => /\ Executed(b, out[c]).data = data
                  /\ slaveseldb # -1 => Executed(b, out[c]).db = slaveseldb,
           replica' \in [Clients -> Holds], bulk' \in [Clients -> Holds]
    PROVE  StreamInv'
<1>1. ASSUME NEW c \in Clients, rs[c] \in {"online", "send_bulk"}, replstate'[c] = rs[c],
             slaveseldb' \in {slaveseldb, -1}
      PROVE  /\ Executed(Base(c)', out'[c]).data = data'
             /\ slaveseldb' # -1 => Executed(Base(c)', out'[c]).db = slaveseldb'
  <2>1. PICK b \in Holds : b = Base(c)' /\ \/ rs[c] = "online" /\ b = replica'[c]
                                           \/ rs[c] = "send_bulk" /\ b = bulk'[c]
    BY <1>1 DEF Base
  <2>2. /\ Executed(b, out[c]).data = data
        /\ slaveseldb # -1 => Executed(b, out[c]).db = slaveseldb
    BY ZenonT(60), <2>1
  <2>3. out'[c] = out[c]
    BY <1>1
  <2> QED BY Zenon, <1>1, <2>1, <2>2, <2>3
<1>2. CASE Forked(rs, capa, d)
  <2>1. slaveseldb' = -1
    BY ZenonT(60), <1>2 DEF Forked
  <2>2. ASSUME NEW c \in Clients, Fed(c)', ~ Lost(c)'
        PROVE  Executed(Base(c)', out'[c]).data = data'
    <3>1. CASE rs[c] = "wait_bgsave_start"
      <4>1. replstate'[c] = "wait_bgsave_end" /\ out'[c] = <<>>
        BY Zenon, <1>2, <3>1 DEF Forked
      <4>2. Base(c)' = Rdb(data)
        BY <1>2, <4>1 DEF Forked, Base
      <4>3. Rdb(data) \in Holds /\ Rdb(data).data = data
        BY Zenon, RdbType DEF TypeInv
      <4> QED BY Zenon, <4>1, <4>2, <4>3, ExecutedEmpty
    <3>2. CASE rs[c] # "wait_bgsave_start"
      <4>1. replstate'[c] = rs[c] /\ rs[c] \in {"online", "send_bulk"}
        BY Zenon, <1>2, <2>2, <3>2 DEF Forked, Fed
      <4> QED BY Zenon, <1>1, <2>1, <4>1
    <3> QED BY <3>1, <3>2
  <2> QED BY Zenon, <2>1, <2>2 DEF StreamInv
<1>3. CASE NotForked(rs)
  <2>1. slaveseldb' \in {slaveseldb, -1} /\ \A c \in Clients : replstate'[c] # "wait_bgsave_end"
    BY ZenonT(60), <1>3 DEF NotForked
  <2>2. ASSUME NEW c \in Clients, Fed(c)'
        PROVE  rs[c] \in {"online", "send_bulk"} /\ replstate'[c] = rs[c]
    BY <1>3, <2>2 DEF NotForked, Fed
  <2> QED BY Zenon, <1>1, <2>1, <2>2 DEF StreamInv
<1> QED BY Zenon, <1>2, <1>3

\* Every step keeps: a replica that executes its buffer has the dataset.
LEMMA StreamStep == IInv /\ TypeInv' /\ [Next]_vars => StreamInv'
<1> SUFFICES ASSUME IInv, TypeInv', [Next]_vars PROVE StreamInv'
  BY Zenon
<1>0. TypeInv /\ BufferInv /\ BacklogInv /\ StreamInv /\ ChildServesWaiting
      /\ replstate \in [Clients -> States] /\ setup.clients \subseteq Clients
  BY Zenon DEF IInv, TypeInv, TypeOK, States, Setup
<1>1. ASSUME NEW db \in Dbs, Write(db) PROVE StreamInv'
  <2>0. [t |-> "write", w |-> nwrites + 1] \in [t : {"write"}, w : Nat]
    <3>1. nwrites \in Nat
      BY Zenon, <1>0 DEF TypeInv
    <3>2. nwrites + 1 \in Nat
      BY <3>1
    <3> QED BY Zenon, <3>2
  <2>1. PICK x \in Items : x = [t |-> "write", w |-> nwrites + 1]
    BY <2>0, Zenon DEF Items
  <2>2. x.t = "write" /\ x.w = nwrites + 1 /\ x.w \in Nat
    BY Zenon, <2>0, <2>1
  <2>3. UNCHANGED <<replstate, child, file, replica, bulk>>
    BY ZenonT(60), <1>1 DEF Write
  <2>4. ASSUME NEW c \in Clients, Fed(c), ~ Lost(c)'
        PROVE  Base(c)' \in Holds /\ ~ Lost(c) /\ Base(c)' = Base(c)
    <3>1. Base(c)' = Base(c) /\ ~ Lost(c)
      BY Zenon, <2>3, <2>4 DEF Base, Lost
    <3> QED BY <1>0, <2>4, <3>1, BaseType
  <2>5. FeedSlaves(db, x) /\ data' = Append(data, <<db, x.w>>)
    BY Zenon, <1>1, <2>1, <2>2 DEF Write
  <2> QED BY Zenon, <1>0, <2>2, <2>3, <2>4, <2>5, FeedStream
<1>2. ASSUME NEW db \in Dbs, Flushall(db) PROVE StreamInv'
  <2>1. PICK x \in Items : x = [t |-> "flush"]
    BY Zenon DEF Items
  <2>2. x.t = "flush"
    BY <2>1
  <2>3. UNCHANGED <<replstate, replica, bulk>>
    BY <1>2 DEF Flushall
  <2>4. ASSUME NEW c \in Clients, Fed(c), ~ Lost(c)'
        PROVE  /\ Base(c)' \in Holds /\ ~ Lost(c)
               /\ Base(c)' = Base(c) \/ replstate[c] = "wait_bgsave_end"
    <3>1. Fed(c)'
      BY <2>3, <2>4 DEF Fed
    <3>2. Base(c)' \in Holds
      BY Zenon, <2>4, <3>1 DEF TypeInv, Fed, Lost, Base, Child
    <3>3. ~ Lost(c)
      BY Zenon, <1>0, <1>2, <2>3, <2>4 DEF Flushall, Lost, TypeInv, TypeOK, Child
    <3>4. CASE replstate[c] # "wait_bgsave_end"
      <4>1. Base(c)' = Base(c)
        BY <2>3, <2>4, <3>4 DEF Base, Fed
      <4> QED BY <3>2, <3>3, <4>1
    <3> QED BY Zenon, <3>2, <3>3, <3>4
  <2>5. FeedSlaves(db, x) /\ data' = <<>>
    BY Zenon, <1>2, <2>1 DEF Flushall
  <2> QED BY Zenon, <1>0, <2>2, <2>3, <2>4, <2>5, FeedStream
<1>3. ASSUME NEW c \in Clients, SyncCommand(c) PROVE StreamInv'
  <2>0. replstate[c] = "none" /\ UNCHANGED <<data, replica, bulk, file>>
    BY Zenon, <1>3 DEF SyncCommand
  <2>1. CASE \E s \in Clients : SyncAttach(c, s)
    <3>1. PICK s \in Clients : SyncAttach(c, s)
      BY <2>1
    <3>2. replstate[s] = "wait_bgsave_end" /\ s # c
      BY Zenon, <2>0, <3>1 DEF SyncAttach, CanAttach, FirstWaitingEnd
    <3>3. /\ replstate' = [replstate EXCEPT ![c] = "wait_bgsave_end"]
          /\ out' = [out EXCEPT ![c] = out[s]]
          /\ slaveseldb' = -1 /\ child' = child
      BY Zenon, <3>1 DEF SyncAttach, AttachBuffer, SeldbForNewReplica
    <3>4. ASSUME NEW e \in Clients, Fed(e)', ~ Lost(e)'
          PROVE  Executed(Base(e)', out'[e]).data = data'
      <4>1. CASE e = c
        <5>1. Fed(s) /\ ~ Lost(s)
          BY Zenon, <1>0, <3>2, <3>3, <3>4, <4>1 DEF Fed, Lost
        <5>2. Base(e)' = Base(s) /\ out'[e] = out[s]
          BY Zenon, <1>0, <2>0, <3>2, <3>3, <4>1 DEF Base, TypeInv
        <5> QED BY Zenon, <1>0, <2>0, <5>1, <5>2 DEF StreamInv
      <4>2. CASE e # c
        <5>1. Fed(e) /\ ~ Lost(e)
          BY Zenon, <1>0, <3>3, <3>4, <4>2 DEF Fed, Lost
        <5>2. Base(e)' = Base(e) /\ out'[e] = out[e]
          BY <1>0, <2>0, <3>3, <4>2 DEF Base, TypeInv
        <5> QED BY Zenon, <1>0, <2>0, <5>1, <5>2 DEF StreamInv
      <4> QED BY Zenon, <4>1, <4>2
    <3> QED BY <3>3, <3>4 DEF StreamInv
  <2>2. CASE SyncWait(c)
    <3>1. replstate' = [replstate EXCEPT ![c] = "wait_bgsave_start"]
          /\ UNCHANGED <<child, slaveseldb, out>>
      BY <2>2 DEF SyncWait
    <3>2. ASSUME NEW e \in Clients, Fed(e)', ~ Lost(e)'
          PROVE  Fed(e) /\ ~ Lost(e) /\ Base(e)' = Base(e)
      BY ZenonT(60), <1>0, <2>0, <3>1, <3>2 DEF Fed, Lost, Base
    <3>3. \A e \in Clients : replstate'[e] = "wait_bgsave_end" => replstate[e] = "wait_bgsave_end"
      BY <1>0, <3>1
    <3>4. ASSUME NEW e \in Clients, Fed(e)', ~ Lost(e)'
          PROVE  /\ Executed(Base(e)', out'[e]).data = data'
                 /\ slaveseldb' # -1 => Executed(Base(e)', out'[e]).db = slaveseldb'
      BY Zenon, <1>0, <2>0, <3>1, <3>2, <3>4 DEF StreamInv
    <3> QED BY ZenonT(60), <1>0, <3>1, <3>3, <3>4 DEF StreamInv
  <2>3. CASE SyncStart(c)
    <3>1. PICK rs : rs = [replstate EXCEPT ![c] = "wait_bgsave_start"]
      BY Zenon
    <3>2. Forked(rs, c \in setup.eof, dirty) \/ NotForked(rs)
      BY Zenon, <2>3, <3>1, StartOutcome DEF SyncStart
    <3>3. out' = out
      BY Zenon, <2>3 DEF SyncStart
    <3>4. \A e \in Clients : rs[e] # "wait_bgsave_end"
      BY Zenon, <1>0, <2>3, <3>1 DEF SyncStart, ChildServesWaiting
    <3>5. \A e \in Clients : rs[e] = "wait_bgsave_start" => out[e] = <<>>
      BY <1>0, <2>0, <3>1 DEF BufferInv
    <3>6. ASSUME NEW e \in Clients, NEW b \in Holds,
                 \/ rs[e] = "online" /\ b = replica'[e]
                 \/ rs[e] = "send_bulk" /\ b = bulk'[e]
          PROVE  /\ Executed(b, out[e]).data = data
                 /\ slaveseldb # -1 => Executed(b, out[e]).db = slaveseldb
      <4>1. Fed(e) /\ ~ Lost(e) /\ b = Base(e)
        BY Zenon, <1>0, <2>0, <3>1, <3>6 DEF Fed, Lost, Base
      <4> QED BY Zenon, <1>0, <4>1 DEF StreamInv
    <3>7. replica' \in [Clients -> Holds] /\ bulk' \in [Clients -> Holds]
      BY DEF TypeInv
    <3> QED BY Zenon, <1>0, <2>0, <3>2, <3>3, <3>4, <3>5, <3>6, <3>7, StartStream
  <2> QED BY Zenon, <1>3, <2>1, <2>2, <2>3 DEF SyncCommand
<1>4. ASSUME CronStartBgsave PROVE StreamInv'
  <2>0. UNCHANGED <<data, replica, bulk, file, out>>
    BY <1>4 DEF CronStartBgsave
  <2>1. PICK rs : rs = replstate
    BY Zenon
  <2>2. Forked(rs, Waiting(replstate) \subseteq setup.eof, dirty) \/ NotForked(rs)
    BY Zenon, <1>4, <2>1, StartOutcome DEF CronStartBgsave
  <2>3. \A e \in Clients : rs[e] # "wait_bgsave_end"
    BY Zenon, <1>0, <1>4, <2>1 DEF CronStartBgsave, ChildServesWaiting
  <2>4. \A e \in Clients : rs[e] = "wait_bgsave_start" => out[e] = <<>>
    BY ZenonT(60), <1>0, <2>1 DEF BufferInv
  <2>5. ASSUME NEW e \in Clients, NEW b \in Holds,
               \/ rs[e] = "online" /\ b = replica'[e]
               \/ rs[e] = "send_bulk" /\ b = bulk'[e]
        PROVE  /\ Executed(b, out[e]).data = data
               /\ slaveseldb # -1 => Executed(b, out[e]).db = slaveseldb
    <3>1. Fed(e) /\ ~ Lost(e) /\ b = Base(e)
      BY Zenon, <1>0, <2>0, <2>1, <2>5 DEF Fed, Lost, Base
    <3> QED BY <1>0, <3>1 DEF StreamInv
  <2>6. replica' \in [Clients -> Holds] /\ bulk' \in [Clients -> Holds]
    BY Zenon DEF TypeInv
  <2> QED BY ZenonT(60), <1>0, <2>0, <2>2, <2>3, <2>4, <2>5, <2>6, StartStream
<1>5. ASSUME BgsaveCommand \/ SaveCommand PROVE StreamInv'
  <2>1. UNCHANGED <<data, repVars, slaveseldb>> /\ child.type = "none"
    BY ZenonT(60), <1>5 DEF BgsaveCommand, SaveCommand
  <2>2. \A e \in Clients : replstate[e] # "wait_bgsave_end"
    BY <1>0, <2>1 DEF ChildServesWaiting
  <2>3. ASSUME NEW e \in Clients, Fed(e)'
        PROVE  Fed(e) /\ ~ Lost(e) /\ Base(e)' = Base(e)
    BY <2>1, <2>2, <2>3 DEF Fed, Lost, Base, repVars
  <2>4. ASSUME NEW e \in Clients, Fed(e)'
        PROVE  /\ Executed(Base(e)', out'[e]).data = data'
               /\ slaveseldb' # -1 => Executed(Base(e)', out'[e]).db = slaveseldb'
    BY Zenon, <1>0, <2>1, <2>3, <2>4 DEF StreamInv, repVars
  <2> QED BY Zenon, <2>1, <2>2, <2>4 DEF StreamInv, repVars
<1>6. ASSUME AofRewriteStart \/ AofRewriteDone \/ SetDiskless PROVE StreamInv'
  <2>1. UNCHANGED <<data, repVars, slaveseldb, child, file>>
    BY <1>6 DEF AofRewriteStart, AofRewriteDone, SetDiskless
  <2> QED BY ZenonT(60), <1>0, <2>1 DEF StreamInv, Fed, Lost, Base, repVars
<1>7. ASSUME ChildExit PROVE StreamInv'
  <2>1. UNCHANGED <<data, repVars, slaveseldb>> /\ child.status = "run" /\ child.type # "none"
    BY Zenon, <1>7 DEF ChildExit
  <2>2. /\ child'.type = child.type
        /\ \/ child'.status \in {"err", "signal"}
           \/ child'.status = "ok" /\ child'.snap = child.snap
              /\ (child.type = "disk" => file' = child.snap)
    BY Zenon, <1>0, <1>7 DEF ChildExit, TypeInv, Child
  <2>3. ASSUME NEW e \in Clients, Fed(e)', ~ Lost(e)'
        PROVE  Fed(e) /\ ~ Lost(e) /\ Base(e)' = Base(e)
    <3>1. Fed(e) /\ ~ Lost(e)
      BY <2>1, <2>2, <2>3 DEF Fed, Lost, repVars
    <3>2. CASE replstate[e] = "wait_bgsave_end"
      <4>1. child'.status = "ok" /\ child'.snap = child.snap /\ (child.type = "disk" => file' = child.snap)
        BY Zenon, <2>1, <2>2, <2>3, <3>2 DEF Lost, repVars
      <4> QED BY Zenon, <2>1, <2>2, <3>1, <3>2, <4>1 DEF Base, repVars
    <3>3. CASE replstate[e] # "wait_bgsave_end"
      BY <2>1, <3>1, <3>3 DEF Fed, Base, repVars
    <3> QED BY ZenonT(60), <3>1, <3>2, <3>3
  <2>4. ASSUME NEW e \in Clients, Fed(e)', ~ Lost(e)'
        PROVE  /\ Executed(Base(e)', out'[e]).data = data'
               /\ slaveseldb' # -1 => Executed(Base(e)', out'[e]).db = slaveseldb'
    BY Zenon, <1>0, <2>1, <2>3, <2>4 DEF StreamInv, repVars
  <2> QED BY Zenon, <1>0, <2>1, <2>4 DEF StreamInv, repVars
<1>8. ASSUME Reap PROVE StreamInv'
  <2>1. PICK rs : /\ rs = [c \in Clients |-> StateAfterBgsave(c)]
                  /\ \/ Forked(rs, Waiting(rs) \subseteq setup.eof, DirtyAfterBgsave)
                     \/ NotForked(rs)
    BY <1>8, ReapOutcome
  <2>2. data' = data /\ \A c \in Clients : replstate'[c] = "closed" \/ out'[c] = out[c]
    BY Zenon, <1>8 DEF Reap
  <2>3. \A c \in Clients : rs[c] # "wait_bgsave_end"
    BY ZenonT(60), <1>0, <2>1 DEF StateAfterBgsave, States
  <2>4. \A c \in Clients : rs[c] = "wait_bgsave_start" => out[c] = <<>>
    BY Zenon, <1>0, <2>1 DEF StateAfterBgsave, BufferInv
  <2>5. ASSUME NEW e \in Clients, NEW b \in Holds,
               \/ rs[e] = "online" /\ b = replica'[e]
               \/ rs[e] = "send_bulk" /\ b = bulk'[e]
        PROVE  /\ Executed(b, out[e]).data = data
               /\ slaveseldb # -1 => Executed(b, out[e]).db = slaveseldb
    <3>1. CASE replstate[e] = "wait_bgsave_end"
      <4>1. Served(e)
        BY Zenon, <2>1, <2>5, <3>1 DEF StateAfterBgsave
      <4>2. child.status = "ok" /\ child.type \in {"disk", "socket"}
        BY Zenon, <1>0, <1>8, <4>1 DEF Served, Reap, TypeInv, TypeOK
      <4>3. CASE child.type = "disk"
        <5>1. rs[e] = "send_bulk" /\ bulk'[e] = file
          BY Zenon, <1>8, <2>1, <3>1, <4>1, <4>3 DEF Reap, StateAfterBgsave
        <5>2. Fed(e) /\ ~ Lost(e) /\ b = Base(e)
          BY Zenon, <2>5, <3>1, <4>2, <4>3, <5>1 DEF Fed, Lost, Base
        <5> QED BY <1>0, <5>2 DEF StreamInv
      <4>4. CASE child.type = "socket"
        <5>1. rs[e] = "online" /\ replica'[e] = child.snap
          BY ZenonT(60), <1>8, <2>1, <3>1, <4>1, <4>4 DEF Reap, StateAfterBgsave
        <5>2. Fed(e) /\ ~ Lost(e) /\ b = Base(e)
          BY Zenon, <2>5, <3>1, <4>2, <4>4, <5>1 DEF Fed, Lost, Base
        <5> QED BY <1>0, <5>2 DEF StreamInv
      <4> QED BY <4>2, <4>3, <4>4
    <3>2. CASE replstate[e] # "wait_bgsave_end"
      <4>1. rs[e] = replstate[e] /\ bulk'[e] = bulk[e] /\ replica'[e] = replica[e]
        BY Zenon, <1>8, <2>1, <3>2 DEF Reap, StateAfterBgsave
      <4>2. Fed(e) /\ ~ Lost(e) /\ b = Base(e)
        BY <2>5, <3>2, <4>1 DEF Fed, Lost, Base
      <4> QED BY <1>0, <4>2 DEF StreamInv
    <3> QED BY ZenonT(60), <3>1, <3>2
  <2>6. replica' \in [Clients -> Holds] /\ bulk' \in [Clients -> Holds]
    BY DEF TypeInv
  <2> QED BY ZenonT(60), <1>0, <2>1, <2>2, <2>3, <2>4, <2>5, <2>6, StartStream
<1>9. ASSUME NEW c \in Clients, SendBulk(c) PROVE StreamInv'
  <2>1. /\ replstate[c] = "send_bulk" /\ replstate' = [replstate EXCEPT ![c] = "online"]
        /\ replica' = [replica EXCEPT ![c] = bulk[c]]
        /\ bulk' = [bulk EXCEPT ![c] = NoRdb]
        /\ UNCHANGED <<data, file, child, slaveseldb, out>>
    BY <1>9 DEF SendBulk, linkVarsOnly
  <2>2. ASSUME NEW e \in Clients, Fed(e)', ~ Lost(e)'
        PROVE  Fed(e) /\ ~ Lost(e) /\ Base(e)' = Base(e)
    BY ZenonT(60), <1>0, <2>1, <2>2 DEF Fed, Lost, Base, TypeInv
  <2>3. \A e \in Clients : replstate'[e] = "wait_bgsave_end" => replstate[e] = "wait_bgsave_end"
    BY <1>0, <2>1
  <2>4. ASSUME NEW e \in Clients, Fed(e)', ~ Lost(e)'
        PROVE  /\ Executed(Base(e)', out'[e]).data = data'
               /\ slaveseldb' # -1 => Executed(Base(e)', out'[e]).db = slaveseldb'
    BY ZenonT(60), <1>0, <2>1, <2>2, <2>4 DEF StreamInv
  <2> QED BY Zenon, <1>0, <2>1, <2>3, <2>4 DEF StreamInv
<1>10. ASSUME NEW c \in Clients, ReplconfAck(c) PROVE StreamInv'
  <2>1. UNCHANGED <<data, file, child, slaveseldb, out, replstate, bulk, replica>>
    BY Zenon, <1>10 DEF ReplconfAck, linkVarsOnly
  <2> QED BY <1>0, <2>1 DEF StreamInv, Fed, Lost, Base
<1>11. ASSUME NEW c \in Clients, WriteToClient(c) PROVE StreamInv'
  <2>1. /\ replstate[c] = "online" /\ out[c] # <<>>
        /\ replica' = [replica EXCEPT ![c] = Execute(replica[c], Head(out[c]))]
        /\ out' = [out EXCEPT ![c] = Tail(out[c])]
        /\ UNCHANGED <<data, file, child, slaveseldb, replstate, bulk>>
    BY <1>11 DEF WriteToClient, linkVarsOnly
  <2>2. out[c] \in Seq(Items) /\ replica[c] \in Holds
    BY <1>0 DEF TypeInv
  <2>3. ASSUME NEW e \in Clients, Fed(e)', ~ Lost(e)'
        PROVE  /\ Fed(e) /\ ~ Lost(e)
               /\ Executed(Base(e)', out'[e]) = Executed(Base(e), out[e])
    <3>1. Fed(e) /\ ~ Lost(e)
      BY <2>1, <2>3 DEF Fed, Lost
    <3>2. CASE e = c
      <4>1. Base(e) = replica[c] /\ Base(e)' = Execute(replica[c], Head(out[c])) /\ out'[e] = Tail(out[c])
        BY Zenon, <1>0, <2>1, <3>2 DEF Base, TypeInv
      <4>2. Executed(replica[c], out[c]) = Executed(Execute(replica[c], Head(out[c])), Tail(out[c]))
        BY ZenonT(60), <2>1, <2>2, ExecutedTail
      <4> QED BY Zenon, <3>1, <3>2, <4>1, <4>2
    <3>3. CASE e # c
      <4>1. Base(e)' = Base(e) /\ out'[e] = out[e]
        BY <1>0, <2>1, <3>3 DEF Base, TypeInv
      <4> QED BY <3>1, <4>1
    <3> QED BY ZenonT(60), <3>2, <3>3
  <2>4. ASSUME NEW e \in Clients, Fed(e)', ~ Lost(e)'
        PROVE  /\ Executed(Base(e)', out'[e]).data = data'
               /\ slaveseldb' # -1 => Executed(Base(e)', out'[e]).db = slaveseldb'
    BY ZenonT(60), <1>0, <2>1, <2>3, <2>4 DEF StreamInv
  <2>5. \A e \in Clients : replstate'[e] = "wait_bgsave_end" =>
                               replstate[e] = "wait_bgsave_end" /\ out'[e] = out[e]
    BY <1>0, <2>1
  <2>6. ASSUME NEW e \in Clients, replstate'[e] = "wait_bgsave_end", slaveseldb' # -1
        PROVE  \A s \in Holds : Executed(s, out'[e]).db = slaveseldb'
    BY ZenonT(60), <1>0, <2>1, <2>5, <2>6 DEF StreamInv
  <2> QED BY ZenonT(60), <2>4, <2>6 DEF StreamInv
<1>12. ASSUME NEW c \in Clients, FreeClient(c) PROVE StreamInv'
  <2>1. /\ replstate' = [replstate EXCEPT ![c] = "closed"]
        /\ \A e \in Clients \ {c} : out'[e] = out[e] /\ bulk'[e] = bulk[e] /\ replica'[e] = replica[e]
        /\ UNCHANGED <<data, file, child, slaveseldb>>
    BY Zenon, <1>0, <1>12 DEF FreeClient, linkVarsOnly, TypeInv
  <2>2. ASSUME NEW e \in Clients, Fed(e)', ~ Lost(e)'
        PROVE  Fed(e) /\ ~ Lost(e) /\ Base(e)' = Base(e) /\ out'[e] = out[e]
    <3>1. e # c /\ Fed(e) /\ ~ Lost(e)
      BY Zenon, <1>0, <2>1, <2>2 DEF Fed, Lost
    <3> QED BY <1>0, <2>1, <3>1 DEF Base
  <2>3. \A e \in Clients : replstate'[e] = "wait_bgsave_end" =>
                               replstate[e] = "wait_bgsave_end" /\ out'[e] = out[e]
    BY Zenon, <1>0, <2>1
  <2>4. ASSUME NEW e \in Clients, Fed(e)', ~ Lost(e)'
        PROVE  /\ Executed(Base(e)', out'[e]).data = data'
               /\ slaveseldb' # -1 => Executed(Base(e)', out'[e]).db = slaveseldb'
    BY ZenonT(60), <1>0, <2>1, <2>2, <2>4 DEF StreamInv
  <2>5. ASSUME NEW e \in Clients, replstate'[e] = "wait_bgsave_end", slaveseldb' # -1
        PROVE  \A s \in Holds : Executed(s, out'[e]).db = slaveseldb'
    BY ZenonT(60), <1>0, <2>1, <2>3, <2>5 DEF StreamInv
  <2> QED BY Zenon, <2>4, <2>5 DEF StreamInv
<1>13. ASSUME UNCHANGED vars PROVE StreamInv'
  BY <1>0, <1>13 DEF vars, repVars, StreamInv, Fed, Lost, Base
<1> QED
  BY ZenonT(60), <1>0, <1>1, <1>2, <1>3, <1>4, <1>5, <1>6, <1>7, <1>8, <1>9, <1>10, <1>11, <1>12, <1>13 DEF Next

-----------------------------------------------------------------------------
(* The theorems.                                                           *)

\* The invariant holds in every reachable state.
LEMMA InductiveInvariant == Spec => []IInv
<1>1. IInv /\ [Next]_vars => IInv'
  BY TypeStep, ServesStep, BufferStep, DirtyStep, BacklogStep, StreamStep DEF IInv
<1> QED BY InitInv, <1>1, PTL DEF Spec

\* A replica that is being fed, at whatever stage of whichever kind of transfer,
\* gets exactly the dataset of its master, for any number of replicas, databases,
\* writes, FLUSHALLs, saves and failures (syncCommand, startBgsaveForReplication,
\* updateSlavesWaitingBgsave, replicationFeedSlaves).
THEOREM ReplicaGetsDatasetAlways == Spec => []ReplicaGetsDataset
<1>1. IInv => ReplicaGetsDataset
  BY Zenon DEF IInv, StreamInv, ReplicaGetsDataset
<1> QED BY InductiveInvariant, <1>1, PTL

\* The books of the master are right for any number of replicas: the list of
\* replicas and their states, who waits for which child, the offset announced with
\* +FULLRESYNC plus what is buffered, and server.dirty.
THEOREM BooksBalanceAlways == Spec => []BooksBalance
<1>1. IInv => BooksBalance
  BY Zenon DEF IInv, TypeInv, BufferInv, DirtyInv, BooksBalance
<1> QED BY InductiveInvariant, <1>1, PTL

\* The assertion of replicationFeedSlaves never fails on a master: a replica that
\* is connected, or has been, implies a backlog.
THEOREM SlavesImplyBacklog == Spec => []BacklogInv
<1>1. IInv => BacklogInv
  BY DEF IInv
<1> QED BY InductiveInvariant, <1>1, PTL
=============================================================================
