--------------------------- MODULE Backlog_proofs ---------------------------
(***************************************************************************)
(* Proofs about Backlog, for every buffer size, every chunking of the      *)
(* stream and every stream.  The inductive invariant says, also between    *)
(* two chunks of a feed, where in the ring each of the last bytes copied   *)
(* is: the k-th byte before the write index is the k-th last of the stream *)
(* so far.                                                                 *)
(***************************************************************************)
EXTENDS Backlog, SequenceTheorems, TLAPS

\* Bytes of the stream copied to the buffer so far, and the slot of the k-th
\* last of them.
Written == master_repl_offset - Len(rest)
Slot(k) == IF k <= idx THEN idx - k ELSE idx - k + size

StreamInv ==
    /\ Len(stream) = master_repl_offset
    /\ Len(rest) <= master_repl_offset
    /\ \A i \in 1 .. Len(rest) : rest[i] = stream[Written + i]
    /\ ~ feeding => rest = <<>>
    /\ feeding => alloc

RingInv ==
    alloc =>
        /\ idx < size
        /\ histlen <= Written
        /\ ~ feeding => histlen <= size /\ off + histlen = master_repl_offset + 1
        /\ \A k \in 1 .. histlen :
               k <= size => buf[Slot(k)] = stream[Written - k + 1]

IInv == BacklogTypeOK /\ StreamInv /\ RingInv

-----------------------------------------------------------------------------
\* A window of h bytes, no longer than g, that ends at offset a starts at a - h + 1.
LEMMA WindowStart ==
    ASSUME NEW a \in Nat, NEW g \in Nat, NEW h \in Nat, h <= g, g <= a
    PROVE  a - h + 1 \in Nat /\ (a - h + 1) + h = a + 1
OBVIOUS

\* The remainder the ring indices are reduced by, for indices below twice the
\* size: the index itself, or one turn less.
LEMMA ModOneTurn ==
    ASSUME NEW n \in Nat \ {0}, NEW a \in Nat, a < 2 * n
    PROVE  a % n = IF a < n THEN a ELSE a - n
<1>1. CASE a < n
  BY <1>1
<1>2. CASE a >= n
  BY <1>2
<1> QED BY <1>1, <1>2

\* The invariant holds when the server starts.
LEMMA InitIInv == BacklogInit => IInv
<1> SUFFICES ASSUME BacklogInit PROVE IInv
  OBVIOUS
<1>1. size \in Nat \ {0}
  <2>1. PICK n \in Sizes : size = ClampSize(n)
    BY Zenon DEF BacklogInit
  <2>2. n \in Nat
    BY <2>1, BacklogAssumption
  <2> QED BY <2>1, <2>2, BacklogAssumption DEF ClampSize
<1>2. alloc = FALSE /\ feeding = FALSE
  BY DEF BacklogInit
<1>3. /\ idx \in Nat /\ histlen \in Nat /\ off \in Nat
      /\ master_repl_offset \in Nat
      /\ rest \in Seq(Bytes) /\ stream \in Seq(Bytes \cup {Junk})
  BY DEF BacklogInit
<1>4. BacklogTypeOK
  BY <1>1, <1>2, <1>3, Zenon DEF BacklogTypeOK
<1>5. StreamInv /\ RingInv
  BY DEF BacklogInit, StreamInv, RingInv, Written
<1> QED BY <1>4, <1>5 DEF IInv

\* A fresh buffer satisfies the invariant whatever was there before.
LEMMA FreshIInv ==
    ASSUME IInv, ~ feeding, alloc' = TRUE, feeding' = feeding,
           size' \in Nat \ {0}, Fresh(size'),
           UNCHANGED <<master_repl_offset, rest, stream>>
    PROVE  IInv'
<1>1. /\ buf' \in [0 .. size' - 1 -> Bytes \cup {Junk}]
      /\ idx' \in Nat /\ histlen' \in Nat /\ off' \in Nat
  BY DEF Fresh, IInv, BacklogTypeOK
<1>2. BacklogTypeOK'
  BY Zenon, <1>1 DEF IInv, BacklogTypeOK
<1>3. StreamInv'
  BY DEF IInv, StreamInv, Written
<1>4. RingInv'
  BY DEF IInv, BacklogTypeOK, StreamInv, RingInv, Written, Fresh
<1> QED BY <1>2, <1>3, <1>4 DEF IInv

\* One iteration of the copy loop of feedReplicationBacklog keeps every byte
\* still in the window in its slot and puts the new ones in theirs.
LEMMA ChunkIInv == IInv /\ FeedChunk => IInv'
<1> SUFFICES ASSUME IInv, FeedChunk PROVE IInv'
  OBVIOUS
<1> DEFINE t == ThisLen
<1>1. /\ alloc /\ alloc' /\ feeding' = feeding /\ feeding
      /\ size' = size /\ off' = off /\ stream' = stream
      /\ master_repl_offset' = master_repl_offset
  BY DEF FeedChunk, IInv, StreamInv
<1>2. /\ size \in Nat \ {0} /\ idx \in 0 .. size - 1 /\ histlen \in Nat
      /\ off \in Nat /\ master_repl_offset \in Nat
      /\ rest \in Seq(Bytes) /\ stream \in Seq(Bytes \cup {Junk})
      /\ buf \in [0 .. size - 1 -> Bytes \cup {Junk}]
      /\ Len(rest) \in Nat \ {0}
  BY <1>1 DEF IInv, BacklogTypeOK, RingInv, FeedChunk
<1>3. t \in 1 .. Len(rest) /\ t <= size - idx
  BY <1>2 DEF ThisLen
<1>4. /\ idx' = IF idx + t = size THEN 0 ELSE idx + t
      /\ histlen' = histlen + t
      /\ rest' = SubSeq(rest, t + 1, Len(rest))
      /\ buf' = [i \in 0 .. size - 1 |->
                   IF idx <= i /\ i < idx + t THEN rest[i - idx + 1] ELSE buf[i]]
  BY DEF FeedChunk, Rewind
<1> HIDE DEF t
<1>5. /\ rest' \in Seq(Bytes)
      /\ Len(rest') = Len(rest) - t
      /\ \A i \in 1 .. Len(rest') : rest'[i] = rest[i + t]
  <2>1. \A i \in t + 1 .. Len(rest) : rest[i] \in Bytes
    BY <1>2, <1>3
  <2>2. t + 1 \in Int /\ Len(rest) \in Int
    BY <1>2, <1>3
  <2>3. /\ rest' \in Seq(Bytes)
        /\ Len(rest') = IF t + 1 <= Len(rest) THEN Len(rest) - (t + 1) + 1 ELSE 0
        /\ \A i \in 1 .. Len(rest) - (t + 1) + 1 : rest'[i] = rest[(t + 1) + i - 1]
    BY SMTT(20), <1>4, <2>1, <2>2, SubSeqProperties
  <2> QED BY <1>2, <1>3, <2>3
<1>6. Written' = Written + t
  BY <1>1, <1>2, <1>3, <1>5 DEF Written
<1>7. BacklogTypeOK'
  <2>1. buf' \in [0 .. size' - 1 -> Bytes \cup {Junk}]
    BY <1>1, <1>2, <1>3, <1>4
  <2>2. idx' \in Nat /\ histlen' \in Nat
    BY <1>2, <1>3, <1>4
  <2> QED BY <1>1, <1>2, <1>5, <2>1, <2>2 DEF IInv, BacklogTypeOK
<1>8. StreamInv'
  <2>1. ASSUME NEW i \in 1 .. Len(rest')
        PROVE  rest'[i] = stream'[Written' + i]
    <3>1. i + t \in 1 .. Len(rest) /\ rest'[i] = rest[i + t]
      BY <1>2, <1>3, <1>5
    <3>2. rest[i + t] = stream[Written + (i + t)]
      BY <3>1 DEF IInv, StreamInv
    <3>3. Written + (i + t) = Written' + i
      BY <1>2, <1>3, <1>6 DEF Written
    <3> QED BY <1>1, <3>1, <3>2, <3>3
  <2>2. Len(rest') <= master_repl_offset'
    BY <1>1, <1>2, <1>3, <1>5 DEF IInv, StreamInv
  <2> QED BY <1>1, <2>1, <2>2 DEF IInv, StreamInv
<1>9. RingInv'
  <2>1. idx' < size' /\ histlen' <= Written'
    <3>1. histlen <= Written
      BY <1>1 DEF IInv, RingInv
    <3>2. idx' < size'
      BY <1>1, <1>2, <1>3, <1>4
    <3>3. Written \in Int
      BY <1>2 DEF Written
    <3> QED BY <1>2, <1>3, <1>4, <1>6, <3>1, <3>2, <3>3
  <2>2. ASSUME NEW k \in 1 .. histlen', k <= size'
        PROVE  buf'[Slot(k)'] = stream'[Written' - k + 1]
    <3>1. CASE k <= t
      <4>1. Slot(k)' = idx + t - k
        BY <1>1, <1>2, <1>3, <1>4, <2>2, <3>1 DEF Slot
      <4>2. buf'[idx + t - k] = rest[t - k + 1]
        BY <1>2, <1>3, <1>4, <2>2, <3>1
      <4>3. rest[t - k + 1] = stream[Written + (t - k + 1)]
        BY <1>2, <1>3, <3>1 DEF IInv, StreamInv
      <4>4. Written + (t - k + 1) = Written' - k + 1
        BY <1>2, <1>3, <1>6 DEF Written
      <4> QED BY <1>1, <4>1, <4>2, <4>3, <4>4
    <3>2. CASE k > t
      <4>1. k - t \in 1 .. histlen /\ k - t <= size
        BY <1>1, <1>2, <1>3, <1>4, <2>2, <3>2
      <4>2. Slot(k)' = Slot(k - t) /\ Slot(k - t) \in 0 .. size - 1
        BY <1>1, <1>2, <1>3, <1>4, <2>2, <3>2 DEF Slot
      <4>3. ~ (idx <= Slot(k - t) /\ Slot(k - t) < idx + t)
        BY <1>1, <1>2, <1>3, <1>4, <2>2, <3>2 DEF Slot
      <4>4. buf'[Slot(k)'] = buf[Slot(k - t)]
        BY <1>2, <1>4, <4>2, <4>3
      <4>5. buf[Slot(k - t)] = stream[Written - (k - t) + 1]
        BY <1>1, <4>1 DEF IInv, RingInv
      <4>6. Written - (k - t) + 1 = Written' - k + 1
        BY <1>2, <1>3, <1>6 DEF Written
      <4> QED BY <1>1, <4>4, <4>5, <4>6
    <3> QED BY <3>1, <3>2, <1>2, <1>3
  <2> QED BY <1>1, <2>1, <2>2 DEF RingInv
<1> QED BY <1>7, <1>8, <1>9 DEF IInv

\* Every operation on the backlog preserves the invariant.
LEMMA NextIInv == IInv /\ [BacklogNext]_backlogVars => IInv'
<1> SUFFICES ASSUME IInv, [BacklogNext]_backlogVars PROVE IInv'
  OBVIOUS
<1>0. size \in Nat \ {0} /\ \A n \in Sizes : ClampSize(n) \in Nat \ {0}
  BY BacklogAssumption DEF IInv, BacklogTypeOK, ClampSize
<1>1. CASE createReplicationBacklog
  BY <1>0, <1>1, FreshIInv DEF createReplicationBacklog
<1>2. ASSUME NEW n \in Sizes, resizeReplicationBacklog(n) PROVE IInv'
  <2>1. CASE alloc
    BY <1>0, <1>2, <2>1, FreshIInv DEF resizeReplicationBacklog, IInv, BacklogTypeOK
  <2>2. CASE ~ alloc
    BY <1>0, <1>2, <2>2 DEF resizeReplicationBacklog, IInv, BacklogTypeOK,
                           StreamInv, RingInv, Written
  <2> QED BY <2>1, <2>2
<1>3. CASE freeReplicationBacklog
  BY Zenon, <1>3 DEF freeReplicationBacklog, IInv, BacklogTypeOK, StreamInv, RingInv, Written
<1>4. ASSUME NEW n \in 0 .. MaxOffset, AdoptOffset(n) PROVE IInv'
  <2>1. n \in Nat
    BY BacklogAssumption
  <2>2. stream' \in Seq(Bytes \cup {Junk}) /\ Len(stream') = n
    BY <1>4, <2>1 DEF AdoptOffset
  <2>3. /\ alloc' = FALSE /\ feeding' = FALSE /\ rest' = <<>> /\ size' = size
        /\ idx' = idx /\ histlen' = histlen /\ off' = off
        /\ master_repl_offset' = n
    BY <1>4 DEF AdoptOffset, IInv, BacklogTypeOK, StreamInv
  <2>4. BacklogTypeOK'
    <3>1. /\ size' \in Nat \ {0} /\ idx' \in Nat /\ histlen' \in Nat
          /\ off' \in Nat /\ master_repl_offset' \in Nat /\ rest' \in Seq(Bytes)
      BY <2>1, <2>3 DEF IInv, BacklogTypeOK
    <3> QED BY <2>2, <2>3, <3>1, Zenon DEF BacklogTypeOK
  <2>5. StreamInv' /\ RingInv'
    BY <2>1, <2>2, <2>3 DEF StreamInv, RingInv, Written
  <2> QED BY <2>4, <2>5 DEF IInv
<1>5. ASSUME NEW len \in 1 .. MaxFeed, NEW data \in [1 .. len -> Bytes],
             FeedStart(data)
      PROVE  IInv'
  <2>1. data \in Seq(Bytes) /\ Len(data) = len /\ len \in Nat
    BY BacklogAssumption
  <2>2. /\ alloc /\ alloc' = alloc /\ ~ feeding /\ feeding' = TRUE
        /\ rest = <<>> /\ rest' = data /\ stream' = stream \o data
        /\ master_repl_offset' = master_repl_offset + len
        /\ UNCHANGED <<buf, size, idx, histlen, off>>
    BY <1>5, <2>1 DEF FeedStart, IInv, StreamInv
  <2>3. /\ stream \in Seq(Bytes \cup {Junk}) /\ Len(stream) = master_repl_offset
        /\ master_repl_offset \in Nat /\ histlen \in Nat
    BY DEF IInv, BacklogTypeOK, StreamInv
  <2>4. /\ stream' \in Seq(Bytes \cup {Junk})
        /\ Len(stream') = Len(stream) + len
        /\ \A i \in 1 .. Len(stream) : stream'[i] = stream[i]
        /\ \A i \in 1 .. len : stream'[Len(stream) + i] = data[i]
    <3>1. data \in Seq(Bytes \cup {Junk})
      BY <2>1
    <3>2. /\ stream' \in Seq(Bytes \cup {Junk})
          /\ Len(stream') = Len(stream) + Len(data)
          /\ \A i \in 1 .. Len(stream) + Len(data) :
                 stream'[i] = IF i <= Len(stream) THEN stream[i]
                                                  ELSE data[i - Len(stream)]
      BY Zenon, <2>2, <2>3, <3>1, ConcatProperties
    <3> QED BY <2>1, <2>3, <3>2
  <2>5. Written' = Written /\ Written = Len(stream)
    <3>1. Len(rest) = 0 /\ Len(rest') = len
      BY <2>1, <2>2
    <3>2. Written = master_repl_offset /\ Written' = master_repl_offset' - len
      BY <2>1, <2>3, <3>1 DEF Written
    <3>3. master_repl_offset' = master_repl_offset + len
      BY <2>2
    <3> QED BY <2>1, <2>3, <3>2, <3>3
  <2>6. BacklogTypeOK'
    BY <2>1, <2>2, <2>3, <2>4 DEF IInv, BacklogTypeOK
  <2>7. StreamInv'
    BY <2>1, <2>2, <2>3, <2>4, <2>5 DEF StreamInv
  <2>8. RingInv'
    <3>1. ASSUME NEW k \in 1 .. histlen, k <= size
          PROVE  buf[Slot(k)] = stream'[Written - k + 1]
      <4>1. buf[Slot(k)] = stream[Written - k + 1] /\ histlen <= Written
        BY <2>2, <3>1 DEF IInv, RingInv
      <4> QED BY <2>3, <2>4, <2>5, <4>1
    <3>2. \A k : Slot(k)' = Slot(k)
      BY <2>2 DEF Slot
    <3> QED BY Zenon, <2>2, <2>5, <3>1, <3>2 DEF IInv, RingInv
  <2> QED BY <2>6, <2>7, <2>8 DEF IInv
<1>6. CASE FeedChunk
  BY <1>6, ChunkIInv
<1>7. CASE FeedEnd
  <2>1. /\ alloc /\ alloc' = alloc /\ feeding' = FALSE /\ rest = <<>>
        /\ histlen' = Capped(histlen)
        /\ off' = master_repl_offset - Capped(histlen) + 1
        /\ UNCHANGED <<buf, size, idx, master_repl_offset, rest, stream>>
    BY <1>7 DEF FeedEnd, IInv, StreamInv
  <2>2. histlen' \in Nat /\ histlen' <= histlen /\ histlen' <= size
    BY <2>1 DEF Capped, IInv, BacklogTypeOK
  <2>3. Written' = Written /\ Written = master_repl_offset /\ histlen <= Written
    BY <2>1 DEF Written, IInv, BacklogTypeOK, RingInv
  <2>4. off' \in Nat /\ off' + histlen' = master_repl_offset' + 1
    <3>1. off' = master_repl_offset - histlen' + 1 /\ master_repl_offset' = master_repl_offset
      BY Zenon, <2>1
    <3>2. histlen' \in Nat /\ histlen' <= histlen /\ histlen \in Nat
      BY Zenon, <2>2 DEF IInv, BacklogTypeOK
    <3>3. histlen <= master_repl_offset /\ master_repl_offset \in Nat
      BY Zenon, <2>3 DEF IInv, BacklogTypeOK
    <3> QED BY Zenon, <3>1, <3>2, <3>3, WindowStart
  <2>5. BacklogTypeOK'
    BY Zenon, <2>1, <2>2, <2>4 DEF IInv, BacklogTypeOK
  <2>6. StreamInv'
    BY <2>1, <2>3 DEF IInv, StreamInv
  <2>7. RingInv'
    <3>1. \A k : Slot(k)' = Slot(k)
      BY <2>1 DEF Slot
    <3>2. ASSUME NEW k \in 1 .. histlen', k <= size
          PROVE  buf[Slot(k)] = stream[Written - k + 1]
      <4>1. k \in 1 .. histlen
        BY <2>2 DEF IInv, BacklogTypeOK
      <4> QED BY <2>1, <3>2, <4>1 DEF IInv, RingInv
    <3>3. idx' < size' /\ histlen' <= Written'
      BY <2>1, <2>2, <2>3 DEF IInv, BacklogTypeOK, RingInv
    <3> QED BY <2>1, <2>2, <2>3, <2>4, <3>1, <3>2, <3>3 DEF RingInv
  <2> QED BY <2>5, <2>6, <2>7 DEF IInv
<1>8. CASE UNCHANGED backlogVars
  BY <1>8 DEF backlogVars, IInv, BacklogTypeOK, StreamInv, RingInv, Written, Slot
<1> QED BY <1>1, <1>2, <1>3, <1>4, <1>5, <1>6, <1>7, <1>8 DEF BacklogNext

-----------------------------------------------------------------------------
\* The invariant holds in every reachable state.
LEMMA AlwaysIInv == BacklogSpec => []IInv
BY InitIInv, NextIInv, PTL DEF BacklogSpec

\* The fields of the backlog always have their types.
THEOREM TypeCorrect == BacklogSpec => []BacklogTypeOK
<1>1. IInv => BacklogTypeOK
  BY DEF IInv
<1> QED BY <1>1, AlwaysIInv, PTL

\* Between two calls the backlog covers exactly the histlen bytes that end at
\* master_repl_offset, for every size and every way the stream was fed.
THEOREM WindowEndsAtOffsetAlways == BacklogSpec => []WindowEndsAtOffset
<1>1. IInv => WindowEndsAtOffset
  BY DEF IInv, RingInv, WindowEndsAtOffset
<1> QED BY <1>1, AlwaysIInv, PTL

\* What addReplyReplicationBacklog sends is the stream from the offset asked.
LEMMA IInvReply == IInv => ContinuationIsStream
<1> SUFFICES ASSUME IInv, ~ feeding, alloc,
                    NEW o \in off .. off + histlen
             PROVE  Reply(o) = [i \in 1 .. master_repl_offset - o + 1 |->
                                  stream[o + i - 1]]
  BY DEF ContinuationIsStream, Servable
<1>1. /\ size \in Nat \ {0} /\ idx \in 0 .. size - 1 /\ histlen \in 0 .. size
      /\ off \in Nat /\ master_repl_offset \in Nat
      /\ off + histlen = master_repl_offset + 1
      /\ rest = <<>>
  BY DEF IInv, BacklogTypeOK, StreamInv, RingInv
<1>2. Written = master_repl_offset
  BY <1>1 DEF Written
<1>3. CASE histlen = 0
  BY <1>1, <1>3 DEF Reply
<1>4. CASE histlen # 0
  <2> DEFINE skip == o - off
             oldest == (idx + (size - histlen)) % size
             j == (oldest + skip) % size
             len == histlen - skip
             first == IF size - j < len THEN size - j ELSE len
  <2>1. skip \in 0 .. histlen /\ len \in 0 .. histlen
        /\ len = master_repl_offset - o + 1
    BY <1>1
  <2>2. oldest = Slot(histlen)
    <3>1. idx + (size - histlen) \in Nat /\ idx + (size - histlen) < 2 * size
      BY <1>1, <1>4
    <3>2. oldest = IF idx + (size - histlen) < size
                     THEN idx + (size - histlen)
                     ELSE (idx + (size - histlen)) - size
      BY Zenon, <1>1, <3>1, ModOneTurn
    <3> QED BY <1>1, <1>4, <3>2 DEF Slot
  <2>3. oldest \in 0 .. size - 1
    BY <1>1, <1>4, <2>2 DEF Slot
  <2>4. j = IF oldest + skip < size THEN oldest + skip
                                    ELSE (oldest + skip) - size
    <3> DEFINE s == oldest + skip
    <3> HIDE DEF oldest, skip
    <3>1. s \in Nat /\ s < 2 * size
      BY <1>1, <2>1, <2>3
    <3>2. j = s % size
      OBVIOUS
    <3> HIDE DEF s, j
    <3>3. s % size = IF s < size THEN s ELSE s - size
      BY Zenon, <1>1, <3>1, ModOneTurn
    <3>4. j = IF s < size THEN s ELSE s - size
      BY <3>2, <3>3
    <3> QED BY <3>4 DEF s
  <2>5. Reply(o) = [i \in 1 .. len |-> IF i <= first THEN buf[j + i - 1]
                                                   ELSE buf[i - first - 1]]
    BY <1>4 DEF Reply
  <2>6. ASSUME NEW i \in 1 .. len
        PROVE  (IF i <= first THEN buf[j + i - 1] ELSE buf[i - first - 1])
               = stream[o + i - 1]
    <3> DEFINE k == len - i + 1
    <3>1. k \in 1 .. histlen /\ k <= size
      BY <1>1, <2>1
    <3>2. buf[Slot(k)] = stream[Written - k + 1]
      BY <3>1 DEF IInv, RingInv
    <3>3. Written - k + 1 = o + i - 1
      BY <1>1, <1>2, <2>1
    <3>4. Slot(k) = IF i <= first THEN j + i - 1 ELSE i - first - 1
      <4> HIDE DEF oldest, j
      <4> QED BY <1>1, <1>4, <2>1, <2>2, <2>3, <2>4, <3>1 DEF Slot
    <3> QED BY <3>2, <3>3, <3>4
  <2> HIDE DEF j, first, len
  <2> QED BY <2>1, <2>5, <2>6
<1> QED BY <1>3, <1>4

\* A partial resynchronisation served from the backlog is always exactly the
\* part of the stream the replica is missing, and the backlog is the window of
\* the stream that the acceptance test takes it for.
THEOREM ReplyIsStreamAlways == BacklogSpec => []ReplyIsStream
<1>1. IInv => ReplyIsStream
  BY IInvReply DEF IInv, RingInv, WindowEndsAtOffset, ReplyIsStream
<1> QED BY <1>1, AlwaysIInv, PTL
=============================================================================
