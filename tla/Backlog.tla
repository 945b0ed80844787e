------------------------------ MODULE Backlog ------------------------------
(***************************************************************************)
(* The replication backlog of replication.c: a circular buffer of the last *)
(* bytes of the replication stream, out of which a replica that lost its   *)
(* link is served a partial resynchronisation.                             *)
(*                                                                         *)
(* feedReplicationBacklog copies in chunks that never cross the end of the *)
(* buffer; each iteration of its loop is a step here (`rest` is what p and *)
(* len still denote), so that the state between two chunks is visible to   *)
(* the invariants.  `stream` records every byte of the stream by offset.   *)
(***************************************************************************)
EXTENDS Integers, Sequences

CONSTANTS Bytes,     \* the values of a byte
          Junk,      \* the content of memory that was never written
          Sizes,     \* values given to repl-backlog-size
          MinSize,   \* CONFIG_REPL_BACKLOG_MIN_SIZE
          MaxOffset, \* bound: master_repl_offset
          MaxFeed    \* bound: bytes fed in one call

ASSUME BacklogAssumption ==
    /\ Junk \notin Bytes
    /\ Sizes \subseteq Nat
    /\ MinSize \in Nat \ {0}
    /\ MaxOffset \in Nat /\ MaxFeed \in Nat

VARIABLES
    alloc,              \* server.repl_backlog # NULL
    buf,                \* the bytes of server.repl_backlog
    size,               \* server.repl_backlog_size
    idx,                \* server.repl_backlog_idx: where the next byte goes
    histlen,            \* server.repl_backlog_histlen
    off,                \* server.repl_backlog_off: offset of the oldest byte
    master_repl_offset,
    rest,               \* bytes feedReplicationBacklog has still to copy
    feeding,            \* inside feedReplicationBacklog
    stream              \* history: the byte at every offset

backlogVars == <<alloc, buf, size, idx, histlen, off, master_repl_offset, rest,
          feeding, stream>>

ClampSize(n) == IF n < MinSize THEN MinSize ELSE n

\* A fresh buffer of n bytes, with nothing in it.
Fresh(n) ==
    /\ buf' = [i \in 0 .. n - 1 |-> Junk]
    /\ idx' = 0
    /\ histlen' = 0
    /\ off' = master_repl_offset + 1

BacklogInit ==
    /\ alloc = FALSE
    /\ size \in {ClampSize(n) : n \in Sizes}
    /\ buf = <<>>
    /\ idx = 0 /\ histlen = 0 /\ off = 0 /\ master_repl_offset = 0
    /\ rest = <<>> /\ feeding = FALSE
    /\ stream = <<>>

createReplicationBacklog ==
    /\ ~ feeding /\ ~ alloc
    /\ alloc' = TRUE
    /\ Fresh(size)
    /\ UNCHANGED <<size, master_repl_offset, rest, feeding, stream>>

resizeReplicationBacklog(newsize) ==
    /\ ~ feeding
    /\ size # ClampSize(newsize)
    /\ size' = ClampSize(newsize)
    /\ IF alloc THEN Fresh(ClampSize(newsize))
                ELSE UNCHANGED <<buf, idx, histlen, off>>
    /\ UNCHANGED <<alloc, master_repl_offset, rest, feeding, stream>>

\* The assertion that no replica is attached is an obligation of the caller.
freeReplicationBacklog ==
    /\ ~ feeding /\ alloc
    /\ alloc' = FALSE
    /\ buf' = <<>>
    /\ UNCHANGED <<size, idx, histlen, off, master_repl_offset, rest, feeding,
                   stream>>

\* A full resynchronisation replaces the offset while there is no backlog
\* (readSyncBulkPayload); what came before is not this stream.
AdoptOffset(n) ==
    /\ ~ feeding /\ ~ alloc
    /\ master_repl_offset' = n
    /\ stream' = [i \in 1 .. n |-> Junk]
    /\ UNCHANGED <<alloc, buf, size, idx, histlen, off, rest, feeding>>

\* feedReplicationBacklog(ptr, len): the offset first ...
FeedStart(data) ==
    /\ ~ feeding /\ alloc
    /\ master_repl_offset + Len(data) <= MaxOffset
    /\ master_repl_offset' = master_repl_offset + Len(data)
    /\ stream' = stream \o data
    /\ rest' = data
    /\ feeding' = TRUE
    /\ UNCHANGED <<alloc, buf, size, idx, histlen, off>>

\* ... then the copy, in chunks that end at the end of the buffer ...
ThisLen == IF size - idx > Len(rest) THEN Len(rest) ELSE size - idx
Rewind(i) == IF i = size THEN 0 ELSE i

FeedChunk ==
    /\ feeding /\ rest # <<>>
    /\ buf' = [i \in 0 .. size - 1 |->
                 IF idx <= i /\ i < idx + ThisLen THEN rest[i - idx + 1]
                                                  ELSE buf[i]]
    /\ idx' = Rewind(idx + ThisLen)
    /\ rest' = SubSeq(rest, ThisLen + 1, Len(rest))
    /\ histlen' = histlen + ThisLen
    /\ UNCHANGED <<alloc, size, off, master_repl_offset, feeding, stream>>

\* ... then the capped length and the offset of the oldest byte.
Capped(n) == IF n > size THEN size ELSE n

FeedEnd ==
    /\ feeding /\ rest = <<>>
    /\ histlen' = Capped(histlen)
    /\ off' = master_repl_offset - Capped(histlen) + 1
    /\ feeding' = FALSE
    /\ UNCHANGED <<alloc, buf, size, idx, master_repl_offset, rest, stream>>

BacklogNext ==
    \/ createReplicationBacklog
    \/ \E n \in Sizes : resizeReplicationBacklog(n)
    \/ freeReplicationBacklog
    \/ \E n \in 0 .. MaxOffset : AdoptOffset(n)
    \/ \E len \in 1 .. MaxFeed : \E data \in [1 .. len -> Bytes] : FeedStart(data)
    \/ FeedChunk
    \/ FeedEnd

\* A call of feedReplicationBacklog, once made, runs to its end.
BacklogSpec == BacklogInit /\ [][BacklogNext]_backlogVars /\ WF_backlogVars(FeedChunk) /\ WF_backlogVars(FeedEnd)

-----------------------------------------------------------------------------
\* The offsets masterTryPartialResynchronization serves from the backlog.
Servable(o) == alloc /\ o >= off /\ o <= off + histlen

\* The bug of taking the write index for the oldest byte of a ring not yet full.
ReplyFromIdx(offset) ==
    LET skip == offset - off
        j == (idx + skip) % size
        len == histlen - skip
        first == IF size - j < len THEN size - j ELSE len
    IN  IF histlen = 0 THEN <<>>
        ELSE [i \in 1 .. len |-> IF i <= first THEN buf[j + i - 1]
                                               ELSE buf[i - first - 1]]

\* addReplyReplicationBacklog(c, offset): what is queued for the replica.  At
\* most two chunks, as no more than `size` bytes are there to send.
Reply(offset) ==
    LET skip == offset - off
        oldest == (idx + (size - histlen)) % size
        j == (oldest + skip) % size
        len == histlen - skip
        first == IF size - j < len THEN size - j ELSE len
    IN  IF histlen = 0 THEN <<>>
        ELSE [i \in 1 .. len |-> IF i <= first THEN buf[j + i - 1]
                                               ELSE buf[i - first - 1]]

-----------------------------------------------------------------------------
BacklogTypeOK ==
    /\ alloc \in BOOLEAN /\ feeding \in BOOLEAN
    /\ size \in Nat \ {0}
    /\ alloc => buf \in [0 .. size - 1 -> Bytes \cup {Junk}]
    /\ idx \in Nat /\ histlen \in Nat /\ off \in Nat
    /\ master_repl_offset \in Nat
    /\ rest \in Seq(Bytes)
    /\ stream \in Seq(Bytes \cup {Junk})

\* Between calls the backlog ends at the current offset, holds no more than
\* its size, and reaches back to repl_backlog_off: the arithmetic that the
\* PSYNC acceptance test relies on.
WindowEndsAtOffset ==
    alloc /\ ~ feeding =>
        /\ histlen <= size
        /\ off + histlen = master_repl_offset + 1
        /\ idx < size

\* The continuation sent for any acceptable PSYNC offset is exactly the stream
\* from that offset to the current one: neither a byte of another place of the
\* ring nor memory that was never written, whatever the sizes, the chunks the
\* stream came in and the resizes in between.
ContinuationIsStream ==
    ~ feeding => \A o \in off .. off + histlen : Servable(o) =>
        Reply(o) = [i \in 1 .. master_repl_offset - o + 1 |-> stream[o + i - 1]]

\* A partial resynchronisation is served the stream, out of a window that is the
\* end of the stream (feedReplicationBacklog, addReplyReplicationBacklog).
ReplyIsStream == WindowEndsAtOffset /\ ContinuationIsStream

=============================================================================
