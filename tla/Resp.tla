-------------------------------- MODULE Resp --------------------------------
(***************************************************************************)
(* Reading commands from a connection (networking.c): readQueryFromClient, *)
(* the two request formats, processInputBuffer, and for the link to a      *)
(* master the replication offset and the bytes passed on to sub-replicas.  *)
(*                                                                         *)
(* The connection delivers a stream of symbols in pieces of any size.  A   *)
(* symbol is a byte, but for the number of a header: <<"*", n>> and        *)
(* <<"$", n>> stand for the bytes up to the line end.  Payload may contain *)
(* any symbol.                                                             *)
(***************************************************************************)
EXTENDS Integers, Sequences, SequencesExt

CONSTANTS
    Streams,     \* the byte streams clients send
    BigArg,      \* PROTO_MBULK_BIG_ARG
    IoBuf,       \* PROTO_IOBUF_LEN
    MaxBulk,     \* proto-max-bulk-len
    MaxMulti,    \* 1024*1024, the limit of a multi bulk count
    InlineMax,   \* PROTO_INLINE_MAX_SIZE
    MaxQuery     \* client-query-buffer-limit

VARIABLES impl, ref, aux

vars == <<impl, ref, aux>>

CR == <<"cr", 0>>
LF == <<"lf", 0>>
Space == <<"sp", 0>>
Multi == <<"multi", 0>>      \* a payload that names MULTI
Exec == <<"exec", 0>>

Drop(s, n) == SubSeq(s, n + 1, Len(s))
IndexFrom(s, from, x) ==
    LET at == {i \in from .. Len(s) : s[i] = x}
    IN IF at = {} THEN 0 ELSE CHOOSE i \in at : \A j \in at : i <= j

-----------------------------------------------------------------------------
(* c.pos symbols of c.buf are consumed; "bulk" is -1 between two bulks.    *)

Left(c) == Len(c.buf) - c.pos

setProtocolError(c) == [c EXCEPT !.closing = TRUE, !.ok = FALSE]
Incomplete(c) == [c EXCEPT !.ok = FALSE]
TooLong(c) == IF Left(c) > InlineMax THEN setProtocolError(c) ELSE Incomplete(c)

(* sdssplitargs: the words of a line.                                      *)
Words(line) ==
    LET starts == {i \in DOMAIN line : line[i] # Space /\ (i = 1 \/ line[i - 1] = Space)}
        upto(i) == CHOOSE j \in i .. Len(line) :
                     /\ \A k \in i .. j : line[k] # Space
                     /\ j = Len(line) \/ line[j + 1] = Space
        order == SetToSortSeq(starts, <)
    IN [n \in DOMAIN order |-> SubSeq(line, order[n], upto(order[n]))]

processInlineBuffer(c) ==
    LET nl == IndexFrom(c.buf, c.pos + 1, LF)
        cr == nl > c.pos + 1 /\ c.buf[nl - 1] = CR
        line == SubSeq(c.buf, c.pos + 1, IF cr THEN nl - 2 ELSE nl - 1)
    IN IF nl = 0 THEN TooLong(c)
       ELSE [c EXCEPT !.pos = nl, !.argv = Words(line)]

(* A line that ends in CR counts only once the LF is there as well.        *)
LineEndNoLF(c) == IndexFrom(c.buf, c.pos + 1, CR)

LineEnd(c) ==
    LET cr == IndexFrom(c.buf, c.pos + 1, CR)
    IN IF cr = Len(c.buf) THEN 0 ELSE cr

HasCR(c) == IndexFrom(c.buf, c.pos + 1, CR) # 0

ReadHeader(c, kind, min, max) ==
    LET end == LineEnd(c)
        head == c.buf[c.pos + 1]
        valid == end = c.pos + 2 /\ head[1] = kind /\ head[2] >= min /\ head[2] <= max
    IN IF end = 0 THEN (IF HasCR(c) THEN Incomplete(c) ELSE TooLong(c))
       ELSE IF ~valid THEN setProtocolError(c)
       ELSE [c EXCEPT !.pos = end + 1, !.header = head[2]]

(* A long argument is left alone at the start of the query buffer, so that *)
(* the buffer itself can become the argument.                              *)
BulkStarts(h) ==
    IF ~h.ok THEN h
    ELSE IF h.header >= BigArg /\ Left(h) <= h.header + 2
    THEN [h EXCEPT !.buf = Drop(@, h.pos), !.pos = 0, !.bulk = h.header]
    ELSE [h EXCEPT !.bulk = h.header]

BulkHeader(c) == BulkStarts(ReadHeader(c, "$", 0, MaxBulk))

TakeBulk(c) ==
    IF c.pos = 0 /\ c.bulk >= BigArg /\ Len(c.buf) = c.bulk + 2
    THEN [c EXCEPT !.argv = Append(@, SubSeq(c.buf, 1, c.bulk)), !.buf = <<>>, !.bulk = -1,
                   !.multi = @ - 1]
    ELSE [c EXCEPT !.argv = Append(@, SubSeq(c.buf, c.pos + 1, c.pos + c.bulk)),
                   !.pos = @ + c.bulk + 2, !.bulk = -1, !.multi = @ - 1]

RECURSIVE ReadBulks(_)
ReadBulks(c) ==
    LET Bulk(h) == IF ~h.ok THEN h
                   ELSE IF Left(h) < h.bulk + 2 THEN Incomplete(h)
                   ELSE ReadBulks(TakeBulk(h))
    IN IF c.multi = 0 \/ ~c.ok THEN c
       ELSE Bulk(IF c.bulk = -1 THEN BulkHeader(c) ELSE c)

(* The count of a new command; none, or an error, leaves nothing to read.  *)
MultiStarts(h) ==
    IF ~h.ok \/ h.header <= 0 THEN h ELSE [h EXCEPT !.multi = h.header]

processMultibulkBuffer(c) ==
    ReadBulks(IF c.multi > 0 THEN c ELSE MultiStarts(ReadHeader(c, "*", -1, MaxMulti)))

-----------------------------------------------------------------------------
(* processInputBuffer.  A command may block the client ("b"); MULTI opens  *)
(* a transaction that EXEC closes.                                         *)

resetClient(c) == [c EXCEPT !.argv = <<>>, !.reqtype = "none", !.multi = 0, !.bulk = -1]

Reploff(c) == IF c.intx THEN c.reploff ELSE c.read - Len(c.buf) + c.pos

ProcessCommand(c) ==
    LET name == c.argv[1]
        tx == IF name = <<Multi>> THEN TRUE ELSE IF name = <<Exec>> THEN FALSE ELSE c.intx
        Done(d) == resetClient([d EXCEPT !.reploff = Reploff(d)])
    IN Done([c EXCEPT !.executed = Append(@, c.argv), !.intx = tx,
                      !.blocked = name = <<<<"b", 0>>>> /\ ~c.intx])

RECURSIVE ProcessLoop(_)
ProcessLoop(c) ==
    LET type == IF c.reqtype # "none" THEN c.reqtype
                ELSE IF c.buf[c.pos + 1][1] = "*" THEN "multibulk" ELSE "inline"
        Parse(typed) == IF typed.reqtype = "inline" THEN processInlineBuffer(typed)
                        ELSE processMultibulkBuffer(typed)
        Run(parsed) == IF ~parsed.ok THEN parsed
                       ELSE ProcessLoop(IF parsed.argv = <<>> THEN resetClient(parsed)
                                        ELSE ProcessCommand(parsed))
    IN IF c.pos >= Len(c.buf) \/ c.blocked \/ c.closing THEN c
       ELSE Run(Parse([c EXCEPT !.reqtype = type, !.ok = TRUE]))

processInputBuffer(c) ==
    LET Compact(p) == [p EXCEPT !.buf = Drop(@, p.pos), !.pos = 0]
    IN Compact(ProcessLoop(c))

(* The bytes of the commands a replica applied go on to its own replicas.  *)
processInputBufferAndReplicate(c) ==
    LET Feed(p, applied) ==
          [p EXCEPT !.fed = @ \o SubSeq(p.pending, 1, applied), !.pending = Drop(@, applied)]
        Fed(p) == Feed(p, p.reploff - c.reploff)
    IN Fed(processInputBuffer(c))

ReadLen(c) ==
    LET remaining == c.bulk + 2 - Len(c.buf)
    IN IF c.reqtype = "multibulk" /\ c.multi > 0 /\ c.bulk >= BigArg /\ remaining > 0 /\ remaining < IoBuf
       THEN remaining ELSE IoBuf

(* Any number of bytes that arrived, up to the room made for them.         *)
readQueryFromClient ==
    /\ impl.open /\ impl.read < Len(ref)
    /\ \E n \in 1 .. ReadLen(impl) :
         /\ impl.read + n <= Len(ref)
         /\ LET bytes == SubSeq(ref, impl.read + 1, impl.read + n)
                c == [impl EXCEPT !.buf = @ \o bytes, !.pending = @ \o bytes, !.read = @ + n]
            IN impl' = IF Len(c.buf) > MaxQuery THEN [c EXCEPT !.open = FALSE]
                       ELSE processInputBufferAndReplicate(c)
    /\ UNCHANGED <<ref, aux>>

(* unblockClient, then processUnblockedClients before the next sleep.      *)
Unblocked ==
    /\ impl.open /\ impl.blocked
    /\ impl' = processInputBufferAndReplicate([impl EXCEPT !.blocked = FALSE])
    /\ UNCHANGED <<ref, aux>>

Init ==
    /\ ref \in Streams
    /\ impl = [buf |-> <<>>, pos |-> 0, reqtype |-> "none", multi |-> 0, bulk |-> -1, argv |-> <<>>,
               header |-> 0, ok |-> TRUE, executed |-> <<>>, closing |-> FALSE, open |-> TRUE,
               blocked |-> FALSE, intx |-> FALSE, read |-> 0, reploff |-> 0, pending |-> <<>>,
               fed |-> <<>>]
    /\ aux = {}

Next == readQueryFromClient \/ Unblocked

Spec == Init /\ [][Next]_vars

-----------------------------------------------------------------------------
(* The commands of a whole stream, read in one go: each with the position  *)
(* after it, up to the first that is cut short or malformed.               *)

RECURSIVE BulksAt(_, _)
BulksAt(p, n) ==
    IF n = 0 THEN [args |-> <<>>, next |-> p, ok |-> TRUE]
    ELSE LET head == ref[p]
             end == p + 2 + head[2] + 3
             rest == BulksAt(end, n - 1)
         IN IF p + 2 > Len(ref) \/ head[1] # "$" \/ head[2] < 0 \/ head[2] > MaxBulk \/ end > Len(ref) + 1
            THEN [args |-> <<>>, next |-> p, ok |-> FALSE]
            ELSE [rest EXCEPT !.args = <<SubSeq(ref, p + 3, p + 2 + head[2])>> \o @]

RECURSIVE CommandsFrom(_)
CommandsFrom(p) ==
    IF p > Len(ref) THEN <<>>
    ELSE IF ref[p][1] = "*"
    THEN LET r == BulksAt(p + 3, ref[p][2])
         IN IF p + 2 > Len(ref) \/ ref[p][2] > MaxMulti THEN <<>>
            ELSE IF ref[p][2] <= 0 THEN CommandsFrom(p + 3)
            ELSE IF ~r.ok THEN <<>>
            ELSE <<[argv |-> r.args, end |-> r.next - 1]>> \o CommandsFrom(r.next)
    ELSE LET nl == IndexFrom(ref, p, LF)
             line == SelectSeq(SubSeq(ref, p, nl - 1), LAMBDA x : x # CR)
         IN IF nl = 0 THEN <<>>
            ELSE IF Words(line) = <<>> THEN CommandsFrom(nl + 1)
            ELSE <<[argv |-> Words(line), end |-> nl]>> \o CommandsFrom(nl + 1)

Commands == CommandsFrom(1)
Arrived == SelectSeq(Commands, LAMBDA c : c.end <= impl.read)

(* However the bytes of a stream are cut into reads, the commands executed *)
(* are those of the stream, in order, arguments intact; a client that is   *)
(* neither blocked nor closing has executed every command that arrived     *)
(* whole.                                                                  *)
CommandsExact ==
    LET n == Len(impl.executed)
    IN /\ n <= Len(Arrived)
       /\ impl.executed = [i \in 1 .. n |-> Arrived[i].argv]
       /\ impl.open /\ ~impl.blocked /\ ~impl.closing => n = Len(Arrived)

(* The offset a replica reports is the end of a command it applied, never  *)
(* inside one or inside a transaction, and what it passed on to its own    *)
(* replicas is the stream of its master up to that offset.                 *)
OffsetAtCommandEnd ==
    LET n == Len(impl.executed)
        opens == {i \in 1 .. n : impl.executed[i] = <<<<Multi>>>>}
        settled == {i \in 1 .. n : ~\E m \in opens : m <= i /\ ~\E e \in m .. i : impl.executed[e] = <<<<Exec>>>>}
    IN /\ impl.reploff = IF settled = {} THEN 0
                         ELSE Commands[CHOOSE i \in settled : \A j \in settled : j <= i].end
       /\ impl.fed = SubSeq(ref, 1, impl.reploff)
=============================================================================
