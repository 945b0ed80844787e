------------------------------ MODULE Clients -------------------------------
(***************************************************************************)
(* The life of client connections (networking.c): the event loop (ae.c)    *)
(* that reads and writes them, the queues of clients to write to, to       *)
(* reprocess and to close, output buffers and their limits, CLIENT PAUSE,  *)
(* KILL, UNBLOCK and REPLY, publish and subscribe (pubsub.c), and the      *)
(* events processed while a slow script runs (scripting.c).                *)
(*                                                                         *)
(* A query buffer is the sequence of whole commands in it (module Resp     *)
(* reads the bytes); an output buffer is a sequence of replies, of which a *)
(* write sends a prefix.  impl is the server; aux holds the other ends of  *)
(* the connections.  said, got and leaked are history: what was said to a  *)
(* client, what it got, and whether it got the reply to a write before the *)
(* append only file was flushed, other than in the polls of a slow script. *)
(***************************************************************************)
EXTENDS Integers, Sequences, FiniteSets, SequencesExt, TLC

CONSTANTS
    Setups,     \* per client program and configuration: see Init
    BufMax,     \* PROTO_REPLY_CHUNK_BYTES: the replies the static buffer holds
    MaxClients  \* maxclients

VARIABLES impl, aux

vars == <<impl, aux>>

Ids == DOMAIN aux.wire
Without(seq, x) == SelectSeq(seq, LAMBDA y : y # x)
Nobody == 0

Is(s, c, flag) == flag \in s.cl[c].flags
Set(s, c, flag) == [s EXCEPT !.cl[c].flags = @ \union {flag}]
Clear(s, c, flag) == [s EXCEPT !.cl[c].flags = @ \ {flag}]

HasPending(k) == k.buf # <<>> \/ k.list # <<>>

Closed == [open |-> FALSE, flags |-> {}, in |-> <<>>, buf |-> <<>>, list |-> <<>>, rd |-> FALSE,
           wr |-> "no", soft |-> 0, chans |-> {}, pats |-> <<>>, said |-> <<>>, got |-> <<>>]

createClient(s, c) ==
    [s EXCEPT !.cl[c] = [Closed EXCEPT !.open = TRUE, !.rd = TRUE], !.list = Append(@, c)]

-----------------------------------------------------------------------------
(* Replies.                                                                *)

clientInstallWriteHandler(s, c) ==
    IF Is(s, c, "pending_write") THEN s
    ELSE Set([s EXCEPT !.pending = <<c>> \o @], c, "pending_write")

freeClientAsync(s, c) ==
    IF Is(s, c, "close_asap") THEN s
    ELSE Set([s EXCEPT !.toClose = Append(@, c)], c, "close_asap")

(* Limits are given for the class of subscribers; 0 is no limit.  Replies  *)
(* in the static buffer do not count.                                      *)
checkClientOutputBufferLimits(s, c) ==
    LET k == s.cl[c]
        limit == IF "pubsub" \in k.flags THEN s.limits ELSE [hard |-> 0, soft |-> 0, secs |-> 0]
        used == Len(k.list)
        hard == limit.hard > 0 /\ used >= limit.hard
        soft == limit.soft > 0 /\ used >= limit.soft
    IN [over |-> hard \/ (soft /\ k.soft > 0 /\ s.now - k.soft > limit.secs),
        since |-> IF ~soft THEN 0 ELSE IF k.soft = 0 THEN s.now ELSE k.soft]

asyncCloseOnLimit(s, c) ==
    LET check == checkClientOutputBufferLimits(s, c)
        timed == [s EXCEPT !.cl[c].soft = check.since]
    IN IF s.cl[c].list = <<>> \/ Is(s, c, "close_asap") THEN s
       ELSE IF check.over THEN freeClientAsync(timed, c) ELSE timed

(* prepareClientToWrite, then the static buffer or, once it is full or     *)
(* there is a list, the list.                                              *)
addReply(s, c, u) ==
    LET scheduled == IF HasPending(s.cl[c]) THEN s ELSE clientInstallWriteHandler(s, c)
    IN IF Is(s, c, "reply_off") \/ Is(s, c, "reply_skip") \/ ~s.cl[c].open THEN s
       ELSE IF Is(s, c, "close_after") THEN scheduled
       ELSE IF s.cl[c].list = <<>> /\ Len(s.cl[c].buf) < BufMax
       THEN [scheduled EXCEPT !.cl[c].buf = Append(@, u), !.cl[c].said = Append(@, u.what)]
       ELSE asyncCloseOnLimit([scheduled EXCEPT !.cl[c].list = Append(@, u), !.cl[c].said = Append(@, u.what)], c)

Unit(what, dirty) == [what |-> what, dirty |-> dirty]

-----------------------------------------------------------------------------
(* Publish and subscribe: the server's index and the client's own lists.   *)

subscribe(s, c, ch) ==
    LET fresh == ch \notin s.cl[c].chans
        s1 == IF fresh THEN [s EXCEPT !.cl[c].chans = @ \union {ch}, !.chans[ch] = Append(@, c)] ELSE s
    IN Set(addReply(s1, c, Unit("sub", FALSE)), c, "pubsub")

psubscribe(s, c, p) ==
    LET fresh == \A i \in DOMAIN s.cl[c].pats : s.cl[c].pats[i] # p
        s1 == IF fresh THEN [s EXCEPT !.cl[c].pats = Append(@, p), !.pats = Append(@, <<p, c>>)] ELSE s
    IN Set(addReply(s1, c, Unit("sub", FALSE)), c, "pubsub")

LeaveChannel(s, c, ch) ==
    [s EXCEPT !.cl[c].chans = @ \ {ch}, !.chans[ch] = Without(@, c)]

RECURSIVE LeaveChannels(_, _)
LeaveChannels(s, c) ==
    IF s.cl[c].chans = {} THEN s
    ELSE LeaveChannels(LeaveChannel(s, c, CHOOSE ch \in s.cl[c].chans : TRUE), c)

LeavePatterns(s, c) ==
    [s EXCEPT !.cl[c].pats = <<>>, !.pats = SelectSeq(@, LAMBDA e : e[2] # c)]

(* UNSUBSCRIBE and PUNSUBSCRIBE without arguments: one reply each.         *)
unsubscribe(s, c, what) ==
    LET left == IF what = "unsub" THEN LeaveChannels(s, c) ELSE LeavePatterns(s, c)
        told == addReply(left, c, Unit("unsub", FALSE))
    IN IF left.cl[c].chans = {} /\ left.cl[c].pats = <<>> THEN Clear(told, c, "pubsub") ELSE told

Matches(pat, ch) == ch \in pat

RECURSIVE SendAll(_, _, _)
SendAll(s, to, u) == IF to = <<>> THEN s ELSE SendAll(addReply(s, to[1], u), Tail(to), u)

pubsubPublishMessage(s, ch) ==
    LET direct == SendAll(s, s.chans[ch], Unit(<<"message", ch>>, FALSE))
        by == SelectSeq(s.pats, LAMBDA e : Matches(e[1], ch))
    IN SendAll(direct, [i \in DOMAIN by |-> by[i][2]], Unit(<<"pmessage", ch>>, FALSE))

-----------------------------------------------------------------------------
(* Blocking, and closing connections.                                      *)

queueClientForReprocessing(s, c) ==
    IF Is(s, c, "unblocked") THEN s
    ELSE Set([s EXCEPT !.unblocked = Append(@, c)], c, "unblocked")

unblockClient(s, c) ==
    queueClientForReprocessing(Clear([s EXCEPT !.waiting = Without(@, c)], c, "blocked"), c)

UnlinkKeepsUnblocked(s, c) ==
    [s EXCEPT !.list = Without(@, c), !.pending = Without(@, c),
              !.current = IF @ = c THEN Nobody ELSE @]

unlinkClient(s, c) ==
    [s EXCEPT !.list = Without(@, c), !.pending = Without(@, c), !.unblocked = Without(@, c),
              !.current = IF @ = c THEN Nobody ELSE @]

freeClient(s, c) ==
    LET free == IF Is(s, c, "blocked") THEN unblockClient(s, c) ELSE s
        left == LeavePatterns(LeaveChannels(free, c), c)
        gone == [unlinkClient(left, c) EXCEPT !.toClose = Without(@, c), !.cl[c] = Closed]
    IN IF Is(s, c, "protected") THEN freeClientAsync(s, c) ELSE gone

RECURSIVE freeClientsInAsyncFreeQueue(_)
freeClientsInAsyncFreeQueue(s) ==
    IF s.toClose = <<>> THEN s
    ELSE freeClientsInAsyncFreeQueue(freeClient(Clear(s, s.toClose[1], "close_asap"), s.toClose[1]))

protectClient(s, c) == Set([s EXCEPT !.cl[c].rd = FALSE, !.cl[c].wr = "no"], c, "protected")

unprotectClient(s, c) ==
    LET back == Clear([s EXCEPT !.cl[c].rd = TRUE], c, "protected")
    IN IF HasPending(s.cl[c]) THEN clientInstallWriteHandler(back, c) ELSE back

(* clientsArePaused: the call that finds the pause over ends it.           *)
RECURSIVE QueueAll(_, _)
QueueAll(s, cs) ==
    IF cs = <<>> THEN s
    ELSE QueueAll(IF Is(s, cs[1], "blocked") THEN s ELSE queueClientForReprocessing(s, cs[1]), Tail(cs))

EndPause(s) ==
    IF s.paused /\ s.pauseOver THEN QueueAll([s EXCEPT !.paused = FALSE], s.list) ELSE s

-----------------------------------------------------------------------------
(* Commands.  A busy server refuses all but the end of the script.         *)

resetClient(s, c) ==
    LET f == s.cl[c].flags \ {"reply_skip"}
    IN [s EXCEPT !.cl[c].flags = IF "skip_next" \in f THEN (f \ {"skip_next"}) \union {"reply_skip"} ELSE f]

PubsubOnly == {"sub", "psub", "unsub", "punsub"}

RECURSIVE KillAll(_, _, _)
KillAll(s, c, targets) ==
    IF targets = <<>> THEN s
    ELSE KillAll(IF targets[1] = c THEN s ELSE freeClient(s, targets[1]), c, Tail(targets))

clientKill(s, c, targets) ==
    LET killed == addReply(KillAll(s, c, SelectSeq(s.list, LAMBDA x : x \in targets)), c, Unit("ok", FALSE))
    IN IF c \in targets THEN Set(killed, c, "close_after") ELSE killed

clientUnblock(s, c, target) ==
    IF s.cl[target].open /\ Is(s, target, "blocked")
    THEN addReply(unblockClient(addReply(s, target, Unit("timeout", FALSE)), target), c, Unit("one", FALSE))
    ELSE addReply(s, c, Unit("zero", FALSE))

(* A push serves the client blocked longest, or leaves the element.        *)
push(s, c) ==
    LET s1 == addReply(s, c, Unit("ok", TRUE))
    IN IF s.waiting = <<>> THEN s1
       ELSE unblockClient(addReply(s1, s.waiting[1], Unit("element", FALSE)), s.waiting[1])

Execute(s, c, cmd) ==
    CASE cmd.op = "quit" -> Set(addReply(s, c, Unit("ok", FALSE)), c, "close_after")
      [] Is(s, c, "pubsub") /\ cmd.op \notin PubsubOnly -> addReply(s, c, Unit("err", FALSE))
      [] s.script # Nobody -> addReply(s, c, Unit("busy", FALSE))
      [] cmd.op = "write" -> addReply(s, c, Unit("ok", TRUE))
      [] cmd.op = "block" -> Set([s EXCEPT !.waiting = Append(@, c)], c, "blocked")
      [] cmd.op = "push" -> push(s, c)
      [] cmd.op = "sub" -> subscribe(s, c, cmd.arg)
      [] cmd.op = "psub" -> psubscribe(s, c, cmd.arg)
      [] cmd.op \in {"unsub", "punsub"} -> unsubscribe(s, c, cmd.op)
      [] cmd.op = "pub" -> addReply(pubsubPublishMessage(s, cmd.arg), c, Unit("receivers", FALSE))
      [] cmd.op = "kill" -> clientKill(s, c, cmd.arg)
      [] cmd.op = "unblock" -> clientUnblock(s, c, cmd.arg)
      [] cmd.op = "pause" -> addReply([s EXCEPT !.paused = TRUE, !.pauseOver = FALSE], c, Unit("ok", FALSE))
      [] cmd.op = "reply_off" -> Set(s, c, "reply_off")
      [] cmd.op = "reply_on" -> addReply([s EXCEPT !.cl[c].flags = @ \ {"reply_off", "reply_skip"}], c, Unit("ok", FALSE))
      [] cmd.op = "reply_skip" -> IF Is(s, c, "reply_off") THEN s ELSE Set(s, c, "skip_next")
      [] cmd.op = "script" -> protectClient([s EXCEPT !.script = c], c)

(* The loop stops when the current client is gone; a script that runs too  *)
(* long suspends it.                                                       *)
RECURSIVE ProcessLoop(_, _)
ProcessLoop(s0, c) ==
    LET cmd == s0.cl[c].in[1]
        After(done) == IF cmd.op = "script" /\ done.script = c THEN done
                       ELSE IF done.current = Nobody THEN resetClient(done, c)
                       ELSE ProcessLoop(resetClient(done, c), c)
        Step(s) == IF s.paused \/ s.cl[c].flags \intersect {"blocked", "close_after", "close_asap"} # {} THEN s
                   ELSE After(Execute([s EXCEPT !.cl[c].in = Tail(@)], c, cmd))
    IN IF s0.cl[c].in = <<>> THEN s0 ELSE Step(EndPause(s0))

(* processInputBuffer: whoever it was before, there is no current client   *)
(* when it returns.                                                        *)
processInputBuffer(s, c) ==
    LET Done(p) == IF p.script = c THEN p ELSE [p EXCEPT !.current = Nobody]
    IN Done(ProcessLoop([s EXCEPT !.current = c], c))

RECURSIVE processUnblockedClients(_)
processUnblockedClients(s) ==
    IF s.unblocked = <<>> \/ s.script # Nobody THEN s
    ELSE LET c == s.unblocked[1]
             out == Clear([s EXCEPT !.unblocked = Tail(@)], c, "unblocked")
         IN processUnblockedClients(IF Is(out, c, "blocked") \/ out.cl[c].in = <<>> THEN out
                                    ELSE processInputBuffer(out, c))

-----------------------------------------------------------------------------
(* Writing.  n is how many replies the socket takes, or Failed.            *)

Failed == -1

Whats(units) == [i \in DOMAIN units |-> units[i].what]

WriteFrom(k, n) ==
    LET all == k.buf \o k.list
    IN [k EXCEPT !.buf = IF n >= Len(@) THEN <<>> ELSE SubSeq(@, n + 1, Len(@)),
                 !.list = IF n >= Len(all) THEN <<>>
                          ELSE IF n <= Len(k.buf) THEN @ ELSE SubSeq(@, n - Len(k.buf) + 1, Len(@)),
                 !.got = @ \o Whats(SubSeq(all, 1, IF n < Len(all) THEN n ELSE Len(all)))]

writeToClient(s, c, n, installed) ==
    LET k == WriteFrom(s.cl[c], n)
        leak == \E i \in 1 .. Len(s.cl[c].buf \o s.cl[c].list) : i <= n /\ (s.cl[c].buf \o s.cl[c].list)[i].dirty
        wrote == [s EXCEPT !.cl[c] = IF installed /\ ~HasPending(k) THEN [k EXCEPT !.wr = "no"] ELSE k,
                           !.leaked = @ \/ (leak /\ s.script = Nobody)]
    IN IF n = Failed THEN freeClient(s, c)
       ELSE IF ~HasPending(k) /\ Is(s, c, "close_after") THEN freeClient(wrote, c) ELSE wrote

(* handleClientsWithPendingWrites: what cannot be written now gets a       *)
(* handler, with a barrier when replies wait for the append only file.     *)
RECURSIVE handleClientsWithPendingWrites(_, _)
handleClientsWithPendingWrites(s, n) ==
    IF s.pending = <<>> THEN s
    ELSE LET c == s.pending[1]
             out == Clear([s EXCEPT !.pending = Tail(@)], c, "pending_write")
             Handler(wrote) == IF wrote.cl[c].open /\ HasPending(wrote.cl[c])
                               THEN [wrote EXCEPT !.cl[c].wr = IF s.always THEN "wb" ELSE "w"] ELSE wrote
         IN handleClientsWithPendingWrites(
              IF Is(s, c, "protected") THEN out ELSE Handler(writeToClient(out, c, n[c], FALSE)), n)

(* flushAppendOnlyFile: the replies to the writes so far may go out.       *)
flushAppendOnlyFile(s) ==
    LET clean(q) == [i \in DOMAIN q |-> [q[i] EXCEPT !.dirty = FALSE]]
    IN [s EXCEPT !.cl = [c \in DOMAIN @ |-> [@[c] EXCEPT !.buf = clean(@), !.list = clean(@)]]]

-----------------------------------------------------------------------------
(* The event loop: beforeSleep, then at most one event per connection, in  *)
(* any order, then possibly the timers.                                    *)

Init ==
    \E setup \in Setups :
        /\ impl = [cl |-> [c \in DOMAIN setup.wire |->
                            IF c \in setup.away THEN Closed ELSE [Closed EXCEPT !.open = TRUE, !.rd = TRUE]],
                   list |-> SelectSeq([c \in DOMAIN setup.wire |-> c], LAMBDA c : c \notin setup.away), pending |-> <<>>,
                   unblocked |-> <<>>, toClose |-> <<>>, waiting |-> <<>>,
                   chans |-> [ch \in setup.channels |-> <<>>], pats |-> <<>>,
                   paused |-> FALSE, pauseOver |-> FALSE, current |-> Nobody, script |-> Nobody,
                   resume |-> FALSE, always |-> setup.always, limits |-> setup.limits, now |-> 1,
                   leaked |-> FALSE]
        /\ aux = [wire |-> setup.wire, away |-> setup.away, fired |-> {}, broken |-> {}, left |-> setup.budget]

Amounts == {0, 1, 9}

acceptCommonHandler(c) ==
    LET s == createClient(impl, c)
    IN /\ c \in aux.away
       /\ impl' = IF Len(s.list) > MaxClients THEN freeClient(s, c) ELSE s
       /\ aux' = [aux EXCEPT !.away = @ \ {c}]

ReadEvent(s, c, n) ==
    IF n = 0 \/ ~s.cl[c].rd THEN s
    ELSE IF n = Failed THEN freeClient(s, c)
    ELSE processInputBuffer([s EXCEPT !.cl[c].in = @ \o SubSeq(aux.wire[c], 1, n)], c)

WriteEvent(s, c, n) ==
    IF n = 0 \/ s.cl[c].wr = "no" THEN s ELSE writeToClient(s, c, n, TRUE)

Fire(s, c, n, w) ==
    IF s.cl[c].wr = "wb" THEN ReadEvent(WriteEvent(s, c, w), c, n)
    ELSE WriteEvent(ReadEvent(s, c, n), c, w)

(* While a script runs too long its events come from nested polls.         *)
aeProcessEvents(c, n, w) ==
    /\ impl.cl[c].open
    /\ n # 0 => impl.cl[c].rd
    /\ w # 0 => impl.cl[c].wr # "no"
    /\ n # 0 \/ w # 0
    /\ c \notin aux.fired \/ impl.script # Nobody
    /\ n = Failed \/ w = Failed => aux.left > 0
    /\ impl' = Fire(impl, c, n, w)
    /\ aux' = [aux EXCEPT !.wire[c] = IF n > 0 THEN SubSeq(@, n + 1, Len(@)) ELSE @,
                          !.fired = IF impl.script # Nobody THEN @ ELSE @ \union {c},
                          !.broken = IF n > 0 THEN @ \ {c} ELSE @,
                          !.left = IF n = Failed \/ w = Failed THEN @ - 1 ELSE @]

FinishBeforeSleep(s, n) ==
    IF s.script # Nobody THEN [s EXCEPT !.resume = TRUE]
    ELSE [handleClientsWithPendingWrites(flushAppendOnlyFile(s), n) EXCEPT !.resume = FALSE]

beforeSleep(n) ==
    /\ impl.script = Nobody
    /\ impl' = FinishBeforeSleep(processUnblockedClients(impl), [c \in Ids |-> n])
    /\ aux' = [aux EXCEPT !.fired = {}]

(* processEventsWhileBlocked: between nested polls replies are written.    *)
processEventsWhileBlocked(n) ==
    /\ impl.script # Nobody
    /\ impl.pending # <<>>
    /\ impl' = handleClientsWithPendingWrites(impl, [c \in Ids |-> n])
    /\ UNCHANGED aux

(* The script ends: its caller is served again and the loop that executed  *)
(* it goes on, if its client is still the current one.                     *)
ScriptEnd(n) ==
    LET c == impl.script
        ended == resetClient(addReply(unprotectClient([impl EXCEPT !.script = Nobody], c), c, Unit("ok", TRUE)), c)
        goneOn == IF impl.current = Nobody THEN ended ELSE processInputBuffer(ended, c)
    IN /\ impl.script # Nobody
       /\ impl' = IF impl.resume THEN FinishBeforeSleep(processUnblockedClients(goneOn), [x \in Ids |-> n]) ELSE goneOn
       /\ aux' = IF impl.current = Nobody THEN [aux EXCEPT !.broken = @ \union {c}] ELSE aux

(* serverCron: blocked and idle clients time out, one at a time here.      *)
clientsCronHandleTimeout(s, c) ==
    IF c = Nobody \/ ~s.cl[c].open \/ Is(s, c, "pubsub") THEN s
    ELSE IF Is(s, c, "blocked") THEN unblockClient(addReply(s, c, Unit("timeout", FALSE)), c)
    ELSE freeClient(s, c)

serverCron(c) ==
    /\ impl.script = Nobody
    /\ aux.left > 0
    /\ impl' = EndPause(freeClientsInAsyncFreeQueue(
                  clientsCronHandleTimeout([impl EXCEPT !.now = @ + 1], c)))
    /\ aux' = [aux EXCEPT !.left = @ - 1]

PauseTimePasses ==
    /\ impl.paused /\ ~impl.pauseOver
    /\ impl' = [impl EXCEPT !.pauseOver = TRUE]
    /\ UNCHANGED aux

Next ==
    \/ \E c \in Ids : acceptCommonHandler(c)
    \/ \E c \in Ids : \E n \in -1 .. Len(aux.wire[c]), w \in {Failed, 0, 1, 9} : aeProcessEvents(c, n, w)
    \/ \E n \in Amounts : beforeSleep(n) \/ processEventsWhileBlocked(n) \/ ScriptEnd(n)
    \/ \E c \in Ids \union {Nobody} : serverCron(c)
    \/ PauseTimePasses

Spec == Init /\ [][Next]_vars

-----------------------------------------------------------------------------
(* Properties.                                                             *)

(* The server's queues and its clients' flags say the same, whatever       *)
(* happened to a client while it waited in one of them (pending_write,     *)
(* unblocked and close_asap flags; the blocked flag and the keys' waiting  *)
(* lists), and the index of subscribers is the converse of the clients'    *)
(* own lists; no queue holds a client twice or one that is gone.           *)
ListsSound ==
    LET s == impl
        Agrees(q, flag) == IsInjective(q) /\ ToSet(q) = {c \in Ids : Is(s, c, flag)}
    IN /\ Agrees(s.pending, "pending_write")
       /\ Agrees(s.unblocked, "unblocked")
       /\ Agrees(s.toClose, "close_asap")
       /\ Agrees(s.waiting, "blocked")
       /\ IsInjective(s.list) /\ ToSet(s.list) = {c \in Ids : s.cl[c].open}
       /\ \A ch \in DOMAIN s.chans : IsInjective(s.chans[ch]) /\ ToSet(s.chans[ch]) = {c \in Ids : ch \in s.cl[c].chans}
       /\ IsInjective(s.pats)
       /\ ToSet(s.pats) = UNION {{<<p, c>> : p \in ToSet(s.cl[c].pats)} : c \in Ids}
       /\ \A c \in Ids : Is(s, c, "pubsub") <=> s.cl[c].chans # {} \/ s.cl[c].pats # <<>>

(* No reply waits for an event nobody will deliver: a client with replies  *)
(* to get is in the queue of pending writes or has a write handler, and so *)
(* has one that closes after its last reply (prepareClientToWrite installs *)
(* the handler only for the first reply), unless it silenced its replies.  *)
NoStrandedOutput ==
    \A c \in Ids : LET k == impl.cl[c] IN
        /\ k.open
        /\ HasPending(k) \/ ("close_after" \in k.flags /\ k.flags \intersect {"reply_off", "reply_skip"} = {})
        => "pending_write" \in k.flags \/ k.wr # "no" \/ "protected" \in k.flags

(* No command waits in a query buffer with nothing to run it: its client   *)
(* is blocked, paused or closing, or queued for reprocessing.  A client    *)
(* whose loop was cut short because a nested one ran while it was in a     *)
(* slow script (server.current_client is then NULL) is left out until it   *)
(* sends more: its commands do wait that long.                             *)
NoStrandedCommand ==
    impl.script = Nobody =>
        \A c \in Ids \ aux.broken :
            impl.cl[c].in # <<>> =>
                impl.paused \/ impl.cl[c].flags \intersect {"blocked", "unblocked", "close_after", "close_asap"} # {}

(* What a client got, followed by what its static buffer and its reply     *)
(* list still hold, is all that was said to it, in order, through partial  *)
(* writes and the move from buffer to list.                                *)
RepliesInOrder ==
    \A c \in Ids : LET k == impl.cl[c] IN k.got \o Whats(k.buf \o k.list) = k.said

(* With appendfsync always the reply to a write is not sent before the     *)
(* append only file is flushed (the AE_BARRIER of                          *)
(* handleClientsWithPendingWrites), except while a slow script runs:       *)
(* processEventsWhileBlocked writes replies and flushes nothing.           *)
SyncBeforeReply == impl.always => ~impl.leaked
=============================================================================
