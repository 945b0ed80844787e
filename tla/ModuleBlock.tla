---------------------------- MODULE ModuleBlock -----------------------------
(***************************************************************************)
(* Clients blocked by modules (module.c): a command blocks its client and  *)
(* leaves a handle to a thread of the module, which accumulates a reply,   *)
(* calls the server under the global lock and unblocks the client; the     *)
(* main thread meanwhile times clients out, loses them, and serves the     *)
(* queue of unblocked handles, releasing the queue's mutex around the      *)
(* module's callbacks.                                                     *)
(*                                                                         *)
(* Handles are numbered as they are made; each has its thread.  A client   *)
(* of 0 is NULL.  fate records what ended each blocked command.            *)
(***************************************************************************)
EXTENDS Integers, Sequences, FiniteSets, SequencesExt

CONSTANTS
    Clients,    \* the clients, numbers from 1
    MaxHandles  \* a bound on the blocking commands

VARIABLES impl, aux

vars == <<impl, aux>>

Handles == DOMAIN impl.bc
(* Who holds a lock: the main thread, a handle's thread, or nobody.        *)
Main == 0
Free == -1

Reply(s, c, r) == [s EXCEPT !.cl[c].got = Append(@, r)]

-----------------------------------------------------------------------------
(* The main thread, which holds the global lock unless it sleeps.          *)

Awake == impl.pc = "run" /\ ~impl.crashed

(* A command that blocks; in a transaction it only gets an error, and a    *)
(* handle that is aborted from the start.                                  *)
RM_BlockClient(c, multi) ==
    LET h == Len(impl.bc) + 1
        bc == [client |-> IF multi THEN 0 ELSE c, owner |-> c, cb |-> TRUE, disconnect |-> TRUE, priv |-> 0,
               out |-> <<>>, live |-> TRUE, thread |-> "start"]
    IN /\ Awake /\ impl.cl[c].st = "idle" /\ h <= MaxHandles
       /\ impl' = [impl EXCEPT !.bc = Append(@, bc),
                               !.cl[c] = IF multi THEN [@ EXCEPT !.got = Append(@, <<"error", h>>)]
                                         ELSE [@ EXCEPT !.st = "blocked", !.h = h]]
       /\ aux' = [aux EXCEPT !.fate = Append(@, IF multi THEN {"error"} ELSE {}), !.parts = Append(@, 0)]

(* unblockClient for a module's client: the handle loses its client.       *)
unblockClientFromModule(s, c) ==
    [s EXCEPT !.bc[s.cl[c].h].client = 0, !.cl[c].st = "idle", !.cl[c].h = 0]

Ends(h, how) == [aux EXCEPT !.fate[h] = IF how \in @ THEN {"twice"} ELSE @ \union {how}]

(* clientsCron: the timeout callback replies.                              *)
moduleBlockedClientTimedOut(c) ==
    LET h == impl.cl[c].h
    IN /\ Awake /\ impl.cl[c].st = "blocked"
       /\ impl' = unblockClientFromModule(Reply([impl EXCEPT !.bc[h].disconnect = FALSE], c, <<"timeout", h>>), c)
       /\ aux' = Ends(h, "timeout")

(* The connection is lost: the disconnect callback, if it is still set.    *)
Disconnect(c) ==
    LET h == impl.cl[c].h
        gone == [unblockClientFromModule(impl, c) EXCEPT !.cl[c].st = "gone", !.cl[c].got = <<>>]
    IN /\ Awake /\ impl.cl[c].st = "blocked"
       /\ impl' = gone
       /\ aux' = Ends(h, "gone")

-----------------------------------------------------------------------------
(* moduleHandleBlockedClients, a step between lock and unlock at a time.   *)

HandleStart ==
    /\ Awake /\ impl.mutex = Free
    /\ impl' = [impl EXCEPT !.pc = "locked", !.mutex = Main, !.pipe = 0]
    /\ UNCHANGED aux

HandlePop ==
    /\ impl.pc = "locked"
    /\ impl' = IF impl.queue = <<>> THEN [impl EXCEPT !.pc = "handled", !.mutex = Free]
               ELSE [impl EXCEPT !.pc = "serve", !.hand = impl.queue[1], !.queue = Tail(@), !.mutex = Free]
    /\ UNCHANGED aux

(* The reply callback, the privdata, what the thread said, then the client *)
(* goes on, and the handle is freed.                                       *)
Serve(h) ==
    LET bc == impl.bc[h]
        c == bc.client
        told == IF c # 0 /\ bc.cb THEN Reply(impl, c, <<"reply", h>>) ELSE impl
        glued == IF c # 0 THEN [told EXCEPT !.cl[c].got = @ \o bc.out] ELSE told
        going == IF c # 0 THEN unblockClientFromModule(glued, c) ELSE glued
    IN [going EXCEPT !.bc[h].live = FALSE, !.bc[h].priv = 0, !.bc[h].out = <<>>]

HandleServeOne ==
    LET h == impl.hand
    IN /\ impl.pc = "serve" /\ impl.mutex = Free
       /\ impl' = [Serve(h) EXCEPT !.pc = "handled", !.hand = 0]
       /\ aux' = IF impl.bc[h].client # 0 THEN Ends(h, IF impl.bc[h].cb THEN "reply" ELSE "aborted") ELSE aux

HandleServe ==
    LET h == impl.hand
    IN /\ impl.pc = "serve" /\ impl.mutex = Free
       /\ impl' = [Serve(h) EXCEPT !.pc = "locked", !.mutex = Main, !.hand = 0]
       /\ aux' = IF impl.bc[h].client # 0 THEN Ends(h, IF impl.bc[h].cb THEN "reply" ELSE "aborted") ELSE aux

(* beforeSleep ends by releasing the lock, afterSleep takes it.            *)
Sleep ==
    /\ impl.pc = "handled"
    /\ impl' = [impl EXCEPT !.pc = "sleep", !.gil = Free]
    /\ UNCHANGED aux

Wake ==
    /\ impl.pc = "sleep" /\ impl.gil = Free /\ ~impl.crashed
    /\ impl' = [impl EXCEPT !.pc = "run", !.gil = Main]
    /\ UNCHANGED aux

-----------------------------------------------------------------------------
(* The threads.                                                            *)

At(h, where) == h \in Handles /\ impl.bc[h].thread = where /\ ~impl.crashed

(* The context copies the id of the client, which must still be there.     *)
RM_GetThreadSafeContext(h) ==
    /\ At(h, "start")
    /\ impl' = IF impl.bc[h].client = 0 THEN [impl EXCEPT !.crashed = TRUE]
               ELSE [impl EXCEPT !.bc[h].thread = "work"]
    /\ UNCHANGED aux

(* A thread may also do without a context.                                 *)
NoContext(h) ==
    /\ At(h, "start")
    /\ impl' = [impl EXCEPT !.bc[h].thread = "plain"]
    /\ UNCHANGED aux

RM_ReplyWith(h) ==
    /\ At(h, "work") /\ Len(impl.bc[h].out) < 2
    /\ impl' = [impl EXCEPT !.bc[h].out = Append(@, <<"part", h>>)]
    /\ aux' = [aux EXCEPT !.parts[h] = @ + 1]

RM_ThreadSafeContextLock(h) ==
    /\ At(h, "work") /\ impl.gil = Free
    /\ impl' = [impl EXCEPT !.bc[h].thread = "call", !.gil = h]
    /\ UNCHANGED aux

RM_ThreadSafeContextUnlock(h) ==
    /\ At(h, "call")
    /\ impl' = [impl EXCEPT !.bc[h].thread = "work", !.gil = Free]
    /\ UNCHANGED aux

(* The queue is shared with the main thread; a thread in a call holds the  *)
(* global lock as well.                                                    *)
LockQueue(h, how) ==
    /\ At(h, "work") \/ At(h, "plain") \/ At(h, "call")
    /\ impl.mutex = Free
    /\ impl' = [impl EXCEPT !.mutex = h, !.bc[h] =
                  [@ EXCEPT !.thread = IF @ = "call" THEN "push_in_call" ELSE "push",
                            !.priv = IF how = "abort" THEN 0 ELSE h,
                            !.cb = how # "abort", !.disconnect = @ /\ how # "abort"]]
    /\ UNCHANGED aux

RM_UnblockClient(h) ==
    /\ At(h, "push") \/ At(h, "push_in_call")
    /\ impl' = [impl EXCEPT !.queue = Append(@, h), !.pipe = @ + 1, !.mutex = Free,
                            !.gil = IF impl.bc[h].thread = "push_in_call" THEN Free ELSE @,
                            !.bc[h].thread = "done"]
    /\ UNCHANGED aux

Init ==
    /\ impl = [cl |-> [c \in Clients |-> [st |-> "idle", h |-> 0, got |-> <<>>]], bc |-> <<>>, queue |-> <<>>,
               pipe |-> 0, mutex |-> Free, gil |-> Main, pc |-> "run", hand |-> 0, crashed |-> FALSE]
    /\ aux = [fate |-> <<>>, parts |-> <<>>]

Next ==
    \/ \E c \in Clients :
          \/ \E multi \in BOOLEAN : RM_BlockClient(c, multi)
          \/ moduleBlockedClientTimedOut(c) \/ Disconnect(c)
    \/ HandleStart \/ HandlePop \/ HandleServe \/ Sleep \/ Wake
    \/ \E h \in Handles :
          \/ RM_GetThreadSafeContext(h) \/ NoContext(h) \/ RM_ReplyWith(h)
          \/ RM_ThreadSafeContextLock(h) \/ RM_ThreadSafeContextUnlock(h)
          \/ LockQueue(h, "unblock") \/ LockQueue(h, "abort") \/ RM_UnblockClient(h)

Spec == Init /\ [][Next]_vars

-----------------------------------------------------------------------------
(* Properties.                                                             *)

(* A blocking command ends in one way: its reply, its timeout, the loss of *)
(* its client or its abort, whichever the main thread and the module's     *)
(* thread come to first, and the other way then finds no client.           *)
EndsOnce == \A h \in Handles : Cardinality(aux.fate[h]) <= 1 /\ "twice" \notin aux.fate[h]

(* A client is blocked exactly while its handle is live and names it, so   *)
(* that no late unblock reaches the client's next command.                 *)
HandlesSound ==
    /\ \A c \in Clients : impl.cl[c].st = "blocked" <=>
          \E h \in Handles : impl.cl[c].h = h /\ impl.bc[h].client = c /\ impl.bc[h].live
    /\ \A h \in Handles : impl.bc[h].client # 0 => impl.cl[impl.bc[h].client].h = h
    /\ \A i \in DOMAIN impl.queue : impl.bc[impl.queue[i]].live
    /\ impl.hand # 0 => impl.bc[impl.hand].live

(* What threads accumulated for a client reaches it after the reply        *)
(* callback's output and before anything of its later commands.            *)
RepliesGrouped ==
    \A c \in Clients : LET got == impl.cl[c].got IN
        /\ \A i, j \in DOMAIN got : i < j => got[i][2] <= got[j][2]
        /\ \A h \in Handles : /\ impl.bc[h].owner = c /\ "reply" \in aux.fate[h]
                              /\ impl.cl[c].st # "gone"
                              => Cardinality({i \in DOMAIN got : got[i] = <<"part", h>>}) = aux.parts[h]

(* The pipe wakes the main thread: while a handle waits in the queue, the  *)
(* pipe has a byte or the main thread is emptying the queue.               *)
QueueAwaits == impl.queue # <<>> => impl.pipe > 0 \/ impl.mutex = Main \/ impl.pc = "serve"

\* Handles, clients and the queue between threads and event loop agree: a blocked
\* client is answered once, by its own handle, with all that was written for it.
BlockedSound == EndsOnce /\ HandlesSound /\ QueueAwaits /\ RepliesGrouped
=============================================================================
