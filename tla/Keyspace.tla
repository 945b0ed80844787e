------------------------------ MODULE Keyspace ------------------------------
(***************************************************************************)
(* The keyspace of a master (db.c, expire.c, evict.c, t_string.c), its     *)
(* clients with MULTI / EXEC / WATCH (multi.c), blocking list operations   *)
(* (blocked.c, t_list.c) and Lua scripts (scripting.c), and what all of    *)
(* them propagate: the commands call() of server.c sends to a replica,     *)
(* which applies them later with its own clock, and to the append only     *)
(* file, whose content stands here for the dataset that loading it gives.  *)
(*                                                                         *)
(* A command is executed in a context: the dataset it runs against, the    *)
(* role of the server (master, replica, loading the AOF), the time, and    *)
(* what it leaves behind for call() and processCommand().  The database a  *)
(* command applies to is part of the command: how SELECT travels is        *)
(* modelled in FullSync and Aof.                                           *)
(***************************************************************************)
EXTENDS Integers, Sequences, FiniteSets, SequencesExt

CONSTANTS
  Dbs,        \* the numbers of the databases
  Keys,       \* names of keys
  Clients,    \* the clients of the master
  Scripts,    \* [sha -> [body : Seq(command), effects : BOOLEAN]]
  Setups      \* the situations explored, see Init

VARIABLES
  setup,    \* the situation explored
  now,      \* mstime()
  data,     \* the dataset of the master, with its script caches
  client,   \* per client: transaction, watched keys, what it is blocked on
  blocking, \* per database and key: the queue of blocked clients
  stream,   \* commands propagated and not applied by the replica yet
  replica,  \* the replica: its dataset and the transaction it receives
  aof,      \* the dataset that loading the append only file gives
  ghost     \* history: elements pushed and not delivered, stale EXECs, lists
            \* that were not announced

vars == <<setup, now, data, client, blocking, stream, replica, aof, ghost>>

None == [type |-> "none", n |-> 0, l |-> <<>>]
Str(n) == [type |-> "string", n |-> n, l |-> <<>>]
List(l) == [type |-> "list", n |-> 0, l |-> l]

NoExpire == 0

\* A command: the operation, its database, keys, value, relative or absolute
\* expire, option (nx, xx, head, tail), script, and the key whose presence
\* makes a script skip it.
Command(op, k) == [op |-> op, b |-> 0, k |-> k, k2 |-> k, v |-> 0, ttl |-> 0,
                   opt |-> "", sha |-> "", unless |-> ""]

EmptyDataset == [db  |-> [b \in Dbs |-> [k \in Keys |-> None]],
                 exp |-> [b \in Dbs |-> [k \in Keys |-> NoExpire]],
                 scripts |-> {}, cache |-> {}]

\* The context of a command.  dirty, sent, also, force and prevent are what
\* call() looks at; touched are the keys passed to signalModifiedKey, ready the
\* ones passed to signalKeyAsReady; blocks says that the client must wait, err
\* that the reply is an error, must that MULTI was propagated, wrote that the
\* running script called a write command; net counts elements pushed less
\* elements handed to clients.  History only: quiet are the keys where a list
\* took the place of a value of another type without signalKeyAsReady, aside
\* the keys that MOVE, SWAPDB or an eviction changed without signalModifiedKey.
Context(d, role, time) ==
  [d |-> d, role |-> role, now |-> time, multi |-> FALSE, cmd |-> Command("", ""),
   dirty |-> 0, sent |-> <<>>, also |-> <<>>, force |-> FALSE, prevent |-> FALSE,
   touched |-> {}, ready |-> <<>>, blocks |-> FALSE, err |-> FALSE, must |-> FALSE,
   wrote |-> FALSE, limit |-> 0, net |-> 0, quiet |-> {}, aside |-> {}]

-----------------------------------------------------------------------------
(* Access to the keyspace: db.c.                                           *)

Value(x, b, k) == x.d.db[b][k]
Exists(x, b, k) == Value(x, b, k) # None

Propagate(x, c) == [x EXCEPT !.sent = Append(@, c)]

DbDelete(x, b, k) == [x EXCEPT !.d.db[b][k] = None, !.d.exp[b][k] = NoExpire]

DelCommand(b, k) == [Command("del", k) EXCEPT !.b = b]

KeyIsExpired(x, b, k) ==
  /\ x.d.exp[b][k] # NoExpire
  /\ x.role # "loading"
  /\ x.now > x.d.exp[b][k]

\* A mutant: a replica deletes the keys it finds expired.
ExpireIfNeededAnywhere(x, b, k) ==
  IF KeyIsExpired(x, b, k) THEN DbDelete(Propagate(x, DelCommand(b, k)), b, k) ELSE x

\* Only a master deletes an expired key, and then tells the replicas and the
\* AOF; a replica executing the stream of its master uses the value it has.
ExpireIfNeeded(x, b, k) ==
  IF KeyIsExpired(x, b, k) /\ x.role = "master"
  THEN DbDelete(Propagate(x, DelCommand(b, k)), b, k)
  ELSE x

SignalModifiedKey(x, b, k) == [x EXCEPT !.touched = @ \cup {<<b, k>>}]

SignalKeyAsReady(x, b, k) ==
  IF Contains(x.ready, <<b, k>>) THEN x ELSE [x EXCEPT !.ready = Append(@, <<b, k>>)]

DbAdd(x, b, k, v) ==
  LET y == [x EXCEPT !.d.db[b][k] = v]
  IN IF v.type = "list" THEN SignalKeyAsReady(y, b, k) ELSE y

\* Unlike dbAdd, dbOverwrite announces no list.
DbOverwrite(x, b, k, v) ==
  [x EXCEPT !.d.db[b][k] = v,
            !.quiet = IF v.type = "list" /\ Value(x, b, k).type = "string"
                      THEN @ \cup {<<b, k>>} ELSE @]

SetExpire(x, b, k, when) == [x EXCEPT !.d.exp[b][k] = when]

SetKey(x, b, k, v) ==
  LET y == ExpireIfNeeded(x, b, k)
      z == IF Exists(y, b, k) THEN DbOverwrite(y, b, k, v) ELSE DbAdd(y, b, k, v)
  IN SignalModifiedKey(SetExpire(z, b, k, NoExpire), b, k)

Dirty(x) == [x EXCEPT !.dirty = @ + 1]

Error(x) == [x EXCEPT !.err = TRUE]

\* What is left of a list; an empty one is deleted.
Keep(x, b, k, l) == IF l = <<>> THEN DbDelete(x, b, k) ELSE DbOverwrite(x, b, k, List(l))

-----------------------------------------------------------------------------
(* Commands on strings and on keys: t_string.c, db.c, expire.c.            *)

SetCommand(x0, c) ==
  LET x == ExpireIfNeeded(x0, c.b, c.k)
      y == Dirty(SetKey(x, c.b, c.k, Str(c.v)))
  IN IF \/ c.opt = "nx" /\ Exists(x, c.b, c.k)
        \/ c.opt = "xx" /\ ~Exists(x, c.b, c.k)
     THEN x
     ELSE IF c.ttl # 0 THEN SetExpire(y, c.b, c.k, x.now + c.ttl) ELSE y

GetCommand(x, c) == ExpireIfNeeded(x, c.b, c.k)

\* INCR, APPEND, SETRANGE: the value is modified where it is, the TTL stays.
IncrCommand(x0, c) ==
  LET x == ExpireIfNeeded(x0, c.b, c.k)
      v == Value(x, c.b, c.k)
      y == IF v = None THEN DbAdd(x, c.b, c.k, Str(1))
                       ELSE DbOverwrite(x, c.b, c.k, Str(1 - v.n))
  IN IF v.type = "list" THEN Error(x) ELSE Dirty(SignalModifiedKey(y, c.b, c.k))

GetSetCommand(x0, c) ==
  LET x == ExpireIfNeeded(x0, c.b, c.k)
  IN IF Value(x, c.b, c.k).type = "list" THEN Error(x)
     ELSE Dirty(SetKey(x, c.b, c.k, Str(c.v)))

\* MSET and MSETNX of the two keys of the command.
MSetCommand(x0, c) ==
  LET x == ExpireIfNeeded(ExpireIfNeeded(x0, c.b, c.k), c.b, c.k2)
      y == SetKey(SetKey(x, c.b, c.k, Str(c.v)), c.b, c.k2, Str(c.v))
  IN IF c.opt = "nx"
     THEN IF Exists(x, c.b, c.k) \/ Exists(x, c.b, c.k2) THEN x ELSE Dirty(y)
     ELSE Dirty(SetKey(SetKey(x0, c.b, c.k, Str(c.v)), c.b, c.k2, Str(c.v)))

DelGenericCommand(x0, c) ==
  LET x == ExpireIfNeeded(x0, c.b, c.k)
  IN IF Exists(x, c.b, c.k)
     THEN Dirty(SignalModifiedKey(DbDelete(x, c.b, c.k), c.b, c.k))
     ELSE x

ExpireGenericCommand(x0, c) ==
  LET x == ExpireIfNeeded(x0, c.b, c.k)
      when == IF c.opt = "at" THEN c.ttl ELSE c.ttl + x.now
      deleted == [DbDelete(x, c.b, c.k) EXCEPT !.cmd = DelCommand(c.b, c.k)]
  IN IF ~Exists(x, c.b, c.k) THEN x
     ELSE IF when <= x.now /\ x.role = "master"
     THEN Dirty(SignalModifiedKey(deleted, c.b, c.k))
     ELSE Dirty(SignalModifiedKey(SetExpire(x, c.b, c.k, when), c.b, c.k))

PersistCommand(x0, c) ==
  LET x == ExpireIfNeeded(x0, c.b, c.k)
  IN IF Exists(x, c.b, c.k) /\ x.d.exp[c.b][c.k] # NoExpire
     THEN Dirty(SetExpire(x, c.b, c.k, NoExpire))
     ELSE x

RenameGenericCommand(x0, c) ==
  LET x1 == ExpireIfNeeded(x0, c.b, c.k)
      x == ExpireIfNeeded(x1, c.b, c.k2)
      added == DbAdd(DbDelete(x, c.b, c.k2), c.b, c.k2, Value(x, c.b, c.k))
      moved == DbDelete(SetExpire(added, c.b, c.k2, x.d.exp[c.b][c.k]), c.b, c.k)
  IN IF ~Exists(x1, c.b, c.k) THEN Error(x1)
     ELSE IF c.k = c.k2 THEN x1
     ELSE IF Exists(x, c.b, c.k2) /\ c.opt = "nx" THEN x
     ELSE Dirty(SignalModifiedKey(SignalModifiedKey(moved, c.b, c.k), c.b, c.k2))

\* MOVE to the database c.v.
MoveCommand(x0, c) ==
  LET x1 == ExpireIfNeeded(x0, c.b, c.k)
      x == ExpireIfNeeded(x1, c.v, c.k)
      added == DbAdd(x, c.v, c.k, Value(x, c.b, c.k))
      moved == SetExpire(added, c.v, c.k, x.d.exp[c.b][c.k])
  IN IF c.v = c.b THEN x0
     ELSE IF ~Exists(x1, c.b, c.k) THEN x1
     ELSE IF Exists(x, c.v, c.k) THEN x
     ELSE Dirty([DbDelete(moved, c.b, c.k) EXCEPT
                   !.aside = @ \cup {<<c.b, c.k>>, <<c.v, c.k>>}])

\* A mutant: the clients blocked on lists of the other database are forgotten.
SwapWithoutScan(x, c) ==
  Dirty([x EXCEPT !.d.db = [@ EXCEPT ![c.b] = x.d.db[c.v], ![c.v] = x.d.db[c.b]],
                  !.d.exp = [@ EXCEPT ![c.b] = x.d.exp[c.v], ![c.v] = x.d.exp[c.b]]])

\* SWAPDB exchanges what two databases hold; the clients stay, so the lists
\* that arrive in a database are announced to the clients blocked there.
SwapdbCommand(x, c) ==
  LET y == [x EXCEPT !.d.db = [@ EXCEPT ![c.b] = x.d.db[c.v], ![c.v] = x.d.db[c.b]],
                     !.d.exp = [@ EXCEPT ![c.b] = x.d.exp[c.v], ![c.v] = x.d.exp[c.b]],
                     !.aside = @ \cup {c.b, c.v} \X Keys]
      lists == {p \in {c.b, c.v} \X Keys : Value(y, p[1], p[2]).type = "list"}
  IN Dirty(FoldLeft(LAMBDA z, p : SignalKeyAsReady(z, p[1], p[2]), y, SetToSeq(lists)))

\* FLUSHDB, or FLUSHALL when c.opt is "all".
FlushCommand(x, c) ==
  LET bs == IF c.opt = "all" THEN Dbs ELSE {c.b}
      gone == {p \in bs \X Keys : Exists(x, p[1], p[2])}
  IN [x EXCEPT !.touched = @ \cup gone,
               !.dirty = @ + Cardinality(gone) + (IF c.opt = "all" THEN 1 ELSE 0),
               !.d.db = [b \in Dbs |-> IF b \in bs THEN EmptyDataset.db[b] ELSE @[b]],
               !.d.exp = [b \in Dbs |-> IF b \in bs THEN EmptyDataset.exp[b] ELSE @[b]]]

-----------------------------------------------------------------------------
(* Lists: t_list.c.                                                        *)

Put(l, v, side) == IF side = "head" THEN <<v>> \o l ELSE Append(l, v)
Taken(l, side) == IF side = "head" THEN Head(l) ELSE Last(l)
Rest(l, side) == IF side = "head" THEN Tail(l) ELSE Front(l)

\* LPUSH and RPUSH.
PushGenericCommand(x0, c) ==
  LET x == ExpireIfNeeded(x0, c.b, c.k)
      o == Value(x, c.b, c.k)
      y == IF o = None THEN DbAdd(x, c.b, c.k, List(<<c.v>>))
                       ELSE DbOverwrite(x, c.b, c.k, List(Put(o.l, c.v, c.opt)))
  IN IF o.type = "string" THEN Error(x)
     ELSE Dirty(SignalModifiedKey([y EXCEPT !.net = @ + 1], c.b, c.k))

PopGenericCommand(x0, c) ==
  LET x == ExpireIfNeeded(x0, c.b, c.k)
      o == Value(x, c.b, c.k)
      y == Keep(x, c.b, c.k, Rest(o.l, c.opt))
  IN IF o = None THEN x
     ELSE IF o.type = "string" THEN Error(x)
     ELSE Dirty(SignalModifiedKey([y EXCEPT !.net = @ - 1], c.b, c.k))

\* rpoplpushHandlePush: v goes to the head of the list dst, made if needed.
HandlePush(x, b, dst, v) ==
  SignalModifiedKey(IF Exists(x, b, dst)
                    THEN DbOverwrite(x, b, dst, List(<<v>> \o Value(x, b, dst).l))
                    ELSE DbAdd(x, b, dst, List(<<v>>)), b, dst)

RpoplpushCommand(x0, c) ==
  LET x1 == ExpireIfNeeded(x0, c.b, c.k)
      o == Value(x1, c.b, c.k)
      x == ExpireIfNeeded(x1, c.b, c.k2)
      popped == DbOverwrite(x, c.b, c.k, List(Front(o.l)))
      pushed == HandlePush(popped, c.b, c.k2, Last(o.l))
      y == Keep(pushed, c.b, c.k, Value(pushed, c.b, c.k).l)
  IN IF o = None THEN x1
     ELSE IF o.type = "string" THEN Error(x1)
     ELSE IF Value(x, c.b, c.k2).type = "string" THEN Error(x)
     ELSE Dirty(SignalModifiedKey([y EXCEPT !.cmd.op = "rpoplpush"], c.b, c.k))

\* BLPOP and BRPOP of one or two keys, in the order given.
RECURSIVE BlockingPop(_, _, _)
BlockingPop(x0, c, ks) ==
  IF ks = <<>> THEN [x0 EXCEPT !.blocks = ~x0.multi]
  ELSE LET x == ExpireIfNeeded(x0, c.b, Head(ks))
           o == Value(x, c.b, Head(ks))
           y == [Keep(x, c.b, Head(ks), Rest(o.l, c.opt)) EXCEPT
                   !.cmd = [Command("pop", Head(ks)) EXCEPT !.b = c.b, !.opt = c.opt],
                   !.net = @ - 1]
       IN IF o = None THEN BlockingPop(x, c, Tail(ks))
          ELSE IF o.type = "string" THEN Error(x)
          ELSE Dirty(SignalModifiedKey(y, c.b, Head(ks)))

WaitKeys(c) == IF c.k = c.k2 \/ c.op = "brpoplpush" THEN <<c.k>> ELSE <<c.k, c.k2>>

BrpoplpushCommand(x0, c) ==
  LET x == ExpireIfNeeded(x0, c.b, c.k)
  IN IF ~Exists(x, c.b, c.k) THEN [x EXCEPT !.blocks = ~x.multi]
     ELSE RpoplpushCommand(x, c)

\* SORT k STORE k2: the stored list replaces what k2 holds.
SortStoreCommand(x0, c) ==
  LET Of(x, o) ==
        IF o.type = "string" THEN Error(x)
        ELSE IF o # None THEN Dirty(SetKey(x, c.b, c.k2, List(SortSeq(o.l, <))))
        ELSE IF ~Exists(x, c.b, c.k2) THEN x
        ELSE Dirty(SignalModifiedKey(DbDelete(x, c.b, c.k2), c.b, c.k2))
      Found(x) == Of(x, Value(x, c.b, c.k))
  IN Found(ExpireIfNeeded(x0, c.b, c.k))

-----------------------------------------------------------------------------
(* call() of server.c, EXEC, and scripts.                                  *)

RECURSIVE Exec(_, _)

\* call(): runs a command and propagates it if it changed the dataset or asked
\* for it; what it sent meanwhile (a DEL, the commands of a transaction) is
\* already on its way.
Call(x, c) ==
  LET Itself(y) == IF (y.dirty > 0 \/ y.force) /\ ~y.prevent THEN <<y.cmd>> ELSE <<>>
      After(y) == [y EXCEPT !.sent = @ \o Itself(y) \o y.also, !.dirty = @ + x.dirty,
                            !.cmd = x.cmd, !.also = x.also, !.force = x.force,
                            !.prevent = x.prevent]
  IN After(Exec([x EXCEPT !.cmd = c, !.dirty = 0, !.also = <<>>,
                          !.force = FALSE, !.prevent = FALSE, !.err = FALSE], c))

\* call() without CMD_CALL_PROPAGATE.
CallLocally(x, c) ==
  [Exec([x EXCEPT !.cmd = c], c) EXCEPT !.cmd = x.cmd]

ReadOnly(c) == c.op = "get"
DenyOom(c) == c.op \in {"set", "incr", "getset", "mset", "push", "rpoplpush",
                        "brpoplpush", "sortstore"}

Used(d) == Cardinality({p \in Dbs \X Keys : d.db[p[1]][p[2]] # None})
OverLimit(x) == x.limit # 0 /\ x.role = "master" /\ Used(x.d) > x.limit

\* luaRedisGenericCommand.
ScriptCall(x0, c, effects) ==
  LET x == IF c.unless = "" THEN x0 ELSE ExpireIfNeeded(x0, c.b, c.unless)
      w == [x EXCEPT !.wrote = @ \/ ~ReadOnly(c)]
      y == IF effects /\ w.wrote /\ ~x.must /\ ~x.multi
           THEN [Propagate(w, Command("multi", "")) EXCEPT !.must = TRUE]
           ELSE w
  IN IF x0.err \/ (c.unless # "" /\ Exists(x, c.b, c.unless)) THEN x
     ELSE IF DenyOom(c) /\ ~x.wrote /\ OverLimit(x) THEN Error(x)
     ELSE IF effects THEN Call(y, c) ELSE CallLocally(y, c)

\* evalGenericCommand.  With effects replication the commands travel between
\* MULTI and EXEC and the script does not; otherwise the script itself
\* travels, by its SHA1 only if the replicas and the AOF have seen its body.
EvalGenericCommand(x, c) ==
  LET effects == Scripts[c.sha].effects
      start == [x EXCEPT !.wrote = FALSE, !.err = FALSE, !.d.scripts = @ \cup {c.sha}]
      run == FoldLeft(LAMBDA y, cc : ScriptCall(y, [cc EXCEPT !.b = c.b], effects),
                      start, Scripts[c.sha].body)
      exec == [Command("exec", "") EXCEPT !.b = c.b]
      Done(y) == [y EXCEPT !.must = x.must, !.wrote = FALSE, !.err = FALSE]
      After(y) ==
        IF effects
        THEN [Done(y) EXCEPT !.prevent = TRUE,
                             !.also = IF y.must /\ ~x.must THEN Append(@, exec) ELSE @]
        ELSE IF c.op = "evalsha" /\ c.sha \notin x.d.cache
        THEN [Done(y) EXCEPT !.d.cache = @ \cup {c.sha}, !.force = TRUE,
                             !.cmd.op = IF y.dirty = x.dirty THEN "load" ELSE "eval"]
        ELSE Done(y)
  IN IF c.op = "evalsha" /\ c.sha \notin x.d.scripts THEN Error(x) ELSE After(run)

ScriptLoad(x, c) == [x EXCEPT !.d.scripts = @ \cup {c.sha}, !.force = TRUE]
ScriptFlush(x, c) == Dirty([x EXCEPT !.d.scripts = {}, !.d.cache = {}])

Exec(x, c) ==
  CASE c.op = "set" -> SetCommand(x, c)
    [] c.op = "get" -> GetCommand(x, c)
    [] c.op = "incr" -> IncrCommand(x, c)
    [] c.op = "getset" -> GetSetCommand(x, c)
    [] c.op = "mset" -> MSetCommand(x, c)
    [] c.op = "del" -> DelGenericCommand(x, c)
    [] c.op = "expire" -> ExpireGenericCommand(x, c)
    [] c.op = "persist" -> PersistCommand(x, c)
    [] c.op = "rename" -> RenameGenericCommand(x, c)
    [] c.op = "move" -> MoveCommand(x, c)
    [] c.op = "swapdb" -> SwapdbCommand(x, c)
    [] c.op = "flush" -> FlushCommand(x, c)
    [] c.op = "push" -> PushGenericCommand(x, c)
    [] c.op = "pop" -> PopGenericCommand(x, c)
    [] c.op = "rpoplpush" -> RpoplpushCommand(x, c)
    [] c.op = "bpop" -> BlockingPop(x, c, WaitKeys(c))
    [] c.op = "brpoplpush" -> BrpoplpushCommand(x, c)
    [] c.op = "sortstore" -> SortStoreCommand(x, c)
    [] c.op \in {"eval", "evalsha"} -> EvalGenericCommand(x, c)
    [] c.op = "load" -> ScriptLoad(x, c)
    [] c.op = "scriptflush" -> ScriptFlush(x, c)

\* execCommand: MULTI is propagated before the first command that may write,
\* and EXEC, by call(), at the end.
ExecCommand(x, q) ==
  LET Step(y, c) == Call(IF ~y.must /\ ~ReadOnly(c)
                         THEN [Propagate(y, Command("multi", "")) EXCEPT !.must = TRUE]
                         ELSE y, c)
      run == FoldLeft(Step, [x EXCEPT !.multi = TRUE], q)
  IN [run EXCEPT !.sent = IF run.must THEN Append(@, Command("exec", "")) ELSE @,
                 !.multi = FALSE]

-----------------------------------------------------------------------------
(* Blocked clients: blocked.c, serveClientBlockedOnList.  h holds the      *)
(* context, the queues of blocked clients and the clients.                 *)

NotBlocked == [keys |-> <<>>, target |-> "", opt |-> ""]
IsBlocked(cl, i) == cl[i].wait # NotBlocked

BlockForKeys(h, i, c) ==
  [h EXCEPT !.blocking[c.b] = [k \in Keys |-> IF Contains(WaitKeys(c), k)
                                             THEN Append(@[k], i) ELSE @[k]],
            !.client[i].wait = [keys |-> WaitKeys(c), opt |-> c.opt,
                                target |-> IF c.op = "brpoplpush" THEN c.k2 ELSE ""]]

UnblockClient(h, i) ==
  [h EXCEPT !.blocking[h.client[i].b] =
              [k \in Keys |-> SelectSeq(@[k], LAMBDA j : j # i)],
            !.client[i].wait = NotBlocked]

\* A mutant: a value whose receiver could not take it is lost.
ServeDropsValue(h, i, b, k, v, w) ==
  LET x == ExpireIfNeeded(h.x, b, w.target)
      rpop == [Command("pop", k) EXCEPT !.b = b, !.opt = w.opt]
      lpush == [Command("push", w.target) EXCEPT !.b = b, !.v = v, !.opt = "head"]
  IN IF w.target = "" THEN [h EXCEPT !.x = [Propagate(h.x, rpop) EXCEPT !.net = @ - 1]]
     ELSE IF Value(x, b, w.target).type = "string"
     THEN [h EXCEPT !.x = Propagate(x, rpop)]
     ELSE [h EXCEPT !.x = Propagate(HandlePush(Propagate(x, rpop), b, w.target, v), lpush)]

\* serveClientBlockedOnList: v was taken from the list k for client i, which
\* waited as w says; the pop and the push travel as commands of their own.
ServeClientBlockedOnList(h, i, b, k, v, w) ==
  LET x == ExpireIfNeeded(h.x, b, w.target)
      rpop == [Command("pop", k) EXCEPT !.b = b, !.opt = w.opt]
      lpush == [Command("push", w.target) EXCEPT !.b = b, !.v = v, !.opt = "head"]
  IN IF w.target = "" THEN [h EXCEPT !.x = [Propagate(h.x, rpop) EXCEPT !.net = @ - 1]]
     ELSE IF Value(x, b, w.target).type = "string"
     THEN [h EXCEPT !.x = DbOverwrite(x, b, k, List(Put(Value(x, b, k).l, v, w.opt)))]
     ELSE [h EXCEPT !.x = Propagate(HandlePush(Propagate(x, rpop), b, w.target, v), lpush)]

RECURSIVE ServeKey(_, _, _, _)
ServeKey(h, b, k, num) ==
  LET o == Value(h.x, b, k)
      i == Head(h.blocking[b][k])
      w == h.client[i].wait
      popped == [UnblockClient(h, i) EXCEPT !.x.d.db[b][k] = List(Rest(o.l, w.opt))]
      next == ServeClientBlockedOnList(popped, i, b, k, Taken(o.l, w.opt), w)
  IN IF num = 0 \/ o.l = <<>> THEN [h EXCEPT !.x = Keep(h.x, b, k, o.l)]
     ELSE ServeKey(next, b, k, num - 1)

\* handleClientsBlockedOnKeys: keys that get ready meanwhile join the queue.
RECURSIVE HandleClientsBlockedOnKeys(_)
HandleClientsBlockedOnKeys(h) ==
  IF h.x.ready = <<>> THEN h
  ELSE LET b == Head(h.x.ready)[1]
           k == Head(h.x.ready)[2]
           waiting == h.blocking[b][k]
           g == [h EXCEPT !.x = ExpireIfNeeded([@ EXCEPT !.ready = Tail(@)], b, k)]
       IN HandleClientsBlockedOnKeys(
            IF waiting = <<>> THEN [h EXCEPT !.x.ready = Tail(@)]
            ELSE IF Value(g.x, b, k).type = "list" THEN ServeKey(g, b, k, Len(waiting))
            ELSE g)

-----------------------------------------------------------------------------
(* Propagation: to the replica and to the append only file.                *)

\* feedAppendOnlyFile: expires become absolute, the options of SET are gone.
FeedAppendOnlyFile(c, time) ==
  LET at(ttl) == [Command("expire", c.k) EXCEPT !.b = c.b, !.opt = "at", !.ttl = ttl]
  IN CASE c.op = "expire" /\ c.opt # "at" -> <<at(c.ttl + time)>>
       [] c.op = "set" /\ c.ttl # 0 -> <<[c EXCEPT !.ttl = 0, !.opt = ""], at(c.ttl + time)>>
       [] c.op = "set" /\ c.ttl = 0 -> <<[c EXCEPT !.opt = ""]>>
       [] c.op \in {"multi", "exec"} -> <<>>
       [] OTHER -> <<c>>

Run(d, role, cs, time) == FoldLeft(Call, Context(d, role, time), cs).d

\* The dataset after loading what was written: commands one by one.
Logged(d, cs, time) ==
  FoldLeft(LAMBDA e, c : Run(e, "loading", FeedAppendOnlyFile(c, time), time), d, cs)

\* What a client that looks at a key now would find.
Seen(d, p) == IF KeyIsExpired(Context(d, "master", now), p[1], p[2]) THEN None
              ELSE d.db[p[1]][p[2]]

\* The end of a step of the master: watched keys that were touched spoil the
\* transactions of their watchers, what was sent goes to the stream and the file.
Commit(h) ==
  /\ data' = h.x.d
  /\ blocking' = h.blocking
  /\ client' = [i \in Clients |-> [h.client[i] EXCEPT
                  !.cas = @ \/ h.client[i].watch \cap h.x.touched # {}]]
  /\ stream' = stream \o h.x.sent
  /\ aof' = Logged(aof, h.x.sent, now)
  /\ ghost' = [ghost EXCEPT !.net = IF setup.conserves THEN @ + h.x.net ELSE @,
                 !.stale = @ \/ h.stale,
                 !.changed = {i \in Clients : /\ h.client[i].watch # {}
                                /\ \/ i \in ghost.changed /\ client[i].watch # {}
                                   \/ \E p \in h.client[i].watch \ h.x.aside :
                                        Seen(data, p) # Seen(h.x.d, p)},
                 !.quiet = {p \in @ \cup h.x.quiet :
                              /\ h.x.d.db[p[1]][p[2]].type = "list"
                              /\ h.blocking[p[1]][p[2]] # <<>>}]
  /\ UNCHANGED <<setup, now, replica>>

Server == [x |-> [Context(data, "master", now) EXCEPT !.limit = setup.limit],
           blocking |-> blocking, client |-> client, stale |-> FALSE]

-----------------------------------------------------------------------------
(* processCommand.                                                         *)

\* freeMemoryIfNeeded: the keys it may delete, one set per outcome.
Candidates == {p \in Dbs \X Keys : /\ data.db[p[1]][p[2]] # None
                                   /\ setup.volatile => data.exp[p[1]][p[2]] # NoExpire}
Evictions ==
  LET excess == Used(data) - setup.limit
  IN IF setup.limit = 0 \/ excess <= 0 THEN {{}}
     ELSE IF Cardinality(Candidates) <= excess THEN {Candidates}
     ELSE {e \in SUBSET Candidates : Cardinality(e) = excess}

FreeMemoryIfNeeded(x, e) ==
  FoldLeft(LAMBDA y, p : DbDelete(Propagate(y, DelCommand(p[1], p[2])), p[1], p[2]),
           [x EXCEPT !.aside = @ \cup e], SetToSeq(e))

Idle(i) == ~IsBlocked(client, i)

\* A command that is executed at once.
ProcessCommand(i, cc) ==
  LET c == [cc EXCEPT !.b = client[i].b] IN
  /\ Idle(i) /\ ~client[i].multi
  /\ \E e \in Evictions :
       LET x == FreeMemoryIfNeeded(Server.x, e)
           y == Call(x, c)
           h == [Server EXCEPT !.x = [y EXCEPT !.blocks = FALSE]]
       IN Commit(IF OverLimit(x) /\ DenyOom(c) THEN [Server EXCEPT !.x = x]
                 ELSE HandleClientsBlockedOnKeys(
                        IF y.blocks THEN BlockForKeys(h, i, c) ELSE h))

\* A command inside MULTI is queued, unless memory is short; DISCARD counts
\* as such a command.
QueueMultiCommand(i, cc) ==
  LET c == [cc EXCEPT !.b = client[i].b] IN
  /\ Idle(i) /\ client[i].multi /\ Len(client[i].q) < setup.queue
  /\ \E e \in Evictions :
       LET x == FreeMemoryIfNeeded(Server.x, e)
       IN Commit(IF OverLimit(x)
                 THEN [Server EXCEPT !.x = x, !.client[i].bad = TRUE]
                 ELSE [Server EXCEPT !.x = x, !.client[i].q = Append(@, c)])

MultiCommand(i) ==
  /\ Idle(i) /\ ~client[i].multi
  /\ Commit([Server EXCEPT !.client[i].multi = TRUE])

Discarded(r) == [r EXCEPT !.multi = FALSE, !.q = <<>>, !.bad = FALSE, !.cas = FALSE,
                          !.watch = {}]

DiscardCommand(i) ==
  /\ Idle(i) /\ client[i].multi
  /\ \E e \in Evictions :
       LET x == FreeMemoryIfNeeded(Server.x, e)
       IN Commit(IF OverLimit(x)
                 THEN [Server EXCEPT !.x = x, !.client[i].bad = TRUE]
                 ELSE [Server EXCEPT !.x = x, !.client[i] = Discarded(@)])

WatchCommand(i, k) ==
  /\ Idle(i) /\ ~client[i].multi
  /\ Commit([Server EXCEPT !.client[i].watch = @ \cup {<<client[i].b, k>>}])

UnwatchCommand(i) ==
  /\ Idle(i) /\ ~client[i].multi /\ client[i].watch # {}
  /\ Commit([Server EXCEPT !.client[i].watch = {}, !.client[i].cas = FALSE])

\* A mutant: EXEC looks only at the errors of the queueing.
MustAbortOnErrors(r) == r.bad

MustAbort(r) == r.cas \/ r.bad

\* EXEC.  The keys are unwatched before the commands run.
ExecTransaction(i) ==
  /\ Idle(i) /\ client[i].multi
  /\ \E e \in Evictions :
       LET x == FreeMemoryIfNeeded(Server.x, e)
           h == [Server EXCEPT !.x = x, !.client[i] = Discarded(@),
                               !.stale = ~MustAbort(client[i]) /\ i \in ghost.changed]
       IN IF MustAbort(client[i]) THEN Commit(h)
          ELSE Commit(HandleClientsBlockedOnKeys([h EXCEPT !.x = ExecCommand(x, client[i].q)]))

SelectCommand(i, b) ==
  /\ Idle(i) /\ ~client[i].multi /\ client[i].b # b
  /\ Commit([Server EXCEPT !.client[i].b = b])

-----------------------------------------------------------------------------
(* What happens without a command.                                         *)

\* The timeout of a blocked client, or CLIENT UNBLOCK.
Timeout(i) ==
  /\ IsBlocked(client, i)
  /\ Commit(UnblockClient(Server, i))

\* freeClient: the client goes and a new one takes its place.
NewClient == [b |-> 0, multi |-> FALSE, q |-> <<>>, bad |-> FALSE, cas |-> FALSE,
              watch |-> {}, wait |-> NotBlocked]
FreeClient(i) ==
  /\ client[i] # NewClient
  /\ Commit([(IF IsBlocked(client, i) THEN UnblockClient(Server, i) ELSE Server)
               EXCEPT !.client[i] = NewClient])

\* activeExpireCycle finds a key that has expired.
ActiveExpireCycle(b, k) ==
  /\ KeyIsExpired(Server.x, b, k)
  /\ Commit([Server EXCEPT !.x = ExpireIfNeeded(@, b, k)])

Tick == /\ now < setup.horizon
        /\ now' = now + 1
        /\ UNCHANGED <<setup, data, client, blocking, stream, replica, aof, ghost>>

\* BGREWRITEAOF: the new file has the keys, not the scripts.
RewriteAppendOnlyFile ==
  /\ setup.scripts
  /\ aof' = [data EXCEPT !.scripts = {}]
  /\ data' = [data EXCEPT !.cache = {}]
  /\ UNCHANGED <<setup, now, client, blocking, stream, replica, ghost>>

\* A full resynchronisation: the snapshot carries keys and scripts.
FullResync ==
  /\ setup.scripts
  /\ replica' = [d |-> data, multi |-> FALSE, q |-> <<>>]
  /\ stream' = <<>>
  /\ data' = [data EXCEPT !.cache = {}]
  /\ UNCHANGED <<setup, now, client, blocking, aof, ghost>>

\* The replica executes the next command; a transaction at its EXEC.
ReplicaApply ==
  /\ stream # <<>>
  /\ stream' = Tail(stream)
  /\ LET c == Head(stream) IN
     replica' = CASE c.op = "multi" -> [replica EXCEPT !.multi = TRUE]
                  [] c.op = "exec" ->
                       [d |-> Run(replica.d, "replica", replica.q, now), multi |-> FALSE,
                        q |-> <<>>]
                  [] replica.multi -> [replica EXCEPT !.q = Append(@, c)]
                  [] OTHER -> [replica EXCEPT !.d = Run(@, "replica", <<c>>, now)]
  /\ UNCHANGED <<setup, now, data, client, blocking, aof, ghost>>

-----------------------------------------------------------------------------

\* A setup: the commands and clients at work, the memory limit in keys (0 for
\* none), whether only keys with a TTL may be evicted, and whether there are
\* transactions, WATCH, several databases and script caches to manage.  Its
\* bounds are the last value of the clock, how many commands the replica may
\* lag behind, the length of a transaction and the elements in the lists.
Init ==
  /\ setup \in Setups
  /\ now = 2
  /\ data = EmptyDataset
  /\ client = [i \in Clients |-> NewClient]
  /\ blocking = [b \in Dbs |-> [k \in Keys |-> <<>>]]
  /\ stream = <<>>
  /\ replica = [d |-> EmptyDataset, multi |-> FALSE, q |-> <<>>]
  /\ aof = EmptyDataset
  /\ ghost = [net |-> 0, changed |-> {}, stale |-> FALSE, quiet |-> {}]

Elements(d) ==
  FoldSet(LAMBDA p, n : n + Len(d.db[p[1]][p[2]].l), 0, Dbs \X Keys)

\* Bounds: the stream, and the lists that are pushed to.
Room == Len(stream) < setup.lag
ListRoom(c) == c.op = "push" => Elements(data) < setup.elements

Next ==
  \/ /\ Room
     /\ \/ \E i \in setup.clients, c \in setup.cmds :
             ListRoom(c) /\ (ProcessCommand(i, c) \/ QueueMultiCommand(i, c))
        \/ \E i \in setup.clients : ExecTransaction(i) \/ Timeout(i) \/ FreeClient(i)
        \/ \E i \in setup.clients :
             setup.tx /\ (MultiCommand(i) \/ DiscardCommand(i) \/ UnwatchCommand(i))
        \/ \E i \in setup.clients, k \in Keys : setup.watch /\ WatchCommand(i, k)
        \/ \E i \in setup.clients, b \in Dbs : setup.select /\ SelectCommand(i, b)
        \/ \E b \in Dbs, k \in Keys : ActiveExpireCycle(b, k)
        \/ RewriteAppendOnlyFile
        \/ FullResync
  \/ Tick
  \/ ReplicaApply

Spec == Init /\ [][Next]_vars

-----------------------------------------------------------------------------

\* The type of the state.
TypeOK ==
  /\ now \in 2..setup.horizon
  /\ \A d \in {data, replica.d, aof} : \A b \in Dbs, k \in Keys :
       /\ d.db[b][k].type \in {"none", "string", "list"}
       /\ d.db[b][k] = None => d.exp[b][k] = NoExpire
       /\ d.db[b][k].type = "list" => d.db[b][k].l # <<>>
  /\ \A i \in Clients : client[i].b \in Dbs /\ Len(client[i].q) <= setup.queue

\* Once the replica has executed everything that was propagated, it has the
\* keys and values of the master; the same keys have a TTL, and none ends
\* earlier than on the master (expire.c, propagateExpire: the master alone
\* decides when a key is gone).
ReplicaConverges ==
  stream = <<>> =>
    /\ ~replica.multi
    /\ replica.d.db = data.db
    /\ \A b \in Dbs, k \in Keys :
         /\ (replica.d.exp[b][k] = NoExpire) = (data.exp[b][k] = NoExpire)
         /\ replica.d.exp[b][k] >= data.exp[b][k]

\* Loading the append only file at any moment between two commands gives the
\* keys, values and TTLs of the master (aof.c, feedAppendOnlyFile).
AofExact == aof.db = data.db /\ aof.exp = data.exp

\* No client waits for a list that has elements: whatever command made the
\* list appear, the clients blocked on it were served before the next command
\* (blocked.c, signalKeyAsReady and handleClientsBlockedOnKeys).  The exception
\* is SORT ... STORE onto a key that holds a value of another type: setKey
\* overwrites it, dbOverwrite announces nothing, and who waits for the key goes
\* on waiting until the list is announced again, by SWAPDB, or is gone.
NoLostWakeup ==
  \A b \in Dbs, k \in Keys :
    data.db[b][k].type = "list" => blocking[b][k] = <<>> \/ <<b, k>> \in ghost.quiet

\* A client is in the queues of exactly the keys it is blocked on, once in
\* each (blocked.c, blockForKeys and unblockClientWaitingData).
BlockingSound ==
  \A b \in Dbs, k \in Keys, i \in Clients :
    Len(SelectSeq(blocking[b][k], LAMBDA j : j = i)) =
      IF client[i].b = b /\ Contains(client[i].wait.keys, k) THEN 1 ELSE 0

\* Where only list commands are at work, every element pushed is in a list or
\* was handed to exactly one client (t_list.c, serveClientBlockedOnList).
ElementsConserved == setup.conserves => Elements(data) = ghost.net

\* An EXEC does not run when a command changed what a client finds under a
\* watched key since WATCH (multi.c, touchWatchedKey).  A key that expires, or
\* that MOVE, SWAPDB or an eviction changes, is not reported to its watchers and
\* does not count.
ExecIsolated == ~ghost.stale

\* Keys that are only ever written together, by EXEC, by a script or by MSET,
\* are equal on the replica in every state a client of the replica can see.
TransactionsAtomic ==
  setup.together => \A k, m \in Keys : replica.d.db[0][k] = replica.d.db[0][m]

\* What is propagated is exact, for the replica and for the append only file.
PropagationExact == TypeOK /\ ReplicaConverges /\ AofExact

\* Blocked clients are queued where they wait, and are not left waiting.
BlockedServed == BlockingSound /\ NoLostWakeup

\* Transactions and scripts are atomic for the other clients of the master
\* (WATCH) and for the clients of the replica.
AtomicSeen == ExecIsolated /\ TransactionsAtomic
=============================================================================
