----------------------------- MODULE MCKeyspace -----------------------------
EXTENDS Keyspace

C(op, k) == Command(op, k)
Cv(op, k, v) == [Command(op, k) EXCEPT !.v = v]
Co(op, k, o) == [Command(op, k) EXCEPT !.opt = o]
C2(op, k, k2) == [Command(op, k) EXCEPT !.k2 = k2]
Ct(op, k, t) == [Command(op, k) EXCEPT !.ttl = t]
Cs(op, s) == [Command(op, "a") EXCEPT !.sha = s]

MCScripts ==
  [tx |-> [body |-> <<Cv("set", "a", 1), [C("incr", "b") EXCEPT !.unless = "b"]>>, effects |-> FALSE],
   fx |-> [body |-> <<C("get", "a"), C("incr", "a"), Ct("expire", "a", 1)>>, effects |-> TRUE],
   er |-> [body |-> <<C("incr", "a"), C("incr", "b"), C("del", "a")>>, effects |-> FALSE],
   pair |-> [body |-> <<C("incr", "a"), C("incr", "b")>>, effects |-> FALSE],
   pairfx |-> [body |-> <<C("del", "a"), C("del", "b")>>, effects |-> TRUE],
   gone |-> [body |-> <<Ct("expire", "a", -1)>>, effects |-> FALSE]]

Base == [cmds |-> {}, clients |-> {1}, limit |-> 0, volatile |-> FALSE, horizon |-> 2, lag |-> 1,
         queue |-> 2, elements |-> 2,
         tx |-> FALSE, watch |-> FALSE, select |-> FALSE, scripts |-> FALSE,
         conserves |-> FALSE, together |-> FALSE]

Expiry == [Base EXCEPT !.lag = 2, !.horizon = 4,
  !.cmds = {[Cv("set", "a", 1) EXCEPT !.ttl = 1], Co("set", "a", "nx"), C("get", "a"),
            C("incr", "a"), Ct("expire", "a", 1), Ct("expire", "a", -1), C("persist", "a"),
            C2("rename", "a", "b"), [C2("rename", "b", "a") EXCEPT !.opt = "nx"]}]
ExpiryTx == [Base EXCEPT !.lag = 2, !.horizon = 4, !.tx = TRUE,
  !.cmds = {[Cv("set", "a", 1) EXCEPT !.ttl = 1], C("get", "a"), Cs("eval", "tx"), Cs("eval", "fx")}]
Blocking == [Base EXCEPT !.elements = 3, !.lag = 2, !.clients = {1, 2, 3}, !.conserves = TRUE,
  !.cmds = {Co("set", "b", "nx"), [Cv("push", "a", 1) EXCEPT !.opt = "head"], [Cv("push", "b", 2) EXCEPT !.opt = "tail"],
            [C2("bpop", "a", "b") EXCEPT !.opt = "head"],
            [C2("brpoplpush", "a", "b") EXCEPT !.opt = "tail"],
            [C2("brpoplpush", "b", "b") EXCEPT !.opt = "tail"]}]
BlockingTx == [Base EXCEPT !.clients = {1, 2}, !.tx = TRUE,
  !.cmds = {[Cv("push", "a", 1) EXCEPT !.opt = "head"], [Co("pop", "a", "tail") EXCEPT !.b = 0],
            Cv("set", "b", 1), C2("rename", "b", "a"),
            [C2("bpop", "a", "b") EXCEPT !.opt = "tail"],
            [C2("brpoplpush", "a", "b") EXCEPT !.opt = "tail"]}]
Databases == [Base EXCEPT !.clients = {1, 2}, !.select = TRUE,
  !.cmds = {[Cv("push", "a", 1) EXCEPT !.opt = "head"], C2("sortstore", "a", "b"), Cv("move", "a", 1), Cv("swapdb", "a", 1),
            [C("bpop", "a") EXCEPT !.opt = "tail"], C("flush", "a"), Co("flush", "a", "all")}]
Watching == [Base EXCEPT !.queue = 1, !.clients = {1, 2}, !.tx = TRUE, !.watch = TRUE,
  !.cmds = {C("incr", "a"), C("del", "a"), Co("flush", "a", "all"), Cv("getset", "b", 1),
            Cv("move", "a", 1)}]
WatchingTime == [Base EXCEPT !.queue = 1, !.clients = {1, 2}, !.tx = TRUE, !.watch = TRUE,
  !.horizon = 4, !.cmds = {[Cv("set", "a", 1) EXCEPT !.ttl = 1], C("incr", "a"), C("get", "a")}]
Overwriting == [Base EXCEPT !.clients = {1, 2},
  !.cmds = {[Cv("push", "a", 1) EXCEPT !.opt = "head"], C2("sortstore", "a", "b"), Cv("set", "b", 1),
            [C("bpop", "b") EXCEPT !.opt = "tail"], C("del", "b"), Cv("swapdb", "b", 1)}]
Memory == [Base EXCEPT !.limit = 1, !.volatile = TRUE, !.horizon = 3, !.tx = TRUE, !.watch = TRUE,
  !.cmds = {[Cv("set", "a", 1) EXCEPT !.ttl = 1], C("incr", "b"), C("del", "b"), Cs("eval", "tx")}]
Caches == [Base EXCEPT !.lag = 2, !.scripts = TRUE,
  !.cmds = {Cs("eval", "tx"), Cs("evalsha", "tx"), Cs("evalsha", "er"), Cs("load", "er"),
            C("scriptflush", "a"), C("del", "a"), [C("push", "b") EXCEPT !.opt = "head"]}]
Together == [Base EXCEPT !.tx = TRUE, !.together = TRUE,
  !.cmds = {[C2("mset", "a", "b") EXCEPT !.v = 1], [C2("mset", "a", "b") EXCEPT !.opt = "nx"],
            Cs("eval", "pair"), Cs("eval", "pairfx"), C("get", "a")}]
MCSetups == {Expiry, ExpiryTx, Blocking, BlockingTx, Databases, Watching,
             WatchingTime, Overwriting, Memory, Caches, Together}
=============================================================================
