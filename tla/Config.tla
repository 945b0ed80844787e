------------------------------- MODULE Config -------------------------------
(* The configuration file of a server (config.c): loading it at start-up,     *)
(* CONFIG SET while the server runs, CONFIG REWRITE with the old file as its  *)
(* template, the overwriting of the file in place, and the next start.        *)
(*                                                                            *)
(* A file is a sequence of lines.  A line has a kind ("option", "comment",    *)
(* "blank", "sign" or "broken", a line with unbalanced quotes), a name and    *)
(* arguments.  An argument is what sdssplitargs yields, a record with the     *)
(* number n and the unit of a number, or the words w of a string.  One option *)
(* stands for each family of options the code treats alike.  KB is the unit   *)
(* of memory amounts (1024 in the code).                                      *)
EXTENDS Naturals, Sequences, FiniteSets, SequencesExt, TLC

CONSTANTS Setups,   \* where a behaviour starts and what it may do
          KB        \* one kilobyte

VARIABLES impl,     \* [srv, up, file]: configuration, process and file
          aux       \* setup, bounds, and the file last edited by hand

vars == <<impl, aux>>

----------------------------------------------------------------------------
(* Lines and arguments.                                                       *)

Number(n) == [n |-> n, unit |-> "", w |-> <<>>]
Words(w) == [n |-> 0, unit |-> "", w |-> w]
Option(name, args) == [kind |-> "option", name |-> name, args |-> args]
Comment(c) == [kind |-> "comment", name |-> c, args |-> <<>>]
Broken(c) == [kind |-> "broken", name |-> c, args |-> <<>>]
Blank == [kind |-> "blank", name |-> "", args |-> <<>>]
Signature == [kind |-> "sign", name |-> "", args |-> <<>>]
Padding == Comment("####")

\* The name under which the lines of an option are found: "slave" reads as
\* "replica".
Canonical(name) ==
  CASE name = "slaveof" -> "replicaof"
    [] name = "slave-priority" -> "replica-priority"
    [] OTHER -> name

----------------------------------------------------------------------------
(* The options.  kind says how an option is written, parse how it is read,    *)
(* min and max what CONFIG SET accepts, low what the file may hold.           *)

Numeric(kind, parse, def, min, max, low) ==
  [kind |-> kind, parse |-> parse, def |-> def, min |-> min, max |-> max, low |-> low]

NumericOptions ==
  "cluster-enabled" :> Numeric("yesno", "yesnotoi", 0, 1, 0, 0) @@
  "appendonly" :> Numeric("yesno", "yesnotoi", 0, 0, 1, 0) @@
  "maxmemory" :> Numeric("bytes", "memtoll", 0, 0, 99, 0) @@
  "repl-timeout" :> Numeric("number", "atoi", 3, 1, 99, 1) @@
  "replica-priority" :> Numeric("number", "atoi", 2, 0, 99, 0) @@
  "cluster-node-timeout" :> Numeric("number", "atoi", 3, 0, 99, 1) @@
  "repl-backlog-ttl" :> Numeric("bytes", "atoi", 3, 0, 99, 0) @@
  "maxmemory-policy" :> Numeric("enum", "enum", 2, 0, 2, 0)

NULL == <<"NULL">>      \* a string option that is not set

StringOptions == "requirepass" :> NULL @@ "dbfilename" :> <<"dump.rdb">>

Classes == <<"normal", "replica", "pubsub">>

clientBufferLimitsDefaults ==
  [c \in ToSet(Classes) |-> IF c = "normal" THEN <<0, 0, 0>> ELSE <<4, 2, 1>>]

NoMaster == "NULL"

\* initServerConfig, after main() reset the save points for a file to set them.
Defaults ==
  [num |-> [o \in DOMAIN NumericOptions |-> NumericOptions[o].def],
   str |-> StringOptions,
   save |-> <<>>,
   obuf |-> clientBufferLimitsDefaults,
   bind |-> <<>>,
   master |-> NoMaster]

----------------------------------------------------------------------------
(* Reading and writing values.                                                *)

EnumNames == <<"volatile-lru", "allkeys-lru", "noeviction">>

atoi(a) == a.n

memtoll(a) == IF a.unit = "kb" THEN a.n * KB ELSE a.n

rewriteConfigFormatMemory(bytes) ==
  IF bytes # 0 /\ bytes % KB = 0
  THEN [n |-> bytes \div KB, unit |-> "kb", w |-> <<>>]
  ELSE Number(bytes)

YesNo(n) == Words(IF n = 1 THEN <<"yes">> ELSE <<"no">>)

ValueOf(o, a) ==
  CASE NumericOptions[o].parse = "yesnotoi" -> IF a.w = <<"yes">> THEN 1 ELSE 0
    [] NumericOptions[o].parse = "memtoll" -> memtoll(a)
    [] NumericOptions[o].parse = "atoi" -> atoi(a)
    [] NumericOptions[o].parse = "enum" ->
         (CHOOSE i \in DOMAIN EnumNames : a.w = <<EnumNames[i]>>) - 1

TextOf(o, v) ==
  CASE NumericOptions[o].kind = "yesno" -> YesNo(v)
    [] NumericOptions[o].kind = "bytes" -> rewriteConfigFormatMemory(v)
    [] NumericOptions[o].kind = "number" -> Number(v)
    [] NumericOptions[o].kind = "enum" -> Words(<<EnumNames[v + 1]>>)

\* sdscatrepr quotes a string, so that it is read back as one argument.
sdscatrepr(w) == <<Words(w)>>

\* Words written without quotes are read back as one argument each.
Unquoted(w) == [i \in DOMAIN w |-> Words(<<w[i]>>)]

----------------------------------------------------------------------------
(* loadServerConfigFromString: the lines in order, the first error ends it.   *)

SetLoaded(r, s) == [r EXCEPT !.srv = s]

LoadErr(r) == [r EXCEPT !.err = TRUE]

LoadOption(r, o, args) ==
  LET s == r.srv
      argc == Len(args) + 1 IN
  IF o \in DOMAIN NumericOptions /\ argc = 2
  THEN LET v == ValueOf(o, args[1]) IN
       IF v < NumericOptions[o].low THEN LoadErr(r) ELSE SetLoaded(r, [s EXCEPT !.num[o] = v])
  ELSE IF o = "requirepass" /\ argc = 2
  THEN SetLoaded(r, [s EXCEPT !.str[o] = IF args[1].w = <<>> THEN NULL ELSE args[1].w])
  ELSE IF o = "dbfilename" /\ argc = 2
  THEN SetLoaded(r, [s EXCEPT !.str[o] = args[1].w])
  ELSE IF o = "save"
  THEN CASE argc = 3 -> SetLoaded(r, [s EXCEPT !.save = Append(@, <<args[1].n, args[2].n>>)])
         [] argc = 2 -> SetLoaded(r, [s EXCEPT !.save = <<>>])
         [] OTHER -> r
  ELSE IF o = "bind" /\ argc >= 2
  THEN SetLoaded(r, [s EXCEPT !.bind = [i \in DOMAIN args |-> args[i].w[1]]])
  ELSE IF o = "replicaof" /\ argc = 3
  THEN SetLoaded(r, [s EXCEPT !.master = args[1].w[1]])
  ELSE IF o = "client-output-buffer-limit" /\ argc = 5
  THEN SetLoaded(r, [s EXCEPT !.obuf[args[1].w[1]] = <<memtoll(args[2]), memtoll(args[3]), atoi(args[4])>>])
  ELSE IF o = "rename-command" /\ argc = 3
  THEN r
  ELSE LoadErr(r)

LoadLine(r, line) ==
  CASE r.err \/ line.kind \in {"comment", "blank", "sign"} -> r
    [] line.kind = "broken" -> LoadErr(r)
    [] OTHER -> LoadOption(r, Canonical(line.name), line.args)

RECURSIVE LoadLines(_, _)
LoadLines(r, lines) ==
  IF lines = <<>> THEN r ELSE LoadLine(LoadLines(r, Front(lines)), Last(lines))

loadServerConfigFromString(lines) ==
  LET r == LoadLines([srv |-> Defaults, err |-> FALSE], lines) IN
  IF r.srv.num["cluster-enabled"] = 1 /\ r.srv.master # NoMaster THEN LoadErr(r) ELSE r

----------------------------------------------------------------------------
(* What each writer asks of rewriteConfigRewriteLine, in the order of         *)
(* rewriteConfig: a line of an option, forced or not, or only the mark.       *)

Line(option, args, force) == [option |-> option, args |-> args, force |-> force, mark |-> FALSE]
MarkOnly(option) == [option |-> option, args |-> <<>>, force |-> FALSE, mark |-> TRUE]

rewriteConfigNumericalOption(s, option) ==
  <<Line(option, <<TextOf(option, s.num[option])>>,
         s.num[option] # NumericOptions[option].def)>>

rewriteConfigStringOption(s, option) ==
  IF s.str[option] = NULL THEN <<MarkOnly(option)>>
  ELSE <<Line(option, sdscatrepr(s.str[option]), s.str[option] # StringOptions[option])>>

rewriteConfigSaveOption(s) ==
  [i \in DOMAIN s.save |-> Line("save", <<Number(s.save[i][1]), Number(s.save[i][2])>>, TRUE)]
    \o <<MarkOnly("save")>>

rewriteConfigSlaveofOption(s) ==
  IF s.num["cluster-enabled"] = 1 \/ s.master = NoMaster THEN <<MarkOnly("replicaof")>>
  ELSE <<Line("replicaof", <<Words(<<s.master>>), Number(1)>>, TRUE)>>

rewriteConfigClientoutputbufferlimitOption(s) ==
  [j \in DOMAIN Classes |->
    LET limit == s.obuf[Classes[j]] IN
    Line("client-output-buffer-limit",
         <<Words(<<Classes[j]>>), rewriteConfigFormatMemory(limit[1]),
           rewriteConfigFormatMemory(limit[2]), Number(limit[3])>>,
         limit # clientBufferLimitsDefaults[Classes[j]])]

rewriteConfigBindOption(s) ==
  IF s.bind = <<>> THEN <<MarkOnly("bind")>> ELSE <<Line("bind", Unquoted(s.bind), TRUE)>>

NumericOrder == <<"appendonly", "maxmemory", "repl-timeout", "replica-priority",
                  "repl-backlog-ttl", "maxmemory-policy", "cluster-enabled",
                  "cluster-node-timeout">>

LinesOf(s) ==
  [i \in DOMAIN NumericOrder |-> rewriteConfigNumericalOption(s, NumericOrder[i])[1]]
    \o rewriteConfigStringOption(s, "requirepass") \o rewriteConfigStringOption(s, "dbfilename")
    \o rewriteConfigBindOption(s) \o rewriteConfigSaveOption(s)
    \o rewriteConfigSlaveofOption(s) \o rewriteConfigClientoutputbufferlimitOption(s)

----------------------------------------------------------------------------
(* CONFIG REWRITE.  The n-th line a writer asks for under an option takes the *)
(* place of the n-th line of that option in the old file; when the old file   *)
(* has no more of them it is appended if forced and dropped if not.           *)

\* rewriteConfigReadOldFile: lines that cannot be split become comments.
ReadLine(line) == IF line.kind = "broken" THEN Comment(line.name) ELSE line

\* option_to_line: the numbers of the lines of an option.
option_to_line(file, option) ==
  SelectSeq([i \in DOMAIN file |-> i],
            LAMBDA i : file[i].kind = "option" /\ Canonical(file[i].name) = option)

\* The lines asked for under an option.
AskedFor(lines, option) == SelectSeq(lines, LAMBDA l : l.option = option /\ ~l.mark)

\* The options a writer spoke of, if only to mark them as processed.
rewritten(lines) == {lines[k].option : k \in DOMAIN lines}

\* Blanks the unused lines of every option, known to the rewrite or not.
OldLineUnknown(file, lines, i) ==
  LET option == Canonical(file[i].name)
      n == CHOOSE k \in 1..Len(file) : option_to_line(file, option)[k] = i
      asked == AskedFor(lines, option) IN
  IF file[i].kind # "option" THEN ReadLine(file[i])
  ELSE IF n <= Len(asked) THEN Option(option, asked[n].args)
  ELSE Blank

\* What becomes of line i of the old file: rewriteConfigRewriteLine reuses it,
\* rewriteConfigRemoveOrphaned blanks it, or it stays.
OldLine(file, lines, i) ==
  LET option == Canonical(file[i].name)
      n == CHOOSE k \in 1..Len(file) : option_to_line(file, option)[k] = i
      asked == AskedFor(lines, option) IN
  IF file[i].kind # "option" THEN ReadLine(file[i])
  ELSE IF n <= Len(asked) THEN Option(option, asked[n].args)
  ELSE IF option \in rewritten(lines) THEN Blank
  ELSE file[i]

Appends(file, lines, k) ==
  /\ ~lines[k].mark /\ lines[k].force
  /\ Len(AskedFor(SubSeq(lines, 1, k), lines[k].option)) > Len(option_to_line(file, lines[k].option))

\* The appended lines, below the signature.
NewLines(file, lines) ==
  LET ks == SelectSeq([k \in DOMAIN lines |-> k], LAMBDA k : Appends(file, lines, k)) IN
  (IF ks = <<>> \/ \E i \in DOMAIN file : file[i] = Signature THEN <<>> ELSE <<Signature>>)
    \o [j \in DOMAIN ks |-> Option(lines[ks[j]].option, lines[ks[j]].args)]

\* Every cluster of empty lines is turned into one empty line.
rewriteConfigGetContentFromState(all) ==
  LET kept == SelectSeq([i \in DOMAIN all |-> i],
                        LAMBDA i : ~(i > 1 /\ all[i] = Blank /\ all[i - 1] = Blank)) IN
  [i \in DOMAIN kept |-> all[kept[i]]]

Rewritten(file, s) ==
  LET lines == LinesOf(s) IN
  rewriteConfigGetContentFromState(
    [i \in DOMAIN file |-> OldLine(file, lines, i)] \o NewLines(file, lines))

----------------------------------------------------------------------------
(* rewriteConfigOverwriteFile: the new content is written over the old one in *)
(* one call, padded to the old size, and the file is then truncated.  The     *)
(* process may be killed between the two calls.                               *)

LineSize(line) == IF line = Blank THEN 1 ELSE 3 + 2 * Len(line.args)

Size(file) == FoldLeft(LAMBDA n, line : n + LineSize(line), 0, file)

BeforeTruncate(old, new) ==
  LET padding == IF Size(new) < Size(old) THEN Size(old) - Size(new) ELSE 0 IN
  CASE padding = 0 -> new
    [] padding = 1 -> Append(new, Blank)
    [] padding > 1 -> new \o <<Blank, Padding>>

----------------------------------------------------------------------------
(* The actions.                                                               *)

Changed(s) ==
  /\ aux.sets > 0 /\ s # impl.srv
  /\ impl' = [impl EXCEPT !.srv = s]
  /\ aux' = [aux EXCEPT !.sets = @ - 1]

\* main(): the defaults, the file, then the options of the command line.
Start ==
  LET r == loadServerConfigFromString(impl.file \o aux.setup.options) IN
  /\ impl.up = "down"
  /\ impl' = [impl EXCEPT !.up = IF r.err THEN "failed" ELSE "up", !.srv = r.srv]
  /\ UNCHANGED aux

Stop ==
  /\ impl.up = "up"
  /\ impl' = [impl EXCEPT !.up = "down"]
  /\ UNCHANGED aux

\* config_set_numerical_field and its companions for flags, amounts and names.
configSetNumeric(o, v) ==
  /\ impl.up = "up"
  /\ v >= NumericOptions[o].min /\ v <= NumericOptions[o].max
  /\ Changed([impl.srv EXCEPT !.num[o] = v])

configSetRequirepass(w) ==
  /\ impl.up = "up"
  /\ Changed([impl.srv EXCEPT !.str["requirepass"] = IF w = <<>> THEN NULL ELSE w])

configSetDbfilename(w) ==
  /\ impl.up = "up"
  /\ Changed([impl.srv EXCEPT !.str["dbfilename"] = w])

configSetSave(points) ==
  /\ impl.up = "up"
  /\ \A i \in DOMAIN points : points[i][1] >= 1
  /\ Changed([impl.srv EXCEPT !.save = points])

configSetObuf(c, limit) ==
  /\ impl.up = "up"
  /\ Changed([impl.srv EXCEPT !.obuf[c] = limit])

\* REPLICAOF, or in a cluster the assignment of a master by the cluster code.
replicationSetMaster(m) ==
  /\ impl.up = "up"
  /\ Changed([impl.srv EXCEPT !.master = m])

\* The command "config rewrite".  A failed open or write leaves the file alone.
rewriteConfig ==
  /\ impl.up = "up"
  /\ impl' = [impl EXCEPT !.file = Rewritten(impl.file, impl.srv)]
  /\ UNCHANGED aux

\* The same, the process killed after write(2) and before ftruncate(2).
RewriteKilled ==
  /\ impl.up = "up" /\ aux.kills > 0
  /\ impl' = [impl EXCEPT !.up = "down",
                !.file = BeforeTruncate(impl.file, Rewritten(impl.file, impl.srv))]
  /\ aux' = [aux EXCEPT !.kills = @ - 1]

\* An administrator edits the file while the server runs.
Edit ==
  /\ impl.up = "up" /\ aux.setup.edited # impl.file /\ aux.edits > 0
  /\ impl' = [impl EXCEPT !.file = aux.setup.edited]
  /\ aux' = [aux EXCEPT !.edits = @ - 1, !.origin = aux.setup.edited]

ConfigSet ==
  \/ \E p \in aux.setup.nums : configSetNumeric(p[1], p[2])
  \/ \E w \in aux.setup.passwords : configSetRequirepass(w)
  \/ \E w \in aux.setup.names : configSetDbfilename(w)
  \/ \E p \in aux.setup.saves : configSetSave(p)
  \/ \E p \in aux.setup.obufs : configSetObuf(p[1], p[2])

Next ==
  \/ Start
  \/ Stop
  \/ ConfigSet
  \/ \E m \in aux.setup.masters : replicationSetMaster(m)
  \/ rewriteConfig
  \/ RewriteKilled
  \/ Edit

Init ==
  \E i \in DOMAIN Setups :
    LET setup == Setups[i] IN
    /\ impl = [srv |-> Defaults, up |-> "down", file |-> setup.file]
    /\ aux = [setup |-> setup, kills |-> setup.kills, sets |-> setup.sets, edits |-> setup.edits, origin |-> setup.file]

Spec == Init /\ [][Next]_vars

----------------------------------------------------------------------------
(* Properties.                                                                *)

\* The master of a cluster node is kept in nodes.conf, not in this file.
InFile(s) == IF s.num["cluster-enabled"] = 1 THEN [s EXCEPT !.master = NoMaster] ELSE s

\* CONFIG SET takes values the file must not hold (cluster-node-timeout 0).
Loadable(s) == \A o \in DOMAIN NumericOptions : s.num[o] >= NumericOptions[o].low

ReloadsAs(file, s) ==
  LET r == loadServerConfigFromString(file) IN
  IF Loadable(s) THEN ~r.err /\ r.srv = InFile(s) ELSE r.err

\* The file CONFIG REWRITE leaves behind loads without an error and gives back
\* the configuration the server ran with, whatever the old file looked like
\* and whatever was set since: rewriteConfig against
\* loadServerConfigFromString.  The file of a server that was set to a value
\* only CONFIG SET accepts is refused, and the server does not start again.
Reloads == rewriteConfig => ReloadsAs(impl'.file, impl.srv)

\* A server killed between the write and the truncation of the file starts
\* again with the configuration it was saving: the padding of
\* rewriteConfigOverwriteFile hides the rest of the old file.
ReloadsTorn == RewriteKilled => ReloadsAs(impl'.file, impl.srv)

\* What a file says beyond the options the rewrite understands: comments and
\* directives it does not know, broken lines as comments.
Foreign(file) ==
  SelectSeq([i \in DOMAIN file |-> ReadLine(file[i])], LAMBDA line :
    \/ line.kind = "comment" /\ line # Padding
    \/ line.kind = "option" /\ line.name = "rename-command")

\* Comments and directives the rewrite does not understand stay in the file,
\* in their order, through any number of rewrites and restarts.
KeepsForeign == Foreign(impl.file) = Foreign(aux.origin)

WithoutLimits(file) == SelectSeq(file, LAMBDA line : line.name # "client-output-buffer-limit")

\* Rewriting a rewritten file changes nothing but the lines of the output
\* buffer limits, which come to rest with the third rewrite: the lines a
\* rewrite reuses, adds and blanks are the ones the next one finds, but
\* rewriteConfigClientoutputbufferlimitOption fills the lines it finds class
\* by class and appends only the classes that differ from the default.
Settles ==
  LET Again(file) == {Rewritten(file, impl.srv)}
  IN rewriteConfig => \A second \in Again(impl'.file) :
                        /\ WithoutLimits(second) = WithoutLimits(impl'.file)
                        /\ \A third \in Again(second) : Again(third) = {third}
=============================================================================
