------------------------------- MODULE MCAof -------------------------------
(* Situations of Aof for TLC. *)
EXTENDS Aof

TwoDbs == {0, 1}

Plain == [dbs |-> {0}, policies |-> {"everysec"}, preamble |-> FALSE, nofsync |-> FALSE,
          torn |-> FALSE, writes |-> 2, tx |-> 0, rewrites |-> 0,
          saves |-> 0, configs |-> 0, faults |-> 0, crashes |-> 0]

\* A rewrite next to writes in two databases, with a failure.
Rewriting == [Plain EXCEPT !.dbs = TwoDbs, !.policies = {"always", "everysec", "no"},
                           !.writes = 3, !.rewrites = 1, !.faults = 1]
\* The AOF is switched off and on, next to a BGSAVE, with a failure.
Switching == [Plain EXCEPT !.policies = {"always", "everysec", "no"}, !.saves = 1,
                           !.configs = 2, !.faults = 1]
\* Crashes that cut commands, with a rewrite and a failure.
Crashing == [Plain EXCEPT !.policies = {"always", "everysec", "no"}, !.torn = TRUE,
                          !.rewrites = 1, !.faults = 1, !.crashes = 1]
\* Two crashes between commands, with a transaction and a rewrite that leaves an RDB.
Transaction == [Plain EXCEPT !.preamble = TRUE, !.writes = 3, !.tx = 1, !.rewrites = 1,
                             !.crashes = 2]

Safe == {Rewriting, Switching, Crashing, Transaction}
=============================================================================
